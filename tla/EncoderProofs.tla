---------------------------- MODULE EncoderProofs ----------------------------
(* What the file looks like after any number of runs that end or fail at any   *)
(* point.                                                                      *)
EXTENDS Encoder, TLAPS

LEMMA Appended ==
  ASSUME file \in Seq(Lines), NEW e \in Lines, file' = Append(file, e)
  PROVE  /\ file' \in Seq(Lines)
         /\ Len(file) \in Nat
         /\ DOMAIN file = 1 .. Len(file)
         /\ DOMAIN file' = 1 .. Len(file) + 1
         /\ Len(file') = Len(file) + 1
         /\ \A i \in 1 .. Len(file) : file'[i] = file[i]
         /\ file'[Len(file) + 1] = e
         /\ file' # <<>>
         /\ file = <<>> <=> Len(file) = 0
OBVIOUS

\* A line or half of it has been added, or nothing.
Grown(l, ok) ==
  \/ ok /\ ~failed /\ ~failed' /\ file' = Append(file, l)
  \/ ~ok /\ failed' /\ file' = file
  \/ ~ok /\ failed' /\ ~failed /\ file' = Append(file, [l EXCEPT !.whole = FALSE])

LEMMA FlushGrows ==
  ASSUME NEW l, NEW ok, Flush(l, ok)
  PROVE  Grown(l, ok)
<1>1. CASE ~failed /\ ok /\ file' = Append(file, l) /\ UNCHANGED failed
  BY <1>1, Zenon DEF Grown
<1>2. CASE /\ ~failed /\ ~ok /\ failed' = TRUE
           /\ UNCHANGED file \/ file' = Append(file, [l EXCEPT !.whole = FALSE])
  BY <1>2, Zenon DEF Grown
<1>3. CASE failed /\ ~ok /\ UNCHANGED <<file, failed>>
  BY <1>3, Zenon DEF Grown
<1> QED  BY <1>1, <1>2, <1>3, Zenon DEF Flush

\* TypeOK, the flags apart from the rest; a running run has a number, and has
\* created the file before it writes.
Flags ==
  /\ exists \in BOOLEAN /\ newFile \in BOOLEAN
  /\ failed \in BOOLEAN /\ badStart \in BOOLEAN

Shapes ==
  /\ file \in Seq(Lines)
  /\ run \in 0 .. MaxRuns
  /\ state \in {"down", "stat", "open", "up"}
  /\ given \in 0 .. MaxRows
  /\ acked \subseteq Lines
  /\ state # "down" => run \in 1 .. MaxRuns

Created ==
  /\ file # <<>> => exists
  /\ state = "open" \/ state = "up" => exists
  /\ state = "stat" /\ ~newFile => exists

TypeInv == Flags /\ Shapes /\ Created

LEMMA TypeInit == Init => TypeInv
<1> SUFFICES ASSUME Init PROVE TypeInv
  OBVIOUS
<1>1. Flags
  BY Zenon DEF Init, Flags
<1>2. Shapes
  BY EncoderAssumption DEF Init, Shapes
<1>3. Created
  BY DEF Init, Created
<1> QED  BY <1>1, <1>2, <1>3 DEF TypeInv

LEMMA LineType ==
  ASSUME Shapes, state # "down", NEW n \in 0 .. MaxRows
  PROVE  /\ Line(n) \in Lines /\ Line(n).n = n /\ Line(n).whole = TRUE
         /\ [Line(n) EXCEPT !.whole = FALSE] \in Lines
         /\ [Line(n) EXCEPT !.whole = FALSE].n = n
BY DEF Shapes, Line, Lines, Header

LEMMA FileType ==
  ASSUME Shapes, state # "down", NEW n \in 0 .. MaxRows, NEW ok,
         Flush(Line(n), ok)
  PROVE  /\ file' \in Seq(Lines)
         /\ \/ file' = file
            \/ \E l \in Lines : l.n = n /\ file' = Append(file, l)
<1>1. \/ file' = file
      \/ file' = Append(file, Line(n))
      \/ file' = Append(file, [Line(n) EXCEPT !.whole = FALSE])
  BY FlushGrows, Zenon DEF Grown
<1>2. file \in Seq(Lines)
  BY DEF Shapes
<1>3. ASSUME NEW l \in Lines, l.n = n, file' = Append(file, l)
      PROVE  file' \in Seq(Lines) /\ \E k \in Lines : k.n = n /\ file' = Append(file, k)
  BY <1>2, <1>3, Appended
<1> QED  BY <1>1, <1>2, <1>3, LineType

LEMMA TypeStep == TypeInv /\ [Next]_vars => TypeInv'
<1> SUFFICES ASSUME TypeInv, [Next]_vars PROVE TypeInv'
  OBVIOUS
<1> USE EncoderAssumption DEF TypeInv
<1>1. CASE Stat
  <2>1. Flags'
    BY <1>1, Zenon DEF Stat, Flags
  <2>2. Shapes'
    BY <1>1 DEF Stat, Shapes
  <2>3. Created'
    <3>1. newFile' = ~exists /\ exists' = exists /\ state' = "stat" /\ file' = file
      BY <1>1 DEF Stat
    <3>2. ~newFile' => exists'
      BY <3>1, Zenon DEF Flags
    <3> QED  BY <3>1, <3>2 DEF Created
  <2> QED  BY <2>1, <2>2, <2>3
<1>2. CASE Open
  <2>1. Flags'
    BY <1>2, Zenon DEF Open, Flags
  <2>2. Shapes'
    BY <1>2 DEF Open, Shapes
  <2>3. Created'
    BY <1>2 DEF Open, Created
  <2> QED  BY <2>1, <2>2, <2>3
<1>3. ASSUME NEW ok \in BOOLEAN, WriteHeader(ok) PROVE TypeInv'
  <2>1. Header \in 0 .. MaxRows /\ state = "open"
    BY <1>3 DEF Header, WriteHeader
  <2>2. file' \in Seq(Lines)
    BY <1>3, <2>1, FileType DEF WriteHeader
  <2>3. Flags'
    BY <1>3, Zenon DEF WriteHeader, Flush, Flags
  <2>4. Shapes'
    BY <1>3, <2>2 DEF WriteHeader, Shapes
  <2>5. Created'
    BY <1>3 DEF WriteHeader, Created
  <2> QED  BY <2>3, <2>4, <2>5
<1>4. ASSUME NEW ok \in BOOLEAN, Write(ok) PROVE TypeInv'
  <2>1. given' \in 0 .. MaxRows /\ given' = given + 1 /\ state = "up"
    BY <1>4 DEF Write, Shapes
  <2>2. file' \in Seq(Lines)
    BY <1>4, <2>1, FileType DEF Write
  <2>3. Flags'
    BY <1>4, Zenon DEF Write, Flush, Flags
  <2>4. acked' \subseteq Lines
    BY <1>4, <2>1, LineType DEF Write, Shapes
  <2>5. Shapes'
    BY <1>4, <2>1, <2>2, <2>4 DEF Write, Shapes
  <2>6. Created'
    BY <1>4 DEF Write, Created
  <2> QED  BY <2>3, <2>5, <2>6
<1>5. CASE End
  <2>1. Flags'
    BY <1>5, Zenon DEF End, Flags
  <2>2. Shapes' /\ Created'
    BY <1>5 DEF End, Shapes, Created
  <2> QED  BY <2>1, <2>2
<1>6. CASE UNCHANGED vars
  BY <1>6 DEF vars, Flags, Shapes, Created
<1> QED  BY <1>1, <1>2, <1>3, <1>4, <1>5, <1>6 DEF Next, Over

\* The variables of the encoder keep their types.
THEOREM TypeCorrect == Spec => []TypeOK
<1>1. TypeInv => TypeOK
  BY DEF TypeInv, Flags, Shapes, Created, TypeOK
<1> QED  BY <1>1, TypeInit, TypeStep, PTL DEF Spec

-----------------------------------------------------------------------------
(* The header *)

HasHeader == file # <<>> /\ file[1].n = Header /\ file[1].whole

\* A run that will write a header has found no file, so the file is still empty;
\* a file that was created without a mishap has its header, but for the run
\* that is about to write it.
HeaderInv ==
  /\ TypeInv
  /\ \A i \in DOMAIN file : file[i].n = Header => i = 1
  /\ (state = "stat" /\ newFile) \/ state = "open" => file = <<>>
  /\ exists /\ ~badStart /\ state # "open" => HasHeader

LEMMA HeaderStep == HeaderInv /\ [Next]_vars => HeaderInv'
<1> SUFFICES ASSUME HeaderInv, [Next]_vars PROVE HeaderInv'
  OBVIOUS
<1>0. TypeInv /\ TypeInv'
  BY TypeStep DEF HeaderInv
<1> USE DEF HeaderInv
<1>1. CASE Stat
  <2>1. newFile' = ~exists /\ file' = file /\ state = "down" /\ state' = "stat"
        /\ UNCHANGED <<exists, badStart>>
    BY <1>1 DEF Stat
  <2>2. newFile' => file = <<>>
    <3>1. newFile' => ~exists
      BY <2>1, Zenon
    <3> QED  BY <1>0, <3>1 DEF TypeInv, Created
  <2> QED  BY <1>0, <2>1, <2>2 DEF HasHeader
<1>2. CASE Open
  <2>1. /\ state = "stat" /\ UNCHANGED <<file, newFile, badStart>>
        /\ newFile => state' = "open"
        /\ ~newFile => state' = "up" /\ exists
    BY <1>0, <1>2 DEF Open, NeedsHeader, TypeInv, Created
  <2> QED  BY <1>0, <2>1 DEF HasHeader
<1>3. ASSUME NEW ok \in BOOLEAN, WriteHeader(ok) PROVE HeaderInv'
  <2>1. /\ Header \in 0 .. MaxRows /\ file = <<>>
        /\ state = "open" /\ state' = "up" /\ Flush(Line(Header), ok)
    BY <1>3, EncoderAssumption DEF WriteHeader, Header
  <2>2. PICK l \in Lines : file' = file \/ file' = Append(file, l)
    BY <1>0, <2>1, FileType, LineType DEF TypeInv
  <2>3. \A i \in DOMAIN file' : i = 1
    BY <2>1, <2>2
  <2>4. ok => file' = Append(file, Line(Header))
    BY <2>1, FlushGrows, Zenon DEF Grown
  <2>5. ok => HasHeader'
    <3>1. Line(Header) \in Lines /\ Line(Header).n = Header /\ Line(Header).whole = TRUE
      BY <1>0, <2>1, LineType DEF TypeInv
    <3>2. ok => file' = <<Line(Header)>>
      BY <2>1, <2>4
    <3> QED  BY <3>1, <3>2 DEF HasHeader
  <2>6. ~badStart' => ok
    BY <1>3, Zenon DEF WriteHeader
  <2> QED  BY <1>0, <2>1, <2>3, <2>5, <2>6
<1>4. ASSUME NEW ok \in BOOLEAN, Write(ok) PROVE HeaderInv'
  <2>1. /\ given' \in 1 .. MaxRows /\ state = "up" /\ state' = "up"
        /\ exists' = exists /\ badStart' = badStart /\ Flush(Line(given'), ok)
    BY <1>0, <1>4 DEF Write, TypeInv, Shapes
  <2>2. \/ file' = file
        \/ \E l \in Lines : l.n = given' /\ file' = Append(file, l)
    BY <1>0, <2>1, FileType DEF TypeInv
  <2>3. \A i \in DOMAIN file' : file'[i].n = Header => i = 1
    BY <1>0, <2>1, <2>2, Appended DEF Header, TypeInv, Shapes
  <2>4. HasHeader => HasHeader'
    <3>1. ASSUME HasHeader, NEW l \in Lines, file' = Append(file, l) PROVE HasHeader'
      <4>1. file \in Seq(Lines) /\ file # <<>>
        BY <1>0, <3>1 DEF HasHeader, TypeInv, Shapes
      <4>2. 1 \in 1 .. Len(file)
        BY <3>1, <4>1, Appended
      <4>3. file'[1] = file[1] /\ file' # <<>>
        BY <3>1, <4>1, <4>2, Appended
      <4> QED  BY <3>1, <4>3 DEF HasHeader
    <3> QED  BY <2>2, <3>1 DEF HasHeader
  <2> QED  BY <1>0, <2>1, <2>3, <2>4
<1>5. CASE End
  <2>1. /\ state' = "down" /\ UNCHANGED <<file, exists>>
        /\ ~badStart' => ~badStart /\ state # "open"
    BY <1>5, Zenon DEF End
  <2> QED  BY <1>0, <2>1 DEF HasHeader
<1>6. CASE UNCHANGED vars
  BY <1>0, <1>6 DEF vars, HasHeader
<1> QED  BY <1>1, <1>2, <1>3, <1>4, <1>5, <1>6 DEF Next, Over

\* No header is in the middle of the file, and only a run that ended or failed
\* to write between the creation of the file and its header leaves it without.
THEOREM OneHeader == Spec => []HeaderOnce
<1>1. Init => HeaderInv
  BY TypeInit DEF Init, HeaderInv
<1>2. HeaderInv => HeaderOnce
  BY DEF HeaderInv, HasHeader, HeaderOnce, TypeInv, Created
<1> QED  BY <1>1, <1>2, HeaderStep, PTL DEF Spec

-----------------------------------------------------------------------------
(* Acknowledged rows *)

LastWhole == file # <<>> /\ file[Len(file)].whole

\* The latest row of a run whose writers have no error ends its line.
AckInv ==
  /\ TypeInv
  /\ AckedIsReadable
  /\ state \in {"stat", "open"} => given = 0
  /\ state = "up" /\ ~failed /\ given > 0 => LastWhole

LEMMA AckStep == AckInv /\ [Next]_vars => AckInv'
<1> SUFFICES ASSUME AckInv, [Next]_vars PROVE AckInv'
  OBVIOUS
<1>0. TypeInv /\ TypeInv'
  BY TypeStep DEF AckInv
<1> USE DEF AckInv
<1>a. ASSUME file' = file \/ \E l \in Lines : file' = Append(file, l)
      PROVE  \A l \in acked : \E i \in DOMAIN file' :
               file'[i] = l /\ (i = 1 \/ file'[i - 1].whole \/ l.n = 1)
  <2> TAKE l \in acked
  <2>1. PICK i \in DOMAIN file :
          file[i] = l /\ (i = 1 \/ file[i - 1].whole \/ l.n = 1)
    BY DEF AckedIsReadable
  <2>2. /\ i \in DOMAIN file' /\ file'[i] = file[i]
        /\ i # 1 => file'[i - 1] = file[i - 1]
    <3>1. file \in Seq(Lines) /\ DOMAIN file = 1 .. Len(file) /\ Len(file) \in Nat
      BY <1>0 DEF TypeInv, Shapes
    <3>2. CASE file' = file
      BY <2>1, <3>2
    <3>3. ASSUME NEW k \in Lines, file' = Append(file, k)
          PROVE  /\ i \in DOMAIN file' /\ file'[i] = file[i]
                 /\ i # 1 => file'[i - 1] = file[i - 1]
      <4>1. i # 1 => i - 1 \in 1 .. Len(file)
        BY <3>1
      <4> QED  BY <3>1, <3>3, <4>1, Appended
    <3> QED  BY <1>a, <3>2, <3>3
  <2> QED  BY <2>1, <2>2
<1>1. CASE Stat \/ Open \/ End
  <2>1. UNCHANGED <<file, acked>>
    BY <1>1 DEF Stat, Open, End
  <2>2. AckedIsReadable'
    BY <1>a, <2>1 DEF AckedIsReadable
  <2>3. /\ state' \in {"stat", "open"} => given' = 0
        /\ state' = "up" => given' = 0
    BY <1>1 DEF Stat, Open, End
  <2> QED  BY <1>0, <2>2, <2>3
<1>2. ASSUME NEW ok \in BOOLEAN, WriteHeader(ok) PROVE AckInv'
  <2>1. /\ Header \in 0 .. MaxRows /\ acked' = acked /\ given' = given
        /\ state = "open" /\ Flush(Line(Header), ok)
    BY <1>2, EncoderAssumption DEF WriteHeader, Header
  <2>2. file' = file \/ \E l \in Lines : file' = Append(file, l)
    BY <1>0, <2>1, FileType DEF TypeInv
  <2>3. AckedIsReadable'
    BY <1>a, <2>1, <2>2 DEF AckedIsReadable
  <2>4. state' = "up" /\ given = 0
    BY <1>2, <2>1 DEF WriteHeader
  <2> QED  BY <1>0, <2>1, <2>3, <2>4
<1>3. ASSUME NEW ok \in BOOLEAN, Write(ok) PROVE AckInv'
  <2>1. /\ given' = given + 1 /\ given \in Nat /\ given' \in 0 .. MaxRows
        /\ state = "up" /\ Flush(Line(given'), ok)
    BY <1>0, <1>3 DEF Write, TypeInv, Shapes
  <2>2. file' = file \/ \E l \in Lines : file' = Append(file, l)
    BY <1>0, <2>1, FileType DEF TypeInv
  <2>3. \A l \in acked : \E i \in DOMAIN file' :
          file'[i] = l /\ (i = 1 \/ file'[i - 1].whole \/ l.n = 1)
    BY <1>a, <2>2
  <2>4. /\ ok \/ ~failed' => file' = Append(file, Line(given'))
        /\ ok \/ ~failed' => ~failed
    BY <2>1, FlushGrows, Zenon DEF Grown
  <2>0. Shapes /\ state # "down" /\ given' \in 0 .. MaxRows
    BY <1>0, <2>1 DEF TypeInv
  <2>5. /\ Line(given') \in Lines /\ Line(given').whole = TRUE
        /\ file \in Seq(Lines) /\ Len(file) \in Nat
    <3>1. \A n \in 0 .. MaxRows : Line(n) \in Lines /\ Line(n).whole = TRUE
      BY <2>0, LineType
    <3>2. file \in Seq(Lines) /\ Len(file) \in Nat
      BY <2>0 DEF Shapes
    <3> QED  BY <2>0, <3>1, <3>2
  <2>6. ASSUME ok
        PROVE  \E i \in DOMAIN file' :
                 /\ file'[i] = Line(given')
                 /\ i = 1 \/ file'[i - 1].whole \/ Line(given').n = 1
    <3>1. file' = Append(file, Line(given')) /\ ~failed
      BY <2>4, <2>6
    <3>2. Len(file) + 1 \in DOMAIN file' /\ file'[Len(file) + 1] = Line(given')
      BY <2>5, <3>1, Appended
    <3>3. CASE given = 0
      BY <2>1, <3>2, <3>3 DEF Line
    <3>4. CASE given > 0
      <4>1. LastWhole
        BY <2>1, <3>1, <3>4
      <4>2. file'[Len(file)].whole
        BY <2>5, <3>1, <4>1, Appended DEF LastWhole
      <4>3. (Len(file) + 1) - 1 = Len(file)
        BY <2>5
      <4> QED  BY <3>2, <4>2, <4>3
    <3> QED  BY <2>1, <3>3, <3>4
  <2>7. acked' \subseteq acked \cup {Line(given')} /\ (~ok => acked' = acked)
    BY <1>3, Zenon DEF Write
  <2>8. AckedIsReadable'
    BY <2>3, <2>6, <2>7 DEF AckedIsReadable
  <2>9. ~failed' => LastWhole'
    BY <2>4, <2>5, Appended DEF LastWhole
  <2>10. state' = "up"
    BY <1>3 DEF Write
  <2> QED  BY <1>0, <2>8, <2>9, <2>10
<1>4. CASE UNCHANGED vars
  BY <1>0, <1>4 DEF vars, AckedIsReadable, LastWhole
<1> QED  BY <1>1, <1>2, <1>3, <1>4 DEF Next, Over

\* A vector whose Write returned no error has a whole line of its own, unless it
\* was the first of its run and continues a line an earlier run was cut in.
THEOREM AcknowledgedRows == Spec => []AckedIsReadable
<1>1. Init => AckInv
  BY TypeInit DEF Init, AckInv, AckedIsReadable
<1>2. AckInv => AckedIsReadable
  BY DEF AckInv
<1> QED  BY <1>1, <1>2, AckStep, PTL DEF Spec
==============================================================================
