---------------------------- MODULE OvlLoadProofs ----------------------------
(***************************************************************************)
(* The loader reads an overlay right, whatever its sections and its table, *)
(* and whatever files are named beside it: the object made of it holds     *)
(* what the layout of the file says, so no loop over it leaves the file,   *)
(* and what is printed is every row of every file, in order.               *)
(***************************************************************************)
EXTENDS OvlLoadProperties, SequenceTheorems, WellFoundedInduction, TLAPS

(* Where the file in turn is open. *)
Active == {"header", "relocs", "sections", "print", "free"}

Objects == [start : Nat, sizes : [SectionIds -> Nat], relocation_count : Nat,
            relocations : Seq(Nat), addr : [SectionIds -> Nat], total : Nat]

HeaderRead(ws) ==
    /\ ovl \in Objects
    /\ ovl.start = HeaderOf(ws)
    /\ ovl.sizes = [s \in SectionIds |-> SizeOf(ws, s)]
    /\ ovl.relocation_count = CountOf(ws)

SectionsRead(ws, upto) ==
    \A s \in SectionIds : s < upto => ovl.addr[s] = StartOf(ws, s)

(* What the object holds of an overlay at each place. *)
Holds(ws) ==
    /\ at \in {"relocs", "sections", "print"} => HeaderRead(ws)
    /\ at = "relocs" =>
          /\ n \in Nat /\ n <= CountOf(ws)
          /\ ovl.relocations = SubSeq(TableOf(ws), 1, n)
          /\ ovl.addr = NoOvl.addr /\ ovl.total = 0
    /\ at \in {"sections", "print"} => ovl.relocations = TableOf(ws)
    /\ at = "sections" =>
          /\ sec \in 0 .. 4 /\ SectionsRead(ws, sec)
          /\ sec <= BSS => ovl.total = StartOf(ws, sec)
    /\ at = "print" =>
          /\ sec \in 0 .. 4 /\ SectionsRead(ws, 4)
          /\ n \in Nat /\ (mode # "relocations" => n % 4 = 0)

(* Which file is in turn, and what is allocated for it and the ones before it. *)
Turn ==
    /\ disk \in Disks
    /\ which \in 1 .. (Len(disk) + 1)
    /\ at \in Places
    /\ at \in Active \cup {"open"} => which <= Len(disk) /\ outcome = "running"
    /\ at \in Active => disk[which].exists
    /\ heap \subseteq ((1 .. (which - 1)) \X {"sections"}) \cup ({which} \X Uses)
    /\ at \in {"open", "exit"} /\ outcome # "failure" =>
          heap \subseteq (1 .. (which - 1)) \X {"sections"}

LoadInvariant ==
    /\ Turn
    /\ which <= Len(disk) /\ Overlay(disk[which]) => at # "undefined" /\ Holds(words)

-----------------------------------------------------------------------------
(* Quotient and remainder, as everything below uses them. *)
LEMMA DivMod ==
    ASSUME NEW a \in Nat, NEW d \in Nat \ {0}
    PROVE  /\ a \div d \in Nat
           /\ a % d \in 0 .. (d - 1)
           /\ a = d * (a \div d) + (a % d)
  OBVIOUS

LEMMA MulMono ==
    ASSUME NEW a \in Nat, NEW b \in Nat, NEW d \in Nat, a <= b
    PROVE  d * a <= d * b
  OBVIOUS

(* A sum that does not reach the modulus has not wrapped. *)
LEMMA SmallMod ==
    ASSUME NEW a \in Nat, NEW d \in Nat \ {0}, a < d
    PROVE  a % d = a
<1> DEFINE q == a \div d
<1>1. q \in Nat /\ a % d \in 0 .. (d - 1) /\ a = d * q + (a % d)
  BY DivMod
<1> HIDE DEF q
<1>2. CASE q = 0
  BY <1>1, <1>2
<1>3. CASE q >= 1
  <2>1. d * 1 <= d * q
    BY <1>1, <1>3, MulMono
  <2> QED BY <1>1, <2>1
<1> QED BY <1>1, <1>2, <1>3

LEMMA Spans ==
    /\ Word \in Nat \ {0}
    /\ JumpSpan \in Nat \ {0}
    /\ Half * RegCount \in Nat \ {0}
    /\ Half <= Word
    /\ 0 \in Words
<1>1. Half \in Nat \ {0} /\ RegCount \in Nat \ {0}
  BY WordLayout
<1>2. Half * Half \in Nat \ {0} /\ Half <= Half * Half
  BY <1>1
<1>3. Half * RegCount \in Nat \ {0}
  BY <1>1
<1>4. Half * RegCount * RegCount \in Nat \ {0}
  BY <1>1, <1>3
<1> QED BY <1>2, <1>3, <1>4 DEF Word, JumpSpan, Words

LEMMA HalfWord ==
    /\ Word \div 2 \in Nat
    /\ Word \div 2 <= Word
<1>1. Word \in Nat \ {0}
  BY Spans
<1>2. Word \div 2 \in Nat /\ Word = 2 * (Word \div 2) + (Word % 2) /\ Word % 2 \in 0 .. 1
  BY <1>1, DivMod
<1> QED BY <1>2

LEMMA SmallSigned ==
    ASSUME NEW w \in Nat, w < Word \div 2
    PROVE  Signed(w) = w
  BY HalfWord DEF Signed

LEMMA SmallSum ==
    ASSUME NEW w \in Nat, w < Word \div 2
    PROVE  w % Word = w
<1>1. Word \in Nat \ {0} /\ w < Word
  BY HalfWord, Spans
<1> QED BY <1>1, SmallMod

(* Words lie at multiples of 4. *)
LEMMA FourTimes ==
    ASSUME NEW k \in Nat
    PROVE  (4 * k) % 4 = 0
<1>1. /\ (4 * k) \div 4 \in Nat /\ (4 * k) % 4 \in 0 .. 3
      /\ 4 * k = 4 * ((4 * k) \div 4) + ((4 * k) % 4)
  BY DivMod
<1> QED BY <1>1

LEMMA Multiples ==
    ASSUME NEW a \in Nat, NEW b \in Nat, a % 4 = 0, b % 4 = 0
    PROVE  /\ (a + b) % 4 = 0
           /\ b <= a => (a - b) % 4 = 0
           /\ a < b => a + 4 <= b
<1> DEFINE j == a \div 4
           k == b \div 4
<1>1. j \in Nat /\ a = 4 * j /\ k \in Nat /\ b = 4 * k
  BY DivMod
<1> HIDE DEF j, k
<1>2. a + b = 4 * (j + k) /\ (b <= a => a - b = 4 * (j - k) /\ j - k \in Nat)
  BY <1>1
<1>3. (4 * (j + k)) % 4 = 0 /\ (j - k \in Nat => (4 * (j - k)) % 4 = 0)
  BY <1>1, FourTimes
<1> QED BY <1>1, <1>2, <1>3

LEMMA WordIndex ==
    ASSUME NEW o \in Nat, NEW len \in Nat, o + 4 <= 4 * len
    PROVE  (o \div 4) + 1 \in 1 .. len
<1>1. o \div 4 \in Nat /\ o % 4 \in 0 .. 3 /\ o = 4 * (o \div 4) + (o % 4)
  BY DivMod
<1> QED BY <1>1

(* An overlay ends in a distance that leads to a header within it, and the table
   behind the header ends before that distance. *)
LEMMA HeaderFacts ==
    ASSUME NEW ws \in Seq(Nat), IsOverlay(ws)
    PROVE  /\ ws # <<>> /\ Len(ws) \in Nat \ {0}
           /\ 4 * Len(ws) < Word \div 2
           /\ Back(ws) \in Nat /\ Back(ws) % 4 = 0
           /\ HeaderOf(ws) \in Nat /\ HeaderOf(ws) % 4 = 0
           /\ CountOf(ws) \in Nat
           /\ HeaderOf(ws) + 24 + 4 * CountOf(ws) <= 4 * Len(ws)
<1>1. /\ ws # <<>> /\ Len(ws) \in Nat \ {0} /\ 4 * Len(ws) < Word \div 2
      /\ Back(ws) \in 24 .. (4 * Len(ws)) /\ Back(ws) % 4 = 0
  BY DEF IsOverlay, HasHeader, HeaderSize, FooterSize
<1>2. /\ HeaderOf(ws) \in Nat /\ HeaderOf(ws) + 24 <= 4 * Len(ws)
      /\ HeaderOf(ws) % 4 = 0
  <2>1. (4 * Len(ws)) % 4 = 0
    BY <1>1, FourTimes
  <2>2. 4 * Len(ws) \in Nat /\ Back(ws) \in Nat /\ Back(ws) <= 4 * Len(ws)
    BY <1>1
  <2>3. (4 * Len(ws) - Back(ws)) % 4 = 0
    BY <2>1, <2>2, <1>1, Multiples
  <2> QED BY <1>1, <2>3 DEF HeaderOf
<1>3. ((HeaderOf(ws) + 16) \div 4) + 1 \in 1 .. Len(ws)
  <2>1. HeaderOf(ws) + 16 \in Nat /\ HeaderOf(ws) + 16 + 4 <= 4 * Len(ws)
    BY <1>1, <1>2
  <2> QED BY <1>1, <2>1, WordIndex
<1>4. CountOf(ws) \in Nat
  BY <1>3 DEF CountOf, WordOf
<1>5. HeaderOf(ws) + 20 + 4 * CountOf(ws) + 4 <= 4 * Len(ws)
  BY DEF IsOverlay, HasTable, HeaderSize, FooterSize
<1> QED BY SMTT(30), <1>1, <1>2, <1>4, <1>5

(* Its sections fill it up to the header, one behind the other. *)
LEMMA SectionFacts ==
    ASSUME NEW ws \in Seq(Nat), IsOverlay(ws), NEW s \in SectionIds
    PROVE  /\ SizeOf(ws, s) \in Nat /\ SizeOf(ws, s) < Word \div 2
           /\ SizeOf(ws, s) % 4 = 0
           /\ StartOf(ws, s) \in Nat
           /\ s # BSS => StartOf(ws, s) + SizeOf(ws, s) <= HeaderOf(ws)
           /\ s # BSS => StartOf(ws, s + 1) = StartOf(ws, s) + SizeOf(ws, s)
<1> SizeOf(ws, s) \in 0 .. (Word \div 2 - 1) /\ SizeOf(ws, s) % 4 = 0
  BY DEF IsOverlay, HasSections
<1>1. SizeOf(ws, s) \in Nat /\ SizeOf(ws, s) < Word \div 2
  BY HalfWord
<1>2. \A q \in SectionIds : SizeOf(ws, q) \in Nat
  BY HalfWord DEF IsOverlay, HasSections
<1>3. SizeOf(ws, 0) \in Nat /\ SizeOf(ws, 1) \in Nat /\ SizeOf(ws, 2) \in Nat
  BY <1>2 DEF SectionIds
<1>4. SizeOf(ws, 0) + SizeOf(ws, 1) + SizeOf(ws, 2) = HeaderOf(ws)
  BY DEF IsOverlay, HasSections, TEXT, DATA, RODATA
<1>5. s \in {0, 1, 2, 3}
  BY DEF SectionIds
<1>6. /\ StartOf(ws, 0) = 0
      /\ StartOf(ws, 1) = SizeOf(ws, 0)
      /\ StartOf(ws, 2) = SizeOf(ws, 0) + SizeOf(ws, 1)
      /\ StartOf(ws, 3) = SizeOf(ws, 0) + SizeOf(ws, 1) + SizeOf(ws, 2)
  BY <1>3 DEF StartOf, TEXT, DATA, RODATA
<1> QED BY SMTT(30), <1>1, <1>3, <1>4, <1>5, <1>6 DEF BSS

LEMMA TableFacts ==
    ASSUME NEW ws \in Seq(Nat), IsOverlay(ws)
    PROVE  /\ TableOf(ws) \in Seq(Nat)
           /\ Len(TableOf(ws)) = CountOf(ws)
           /\ \A q \in 1 .. CountOf(ws) :
                 /\ TableOf(ws)[q] = WordOf(ws, HeaderOf(ws) + 16 + 4 * q)
                 /\ InSection(ws, TableOf(ws)[q])
<1>1. CountOf(ws) \in Nat
  BY HeaderFacts
<1>2. ASSUME NEW q \in 1 .. CountOf(ws)
      PROVE  WordOf(ws, HeaderOf(ws) + 16 + 4 * q) \in Nat
  <2>1. ((HeaderOf(ws) + 16 + 4 * q) \div 4) + 1 \in 1 .. Len(ws)
    <3>1. HeaderOf(ws) \in Nat /\ Len(ws) \in Nat /\ q \in Nat /\ q <= CountOf(ws)
      BY HeaderFacts, <1>1
    <3>2. HeaderOf(ws) + 24 + 4 * CountOf(ws) <= 4 * Len(ws)
      BY HeaderFacts
    <3> DEFINE o == HeaderOf(ws) + 16 + 4 * q
    <3>3. o \in Nat /\ o + 4 <= 4 * Len(ws)
      <4> DEFINE h == HeaderOf(ws)
                 c == CountOf(ws)
                 l == Len(ws)
      <4>1. h \in Nat /\ c \in Nat /\ l \in Nat /\ q <= c /\ h + 24 + 4 * c <= 4 * l
        BY <1>1, <3>1, <3>2
      <4> HIDE DEF h, c, l
      <4>2. h + 16 + 4 * q \in Nat /\ h + 16 + 4 * q + 4 <= 4 * l
        BY <3>1, <4>1
      <4> QED BY <4>2 DEF h, l
    <3> HIDE DEF o
    <3>4. (o \div 4) + 1 \in 1 .. Len(ws)
      BY <3>1, <3>3, WordIndex
    <3> QED BY <3>4 DEF o
  <2> QED BY <2>1 DEF WordOf
<1>3. TableOf(ws) \in [1 .. CountOf(ws) -> Nat]
  BY <1>2 DEF TableOf
<1>4. TableOf(ws) \in Seq(Nat) /\ Len(TableOf(ws)) = CountOf(ws)
  BY <1>1, <1>3
<1>5. ASSUME NEW q \in 1 .. CountOf(ws)
      PROVE  /\ TableOf(ws)[q] = WordOf(ws, HeaderOf(ws) + 16 + 4 * q)
             /\ InSection(ws, TableOf(ws)[q])
  <2>1. TableOf(ws)[q] = WordOf(ws, HeaderOf(ws) + 16 + 4 * q)
    BY DEF TableOf
  <2>2. InSection(ws, TableOf(ws)[q])
    BY DEF IsOverlay
  <2> QED BY <2>1, <2>2
<1> QED BY <1>4, <1>5

-----------------------------------------------------------------------------
(* The files are what the constants say. *)
LEMMA FileFacts ==
    ASSUME Turn
    PROVE  /\ disk \in Seq(Files) /\ Len(disk) \in Nat \ {0}
           /\ which \in Nat
           /\ which <= Len(disk) => words \in Seq(Nat)
<1>1. disk \in Seq(Files) /\ disk # <<>>
  BY Named DEF Turn
<1>2. Len(disk) \in Nat \ {0} /\ which \in 1 .. (Len(disk) + 1)
  BY <1>1 DEF Turn
<1>3. which <= Len(disk) => disk[which] \in Files
  BY <1>1, <1>2
<1> QED BY <1>1, <1>2, <1>3 DEF words, Files

(* Whose turn it is, and what is allocated, through every action. *)
LEMMA TurnStarts == Init => Turn
<1> SUFFICES ASSUME Init
             PROVE  Turn
  OBVIOUS
<1>1. disk \in Seq(Files) /\ disk # <<>>
  BY Named DEF Init
<1> QED BY <1>1 DEF Init, Start, Turn, Places, Active

LEMMA TurnKept ==
    ASSUME Turn, [Next]_vars
    PROVE  Turn'
<1>1. Len(disk) \in Nat \ {0} /\ which \in Nat
  BY FileFacts
<1>2. CASE CannotRead
  BY <1>1, <1>2 DEF CannotRead, Exit, Inputs, Turn, Places, Active
<1>3. CASE Read
  BY <1>1, <1>3 DEF Read, Inputs, Turn, Places, Active, Uses
<1>4. CASE Refuse
  BY <1>1, <1>4 DEF Refuse, Exit, Undefined, Inputs, Turn, Places, Active
<1>5. CASE GetHeader
  BY <1>1, <1>5 DEF GetHeader, Undefined, Inputs, Turn, Places, Active, Uses
<1>6. CASE CopyRelocation \/ CopyEnds
  BY <1>1, <1>6 DEF CopyRelocation, CopyEnds, Undefined, Inputs, Turn, Places, Active
<1>7. CASE MakeSection \/ Loaded
  BY <1>1, <1>7 DEF MakeSection, Loaded, Inputs, Turn, Places, Active, Uses
<1>8. CASE ListSection \/ ListRelocation
  BY <1>1, <1>8 DEF ListSection, ListRelocation, PrintFrame, Undefined, Inputs, Turn, Places, Active
<1>9. CASE DisassembleWord \/ DisassembleNext \/ PrintEnds
  BY <1>1, <1>9
     DEF DisassembleWord, DisassembleNext, PrintEnds, PrintFrame, Undefined, Inputs,
         Turn, Places, Active
<1>10. CASE Free
  <2>1. which' = which + 1 /\ disk' = disk /\ which <= Len(disk) /\ outcome = "running"
    BY <1>10 DEF Free, Inputs, Turn, Active
  <2>2. heap' \subseteq (1 .. which) \X {"sections"}
    <3> SUFFICES ASSUME NEW a \in heap'
                 PROVE  a \in (1 .. which) \X {"sections"}
      OBVIOUS
    <3>1. a \in heap /\ a \notin {which} \X Freed
      BY <1>10 DEF Free
    <3>2. CASE a \in (1 .. (which - 1)) \X {"sections"}
      BY <3>2, <1>1
    <3>3. CASE a \in {which} \X Uses
      BY <3>1, <3>3, <1>1, <2>1 DEF Freed, Uses, Turn
    <3> QED BY <3>1, <3>2, <3>3 DEF Turn
  <2>3. \/ at' = "open" /\ outcome' = "running" /\ which < Len(disk)
        \/ at' = "exit" /\ outcome' = "ok"
    BY <1>10, <2>1 DEF Free, Exit
  <2> QED BY <1>1, <2>1, <2>2, <2>3 DEF Turn, Places, Active
<1>11. CASE Ended \/ UNCHANGED vars
  BY <1>11 DEF Ended, vars, Turn
<1> QED BY <1>2, <1>3, <1>4, <1>5, <1>6, <1>7, <1>8, <1>9, <1>10, <1>11 DEF Next

(* Before the next file is opened, all of the ones before it is freed but the
   arrays of section pointers, for every list of files (overlay.c:214-228). *)
THEOREM Freeing == Spec => []FreedInTurn
<1>1. Turn => FreedInTurn
  BY DEF Turn, FreedInTurn
<1> QED BY <1>1, TurnStarts, TurnKept, PTL DEF Spec

-----------------------------------------------------------------------------
(***************************************************************************)
(* The object made of an overlay, one action after the other.              *)
(***************************************************************************)
LEMMA HeaderBelow ==
    ASSUME NEW ws \in Seq(Nat), IsOverlay(ws)
    PROVE  HeaderOf(ws) \in Nat /\ HeaderOf(ws) < Word \div 2
<1> DEFINE h == HeaderOf(ws)
           c == CountOf(ws)
           l == Len(ws)
<1>1. h \in Nat /\ c \in Nat /\ l \in Nat /\ h + 24 + 4 * c <= 4 * l /\ 4 * l < Word \div 2
  BY HeaderFacts
<1> HIDE DEF h, c, l
<1>2. h \in Nat /\ h < Word \div 2
  BY <1>1, HalfWord
<1> QED BY <1>2 DEF h

LEMMA OffsetRead ==
    ASSUME NEW ws \in Seq(Nat), IsOverlay(ws), words = ws
    PROVE  /\ Offset = Back(ws) /\ HeaderAt = HeaderOf(ws)
           /\ ~NotAnOverlay
           /\ filesize = 4 * Len(ws) /\ filesize < Word \div 2
<1>1. /\ Len(ws) \in Nat /\ 4 * Len(ws) < Word \div 2 /\ Back(ws) \in Nat
      /\ Back(ws) % 4 = 0 /\ HeaderOf(ws) \in Nat
  BY HeaderFacts
<1>2. filesize = 4 * Len(ws)
  BY DEF filesize
<1>3. Back(ws) <= 4 * Len(ws)
  BY <1>1 DEF HeaderOf
<1>4. Offset = Back(ws)
  BY <1>1, <1>3, HalfWord, SmallSigned DEF Offset, Back
<1>5. HeaderAt = HeaderOf(ws)
  BY <1>2, <1>4 DEF HeaderAt, HeaderOf
<1> QED BY <1>1, <1>2, <1>3, <1>4, <1>5 DEF NotAnOverlay

LEMMA HeaderInside ==
    ASSUME NEW ws \in Seq(Nat), IsOverlay(ws), words = ws
    PROVE  HeaderOf(ws) <= filesize /\ filesize \in Nat
<1>1. Back(ws) \in Nat /\ Len(ws) \in Nat
  BY HeaderFacts
<1>2. filesize = 4 * Len(ws)
  BY OffsetRead
<1>3. 4 * Len(ws) - Back(ws) <= 4 * Len(ws) /\ 4 * Len(ws) \in Nat
  BY <1>1
<1> QED BY <1>2, <1>3 DEF HeaderOf

LEMMA HeaderKept ==
    ASSUME NEW ws \in Seq(Nat), IsOverlay(ws), words = ws, GetHeader
    PROVE  at' # "undefined" /\ Holds(ws)'
<1>1. /\ HeaderAt = HeaderOf(ws) /\ filesize = 4 * Len(ws)
  BY OffsetRead
<1>2. /\ HeaderOf(ws) \in Nat /\ HeaderOf(ws) % 4 = 0 /\ CountOf(ws) \in Nat
      /\ Len(ws) \in Nat /\ HeaderOf(ws) + 24 + 4 * CountOf(ws) <= 4 * Len(ws)
      /\ 4 * Len(ws) < Word \div 2 /\ ws # <<>>
  BY HeaderFacts
<1>3. Inside(HeaderAt) /\ Inside(HeaderAt + HeaderSize - 4)
  BY SMTT(30), <1>1, <1>2 DEF Inside, HeaderSize
<1>4. /\ at' = "relocs" /\ n' = 0
      /\ ovl' = [NoOvl EXCEPT
                    !.start = HeaderAt,
                    !.sizes = [s \in SectionIds |-> Data(HeaderAt + 4 * s)],
                    !.relocation_count = Signed(Data(HeaderAt + 16))]
  BY <1>2, <1>3 DEF GetHeader
<1>5. \A s \in SectionIds : Data(HeaderAt + 4 * s) = SizeOf(ws, s)
  <2> SUFFICES ASSUME NEW s \in SectionIds
               PROVE  Data(HeaderAt + 4 * s) = SizeOf(ws, s)
    OBVIOUS
  <2>1. s \in Nat
    BY DEF SectionIds
  <2>2. 4 * s \in Nat /\ (4 * s) % 4 = 0
    BY <2>1, FourTimes
  <2>3. (HeaderAt + 4 * s) % 4 = 0
    BY <1>1, <1>2, <2>2, Multiples
  <2> QED BY <1>1, <2>3 DEF Data, SizeOf, WordOf
<1>6. Signed(Data(HeaderAt + 16)) = CountOf(ws)
  <2>1. (HeaderAt + 16) % 4 = 0
    BY <1>1, <1>2, FourTimes, Multiples
  <2>2. Data(HeaderAt + 16) = CountOf(ws)
    BY <1>1, <2>1 DEF Data, CountOf, WordOf
  <2>3. CountOf(ws) < Word \div 2
    <3> DEFINE h == HeaderOf(ws)
               c == CountOf(ws)
               l == Len(ws)
    <3>1. h \in Nat /\ c \in Nat /\ l \in Nat /\ h + 24 + 4 * c <= 4 * l /\ 4 * l < Word \div 2
      BY <1>2
    <3> HIDE DEF h, c, l
    <3>2. c < Word \div 2
      BY <3>1, HalfWord
    <3> QED BY <3>2 DEF c
  <2> QED BY <1>2, <2>2, <2>3, SmallSigned
<1>7. /\ HeaderRead(ws)' /\ ovl'.relocations = <<>>
      /\ ovl'.addr = NoOvl.addr /\ ovl'.total = 0
  <2>1. [s \in SectionIds |-> SizeOf(ws, s)] \in [SectionIds -> Nat]
    BY SectionFacts
  <2>2. ovl' = [start |-> HeaderOf(ws), sizes |-> [s \in SectionIds |-> SizeOf(ws, s)],
                relocation_count |-> CountOf(ws), relocations |-> <<>>,
                addr |-> NoOvl.addr, total |-> 0]
    BY <1>1, <1>4, <1>5, <1>6 DEF NoOvl
  <2>3. NoOvl.addr \in [SectionIds -> Nat]
    BY DEF NoOvl
  <2> QED BY <1>2, <2>1, <2>2, <2>3 DEF HeaderRead, Objects
<1>8. SubSeq(TableOf(ws), 1, 0) = <<>>
  BY TableFacts
<1>9. /\ n' \in Nat /\ n' <= CountOf(ws)
      /\ ovl'.relocations = SubSeq(TableOf(ws), 1, n')
  <2>1. n' = 0 /\ CountOf(ws) \in Nat
    BY <1>2, <1>4
  <2>2. n' \in Nat /\ n' <= CountOf(ws)
    BY <2>1
  <2>3. SubSeq(TableOf(ws), 1, n') = <<>>
    BY <2>1, <1>8, Zenon
  <2> QED BY <2>2, <2>3, <1>7, Zenon
<1>10. at' \notin {"sections", "print"} /\ at' # "undefined"
  BY <1>4
<1> QED BY <1>7, <1>9, <1>10 DEF Holds

LEMMA TableRead ==
    ASSUME NEW ws \in Seq(Nat), IsOverlay(ws), words = ws, Holds(ws), at = "relocs",
           n < CountOf(ws)
    PROVE  Inside(TableAt(n)) /\ Data(TableAt(n)) = TableOf(ws)[n + 1]
<1> DEFINE h == HeaderOf(ws)
           c == CountOf(ws)
           l == Len(ws)
<1>1. h \in Nat /\ h % 4 = 0 /\ c \in Nat /\ l \in Nat /\ h + 24 + 4 * c <= 4 * l
  BY HeaderFacts
<1>2. n \in Nat /\ n < c /\ ovl.start = h /\ filesize = 4 * l
  BY OffsetRead DEF Holds, HeaderRead
<1>3. TableOf(ws)[n + 1] = WordOf(ws, h + 16 + 4 * (n + 1))
  <2>1. n + 1 \in 1 .. CountOf(ws)
    BY <1>1, <1>2
  <2> QED BY <2>1, TableFacts
<1> HIDE DEF h, c, l
<1>4. TableAt(n) = h + 4 * (n + 5) /\ h + 16 + 4 * (n + 1) = h + 4 * (n + 5)
  BY <1>1, <1>2 DEF TableAt, HeaderSize
<1>5. (4 * (n + 5)) % 4 = 0 /\ 4 * (n + 5) \in Nat
  BY <1>2, FourTimes
<1>6. TableAt(n) % 4 = 0
  <2> DEFINE x == 4 * (n + 5)
  <2>1. x \in Nat /\ x % 4 = 0 /\ TableAt(n) = h + x
    BY <1>4, <1>5
  <2> HIDE DEF x
  <2>2. h \in Nat /\ h % 4 = 0
    BY <1>1
  <2>3. (h + x) % 4 = 0
    BY <2>1, <2>2, Multiples
  <2> QED BY <2>1, <2>3
<1>7. Inside(TableAt(n))
  BY <1>1, <1>2, <1>4 DEF Inside
<1> QED BY <1>3, <1>4, <1>6, <1>7 DEF Data, WordOf

LEMMA RelocsKept ==
    ASSUME NEW ws \in Seq(Nat), IsOverlay(ws), words = ws, Holds(ws),
           CopyRelocation \/ CopyEnds
    PROVE  at' # "undefined" /\ Holds(ws)'
<1> DEFINE T == TableOf(ws)
<1>1. CountOf(ws) \in Nat /\ T \in Seq(Nat) /\ Len(T) = CountOf(ws)
  BY HeaderFacts, TableFacts
<1>2. /\ at = "relocs" /\ HeaderRead(ws) /\ n \in Nat /\ n <= CountOf(ws)
      /\ ovl.relocations = SubSeq(T, 1, n)
      /\ ovl.addr = NoOvl.addr /\ ovl.total = 0
  BY DEF Holds, CopyRelocation, CopyEnds
<1>3. ovl.relocation_count = CountOf(ws)
  BY <1>2 DEF HeaderRead
<1>4. CASE CopyRelocation
  <2>1. n < CountOf(ws)
    BY <1>3, <1>4 DEF CopyRelocation
  <2>2. Inside(TableAt(n)) /\ Data(TableAt(n)) = T[n + 1]
    BY <1>2, <2>1, TableRead
  <2>3. /\ ovl' = [ovl EXCEPT !.relocations = Append(@, T[n + 1])]
        /\ n' = n + 1 /\ at' = at
    BY <1>4, <2>2 DEF CopyRelocation
  <2> HIDE DEF T
  <2>4. Append(SubSeq(T, 1, n), T[n + 1]) = SubSeq(T, 1, n + 1)
    BY <1>1, <1>2, <2>1
  <2>5. T[n + 1] \in Nat
    BY <1>1, <1>2, <2>1
  <2>6. /\ HeaderRead(ws)' /\ ovl'.relocations = Append(ovl.relocations, T[n + 1])
        /\ ovl'.addr = NoOvl.addr /\ ovl'.total = 0
    <3> DEFINE more == Append(ovl.relocations, T[n + 1])
    <3>1. ovl \in Objects /\ more \in Seq(Nat)
      BY SMTT(30), <1>2, <2>5 DEF HeaderRead, Objects
    <3>2. ovl' = [ovl EXCEPT !.relocations = more]
      BY <2>3
    <3> HIDE DEF more
    <3>3. /\ ovl' \in Objects /\ ovl'.relocations = more
          /\ ovl'.start = ovl.start /\ ovl'.sizes = ovl.sizes
          /\ ovl'.relocation_count = ovl.relocation_count
          /\ ovl'.addr = ovl.addr /\ ovl'.total = ovl.total
      BY <3>1, <3>2 DEF Objects
    <3> QED BY <1>2, <3>3 DEF HeaderRead, more
  <2>7. ovl'.relocations = SubSeq(T, 1, n')
    BY <1>2, <2>3, <2>4, <2>6
  <2>8. n' \in Nat /\ n' <= CountOf(ws)
    BY <1>1, <1>2, <2>1, <2>3
  <2> QED BY <1>2, <2>3, <2>6, <2>7, <2>8 DEF Holds, T
<1>5. CASE CopyEnds
  <2>1. n = CountOf(ws)
    BY <1>1, <1>2, <1>3, <1>5 DEF CopyEnds
  <2>2. at' = "sections" /\ sec' = 0 /\ ovl' = ovl
    BY <1>5 DEF CopyEnds
  <2> HIDE DEF T
  <2>3. SubSeq(T, 1, Len(T)) = T
    BY <1>1
  <2>4. ovl.relocations = T
    BY <1>1, <1>2, <2>1, <2>3
  <2>5. SectionsRead(ws, 0)'
    BY <1>2, <2>2 DEF SectionsRead, NoOvl, SectionIds
  <2>6. StartOf(ws, 0) = 0
    BY DEF StartOf, TEXT, DATA, RODATA
  <2> QED BY <1>2, <2>2, <2>4, <2>5, <2>6 DEF Holds, HeaderRead, T
<1> QED BY <1>4, <1>5

LEMMA SectionsKept ==
    ASSUME NEW ws \in Seq(Nat), IsOverlay(ws), words = ws, Holds(ws),
           MakeSection \/ Loaded
    PROVE  at' # "undefined" /\ Holds(ws)'
<1>1. /\ at = "sections" /\ HeaderRead(ws) /\ ovl.relocations = TableOf(ws)
      /\ sec \in 0 .. 4 /\ SectionsRead(ws, sec)
      /\ sec <= BSS => ovl.total = StartOf(ws, sec)
  BY DEF Holds, MakeSection, Loaded
<1>2. CASE MakeSection
  <2>1. /\ sec \in SectionIds /\ at' = at /\ sec' = sec + 1
        /\ ovl' = [ovl EXCEPT !.addr[sec] = ovl.total, !.total = NextTotal(sec)]
    BY <1>2 DEF MakeSection
  <2>2. ovl.total = StartOf(ws, sec) /\ ovl.total \in Nat
    <3>1. sec <= BSS
      BY <2>1 DEF SectionIds, BSS
    <3> QED BY <1>1, <3>1 DEF HeaderRead, Objects
  <2>3. ovl.sizes[sec] = SizeOf(ws, sec)
    BY <1>1, <2>1 DEF HeaderRead
  <2>4. ovl.addr \in [SectionIds -> Nat] /\ NextTotal(sec) \in Nat
    <3>1. ovl.addr \in [SectionIds -> Nat] /\ ovl.sizes[sec] \in Nat
      BY <1>1, <2>1 DEF HeaderRead, Objects
    <3>2. ovl.total + ovl.sizes[sec] \in Nat /\ Word \in Nat \ {0}
      BY <2>2, <3>1, Spans
    <3>3. (ovl.total + ovl.sizes[sec]) % Word \in Nat
      BY <3>2, DivMod
    <3> QED BY <3>1, <3>3 DEF NextTotal
  <2>5. /\ ovl'.addr = [ovl.addr EXCEPT ![sec] = ovl.total]
        /\ ovl'.total = NextTotal(sec)
        /\ ovl'.relocations = TableOf(ws)
        /\ HeaderRead(ws)'
    BY <1>1, <2>1, <2>2, <2>4 DEF HeaderRead, Objects
  <2>6. \A s \in SectionIds : s < sec + 1 => ovl'.addr[s] = StartOf(ws, s)
    BY <1>1, <2>1, <2>2, <2>4, <2>5 DEF SectionsRead, SectionIds
  <2>7. sec # BSS => ovl'.total = StartOf(ws, sec + 1)
    <3> SUFFICES ASSUME sec # BSS
                 PROVE  NextTotal(sec) = StartOf(ws, sec + 1)
      BY <2>5
    <3>1. /\ StartOf(ws, sec + 1) = StartOf(ws, sec) + SizeOf(ws, sec)
          /\ StartOf(ws, sec) + SizeOf(ws, sec) <= HeaderOf(ws)
          /\ StartOf(ws, sec) \in Nat /\ SizeOf(ws, sec) \in Nat
      BY <2>1, SectionFacts
    <3>2. HeaderOf(ws) \in Nat /\ HeaderOf(ws) < Word \div 2
      BY HeaderBelow
    <3>3. StartOf(ws, sec) + SizeOf(ws, sec) \in Nat
      BY <3>1
    <3>4. StartOf(ws, sec) + SizeOf(ws, sec) < Word \div 2
      BY <3>1, <3>2, HalfWord
    <3>5. (StartOf(ws, sec) + SizeOf(ws, sec)) % Word = StartOf(ws, sec) + SizeOf(ws, sec)
      BY <3>3, <3>4, SmallSum
    <3> QED BY <2>2, <2>3, <3>1, <3>5 DEF NextTotal
  <2>8. sec' \in 0 .. 4 /\ SectionsRead(ws, sec)' /\ (sec' <= BSS => sec # BSS)
    BY <1>1, <2>1, <2>6 DEF SectionIds, BSS, SectionsRead
  <2>9. sec' <= BSS => ovl'.total = StartOf(ws, sec')
    BY <2>1, <2>7, <2>8
  <2> QED BY <1>1, <2>1, <2>5, <2>8, <2>9 DEF Holds
<1>3. CASE Loaded
  <2>1. sec = 4 /\ at' = "print" /\ sec' = 0 /\ n' = 0 /\ ovl' = ovl
    BY <1>1, <1>3 DEF Loaded, SectionIds
  <2>2. SectionsRead(ws, 4)' /\ HeaderRead(ws)'
    BY <1>1, <2>1 DEF SectionsRead, HeaderRead
  <2>3. n' \in Nat /\ n' % 4 = 0
    BY <2>1
  <2> QED BY <1>1, <2>1, <2>2, <2>3 DEF Holds
<1> QED BY <1>2, <1>3

(* A relocation of the table is inside a section, and so inside the file. *)
LEMMA RelocationInside ==
    ASSUME NEW ws \in Seq(Nat), IsOverlay(ws), words = ws, Holds(ws), at = "print",
           NEW r \in Nat, InSection(ws, r)
    PROVE  /\ OVL_RELOC_GET_SEC(r) \in SectionIds
           /\ OVL_RELOC_GET_TYPE(r) < TypeNames
           /\ Inside(AbsAddr(r))
           /\ AbsAddr(r) \in Nat
           /\ AbsAddr(r) = StartOf(ws, OVL_RELOC_GET_SEC(r)) + OVL_RELOC_GET_ADDR(r)
<1> DEFINE q == OVL_RELOC_GET_SEC(r)
           o == OVL_RELOC_GET_ADDR(r)
<1>1. /\ q \in {TEXT, DATA, RODATA} /\ OVL_RELOC_GET_TYPE(r) < TypeNames
      /\ o + 4 <= SizeOf(ws, q)
  BY DEF InSection
<1>2. o \in Nat
  BY FormatSizes, DivMod DEF OVL_RELOC_GET_ADDR
<1> HIDE DEF q, o
<1>3. q \in SectionIds /\ q # BSS
  BY <1>1 DEF SectionIds, TEXT, DATA, RODATA, BSS
<1>4. ovl.addr[q] = StartOf(ws, q)
  BY <1>3 DEF Holds, SectionsRead, SectionIds
<1>5. /\ StartOf(ws, q) \in Nat /\ SizeOf(ws, q) \in Nat
      /\ StartOf(ws, q) + SizeOf(ws, q) <= HeaderOf(ws)
  BY <1>3, SectionFacts
<1>6. HeaderOf(ws) \in Nat /\ HeaderOf(ws) < Word \div 2 /\ HeaderOf(ws) <= filesize
  BY HeaderBelow, HeaderInside
<1> DEFINE a == StartOf(ws, q) + o
<1>7. a \in Nat /\ a + 4 <= HeaderOf(ws)
  BY <1>1, <1>2, <1>5, <1>6
<1> HIDE DEF a
<1>8. a < Word \div 2
  BY <1>6, <1>7, HalfWord
<1>9. Signed(a % Word) = a
  BY <1>7, <1>8, SmallSum, SmallSigned
<1>10. AbsAddr(r) = a
  BY <1>4, <1>9 DEF AbsAddr, a, q, o
<1>11. filesize \in Nat
  BY HeaderInside
<1>12. Inside(AbsAddr(r))
  BY <1>6, <1>7, <1>10, <1>11 DEF Inside
<1> QED BY <1>1, <1>3, <1>7, <1>10, <1>12 DEF q, a, o

LEMMA WordInside ==
    ASSUME NEW ws \in Seq(Nat), IsOverlay(ws), words = ws, Holds(ws), DisassembleWord
    PROVE  Inside(ovl.addr[sec] + n) /\ (n + 4) % 4 = 0 /\ n + 4 \in Nat
<1>1. at = "print" /\ sec \in Shown /\ n < Signed(ovl.sizes[sec])
  BY DEF DisassembleWord
<1>2. sec \in SectionIds /\ sec # BSS /\ mode # "relocations"
  BY <1>1 DEF Shown, SectionIds, TEXT, DATA, RODATA, BSS
<1>3. n \in Nat /\ n % 4 = 0
  BY <1>1, <1>2 DEF Holds
<1>4. ovl.addr[sec] = StartOf(ws, sec) /\ ovl.sizes[sec] = SizeOf(ws, sec)
  BY <1>1, <1>2 DEF Holds, SectionsRead, HeaderRead, SectionIds
<1>5. /\ StartOf(ws, sec) \in Nat /\ SizeOf(ws, sec) \in Nat
      /\ SizeOf(ws, sec) % 4 = 0 /\ SizeOf(ws, sec) < Word \div 2
      /\ StartOf(ws, sec) + SizeOf(ws, sec) <= HeaderOf(ws)
  BY <1>2, SectionFacts
<1>6. n < SizeOf(ws, sec)
  BY <1>1, <1>4, <1>5, SmallSigned
<1>7. n + 4 <= SizeOf(ws, sec)
  <2>1. PICK size \in Nat : size = SizeOf(ws, sec)
    BY <1>5
  <2>2. size % 4 = 0 /\ n < size
    BY <1>5, <1>6, <2>1
  <2>3. n + 4 <= size
    BY <1>3, <2>2, Multiples
  <2> QED BY <2>1, <2>3
<1>8. HeaderOf(ws) \in Nat /\ HeaderOf(ws) <= filesize /\ filesize \in Nat
  BY HeaderBelow, HeaderInside
<1>9. StartOf(ws, sec) + n >= 0 /\ StartOf(ws, sec) + n + 4 <= filesize
  BY SMTT(30), <1>3, <1>5, <1>7, <1>8
<1>10. (n + 4) % 4 = 0
  <2>1. PICK four \in Nat : four = 4 /\ four % 4 = 0
    OBVIOUS
  <2>2. (n + four) % 4 = 0
    BY <1>3, <2>1, Multiples
  <2> QED BY <2>1, <2>2
<1> QED BY <1>3, <1>4, <1>9, <1>10 DEF Inside

LEMMA PrintKept ==
    ASSUME NEW ws \in Seq(Nat), IsOverlay(ws), words = ws, Holds(ws),
           ListSection \/ ListRelocation \/ DisassembleWord \/ DisassembleNext
    PROVE  at' # "undefined" /\ Holds(ws)'
<1>1. /\ at = "print" /\ HeaderRead(ws) /\ ovl.relocations = TableOf(ws)
      /\ sec \in 0 .. 4 /\ SectionsRead(ws, 4)
      /\ n \in Nat /\ (mode # "relocations" => n % 4 = 0)
      /\ ovl' = ovl /\ mode' = mode
  BY DEF Holds, ListSection, ListRelocation, DisassembleWord, DisassembleNext, PrintFrame,
         Inputs
<1>2. /\ at' = "print"
      /\ sec' \in 0 .. 4
      /\ n' \in Nat /\ (mode # "relocations" => n' % 4 = 0)
  <2>1. CASE ListSection
    BY <1>1, <2>1 DEF ListSection, SectionIds
  <2>2. CASE ListRelocation
    <3> DEFINE r == ovl.relocations[n + 1]
    <3>1. mode = "relocations" /\ n < Len(TableOf(ws))
      BY <1>1, <2>2 DEF ListRelocation
    <3>2. n + 1 \in 1 .. CountOf(ws) /\ TableOf(ws) \in Seq(Nat)
      BY <1>1, <3>1, TableFacts, HeaderFacts
    <3>3. r \in Nat /\ InSection(ws, r)
      BY <1>1, <3>2, TableFacts
    <3>4. /\ OVL_RELOC_GET_SEC(r) \in SectionIds /\ OVL_RELOC_GET_TYPE(r) < TypeNames
          /\ Inside(AbsAddr(r))
      BY <1>1, <3>3, RelocationInside
    <3>5. n' = n + 1 /\ at' = at /\ sec' = sec
      BY <2>2, <3>4 DEF ListRelocation
    <3> QED BY <1>1, <3>1, <3>5
  <2>3. CASE DisassembleWord
    <3>1. Inside(ovl.addr[sec] + n) /\ (n + 4) % 4 = 0 /\ n + 4 \in Nat
      BY <2>3, WordInside
    <3>2. n' = n + 4 /\ at' = at /\ sec' = sec
      BY <2>3, <3>1 DEF DisassembleWord
    <3> QED BY <1>1, <3>1, <3>2
  <2>4. CASE DisassembleNext
    <3>1. sec \in 0 .. 2 /\ sec' = sec + 1 /\ n' = 0 /\ at' = at
      BY <2>4 DEF DisassembleNext, Shown, TEXT, DATA, RODATA
    <3> QED BY <1>1, <3>1
  <2> QED BY <2>1, <2>2, <2>3, <2>4
<1>3. HeaderRead(ws)' /\ SectionsRead(ws, 4)'
  BY <1>1 DEF HeaderRead, SectionsRead
<1> QED BY <1>1, <1>2, <1>3 DEF Holds

-----------------------------------------------------------------------------
LEMMA LoadStarts == Init => LoadInvariant
  BY TurnStarts DEF Init, Start, LoadInvariant, Holds

LEMMA LoadKept ==
    ASSUME LoadInvariant, [Next]_vars
    PROVE  LoadInvariant'
<1>1. Turn /\ Turn'
  BY TurnKept DEF LoadInvariant
<1>2. SUFFICES ASSUME which' <= Len(disk'), Overlay(disk'[which'])
               PROVE  at' # "undefined" /\ Holds(words)'
  BY <1>1 DEF LoadInvariant
<1>3. CASE Free
  BY <1>3 DEF Free, Exit, Holds
<1>4. CASE CannotRead \/ Read \/ PrintEnds
  BY <1>4 DEF CannotRead, Read, PrintEnds, Exit, Holds
<1>5. CASE \/ Refuse \/ GetHeader \/ CopyRelocation \/ CopyEnds \/ MakeSection \/ Loaded
           \/ ListSection \/ ListRelocation \/ DisassembleWord \/ DisassembleNext
           \/ Ended \/ UNCHANGED vars
  <2>1. which' = which /\ disk' = disk
    BY <1>5
       DEF Refuse, GetHeader, CopyRelocation, CopyEnds, MakeSection, Loaded, ListSection,
           ListRelocation, DisassembleWord, DisassembleNext, PrintFrame, Inputs, Ended, vars
  <2>2. words' = words
    BY <2>1 DEF words
  <2>3. words \in Seq(Nat) /\ IsOverlay(words) /\ at # "undefined" /\ Holds(words)
    BY <1>1, <1>2, <2>1, FileFacts DEF LoadInvariant, Overlay, words
  <2> PICK ws \in Seq(Nat) : ws = words
    BY <2>3
  <2>4. IsOverlay(ws) /\ Holds(ws)
    BY <2>3
  <2> SUFFICES at' # "undefined" /\ Holds(ws)'
    BY <2>2
  <2>5. CASE Refuse
    BY <2>4, <2>5, OffsetRead DEF Refuse
  <2>6. CASE GetHeader
    BY <2>4, <2>6, HeaderKept
  <2>7. CASE CopyRelocation \/ CopyEnds
    BY <2>4, <2>7, RelocsKept
  <2>8. CASE MakeSection \/ Loaded
    BY <2>4, <2>8, SectionsKept
  <2>9. CASE ListSection \/ ListRelocation \/ DisassembleWord \/ DisassembleNext
    BY <2>4, <2>9, PrintKept
  <2>10. CASE Ended \/ UNCHANGED vars
    BY <2>3, <2>4, <2>10
       DEF Ended, vars, Holds, HeaderRead, SectionsRead
  <2> QED BY <1>5, <2>5, <2>6, <2>7, <2>8, <2>9, <2>10
<1> QED BY <1>3, <1>4, <1>5 DEF Next

THEOREM LoadingInvariant == Spec => []LoadInvariant
  BY LoadStarts, LoadKept, PTL DEF Spec

LEMMA LoadsRight == LoadInvariant => OverlaysLoad
<1> SUFFICES ASSUME LoadInvariant, which <= Len(disk), Overlay(disk[which])
             PROVE  at # "undefined" /\ (at = "header" => ~NotAnOverlay)
  BY DEF OverlaysLoad
<1>1. words \in Seq(Nat) /\ IsOverlay(words)
  BY FileFacts DEF LoadInvariant, Overlay, words
<1>2. PICK ws \in Seq(Nat) : ws = words
  BY <1>1
<1>3. ~NotAnOverlay
  BY <1>1, <1>2, OffsetRead
<1> QED BY <1>3 DEF LoadInvariant

(* Reading an overlay never goes outside of it and it is never refused, for every
   overlay, every mode and every list of files it is named in (overlay.c:106,
   114-208; main.c:111-168). *)
THEOREM Loading == Spec => []OverlaysLoad
  BY LoadsRight, LoadingInvariant, PTL

-----------------------------------------------------------------------------
(***************************************************************************)
(* FlattenSeq, one sequence at a time.                                     *)
(***************************************************************************)
Flattens(s, k, f) == f = [i \in 1 .. k |-> IF i = 1 THEN s[i] ELSE f[i - 1] \o s[i]]

Lt == OpToRel(<, Nat)

(* The least natural number in a set that has one. *)
LEMMA LeastNat ==
    ASSUME NEW T, T \subseteq Nat, T # {}
    PROVE  \E k \in T : \A m \in T : k <= m
<1>1. PICK k \in T : \A m \in T : <<m, k>> \notin Lt
  BY NatLessThanWellFounded, WFMin DEF Lt
<1>2. \A m \in T : ~(m < k)
  BY <1>1 DEF Lt, OpToRel
<1> QED BY <1>1, <1>2

LEMMA FlattensExist ==
    ASSUME NEW s, NEW k \in Nat
    PROVE  \E f : Flattens(s, k, f)
<1> DEFINE Bad == {m \in Nat : ~\E f : Flattens(s, m, f)}
<1>1. SUFFICES ASSUME Bad # {} PROVE FALSE
  OBVIOUS
<1>2. PICK m \in Bad : \A q \in Bad : m <= q
  BY <1>1, LeastNat
<1>3. m # 0
  <2>1. Flattens(s, 0, [i \in 1 .. 0 |-> s[i]])
    BY DEF Flattens
  <2> QED BY <2>1
<1>4. PICK f : Flattens(s, m - 1, f)
  BY <1>2, <1>3
<1> DEFINE g == [i \in 1 .. m |-> IF i < m THEN f[i]
                                  ELSE IF i = 1 THEN s[i] ELSE f[i - 1] \o s[i]]
<1>5. ASSUME NEW i \in 1 .. m
      PROVE  g[i] = IF i = 1 THEN s[i] ELSE g[i - 1] \o s[i]
  <2>1. i # 1 => g[i - 1] = f[i - 1]
    OBVIOUS
  <2>2. CASE i < m
    <3>1. i \in 1 .. m - 1 /\ g[i] = f[i]
      BY <2>2
    <3>2. f[i] = IF i = 1 THEN s[i] ELSE f[i - 1] \o s[i]
      BY <1>4, <3>1 DEF Flattens
    <3> QED BY <2>1, <3>1, <3>2
  <2>3. CASE i = m
    BY <2>1, <2>3
  <2> QED BY <2>2, <2>3
<1>6. Flattens(s, m, g)
  BY <1>5 DEF Flattens
<1> QED BY <1>2, <1>6

LEMMA FlattenAt ==
    ASSUME NEW s, NEW k \in Nat, NEW f, Flattens(s, k, f), NEW i \in 1 .. k
    PROVE  f[i] = IF i = 1 THEN s[i] ELSE f[i - 1] \o s[i]
  BY DEF Flattens

LEMMA FlattenIs ==
    ASSUME NEW s, NEW k \in Nat \ {0}, Len(s) = k
    PROVE  \E f : Flattens(s, k, f) /\ FlattenSeq(s) = f[k]
<1> DEFINE f == CHOOSE g : Flattens(s, k, g)
<1>1. Flattens(s, k, f)
  BY FlattensExist
<1>2. FlattenSeq(s) = f[k]
  BY DEF FlattenSeq, Flattens
<1> HIDE DEF f
<1> QED BY <1>1, <1>2

LEMMA FlattensAgree ==
    ASSUME NEW s, NEW t, NEW k \in Nat \ {0}, NEW l \in Nat, k <= l,
           \A i \in 1 .. k : s[i] = t[i],
           NEW f, Flattens(s, k, f), NEW g, Flattens(t, l, g)
    PROVE  f[k] = g[k]
<1> DEFINE Bad == {m \in 1 .. k : f[m] # g[m]}
<1>1. SUFFICES ASSUME Bad # {} PROVE FALSE
  <2>1. k \notin Bad => f[k] = g[k]
    OBVIOUS
  <2> HIDE DEF Bad
  <2> QED BY <2>1
<1>2. PICK m \in Bad : \A q \in Bad : m <= q
  <2>1. Bad \subseteq Nat
    OBVIOUS
  <2> HIDE DEF Bad
  <2> QED BY <1>1, <2>1, LeastNat
<1>3. m \in 1 .. k /\ m \in 1 .. l
  OBVIOUS
<1>4. /\ f[m] = IF m = 1 THEN s[m] ELSE f[m - 1] \o s[m]
      /\ g[m] = IF m = 1 THEN t[m] ELSE g[m - 1] \o t[m]
  BY <1>3, FlattenAt
<1>5. m # 1 => f[m - 1] = g[m - 1]
  BY <1>2, <1>3
<1> QED BY <1>2, <1>3, <1>4, <1>5

(* One sequence more adds its elements at the end. *)
LEMMA FlattenMore ==
    ASSUME NEW s, NEW t, NEW k \in Nat, Len(s) = k, Len(t) = k + 1,
           \A i \in 1 .. k : s[i] = t[i]
    PROVE  FlattenSeq(t) = IF k = 0 THEN t[1] ELSE FlattenSeq(s) \o t[k + 1]
<1>1. k + 1 \in Nat \ {0} /\ k + 1 \in Nat
  OBVIOUS
<1>2. PICK g : Flattens(t, k + 1, g) /\ FlattenSeq(t) = g[k + 1]
  BY <1>1, FlattenIs
<1>3. g[k + 1] = IF k + 1 = 1 THEN t[k + 1] ELSE g[k + 1 - 1] \o t[k + 1]
  <2>1. k + 1 \in 1 .. k + 1
    OBVIOUS
  <2> QED BY <1>1, <1>2, <2>1, FlattenAt
<1>4. CASE k = 0
  BY <1>2, <1>3, <1>4
<1>5. CASE k # 0
  <2>1. PICK f : Flattens(s, k, f) /\ FlattenSeq(s) = f[k]
    BY <1>5, FlattenIs
  <2>2. k \in Nat \ {0} /\ k <= k + 1
    BY <1>5
  <2>3. f[k] = g[k]
    <3>1. PICK l \in Nat : l = k + 1
      BY <1>1
    <3>2. k <= l /\ Flattens(t, l, g)
      BY <1>2, <3>1
    <3>3. \A i \in 1 .. k : s[i] = t[i]
      OBVIOUS
    <3> QED BY <2>1, <2>2, <3>1, <3>2, <3>3, FlattensAgree
  <2>4. k + 1 # 1 /\ k + 1 - 1 = k
    BY <1>5
  <2> QED BY <1>2, <1>3, <1>5, <2>1, <2>3, <2>4
<1> QED BY <1>4, <1>5

(* As many rows and one more. *)
LEMMA AppendRow ==
    ASSUME NEW S, NEW D \in Seq(S), NEW R \in Seq(S), NEW c \in Nat, c < Len(R)
    PROVE  Append(D \o SubSeq(R, 1, c), R[c + 1]) = D \o SubSeq(R, 1, c + 1)
<1>1. /\ Len(R) \in Nat /\ 1 \in 1 .. Len(R) + 1 /\ c \in (1 - 1) .. Len(R)
      /\ c + 1 \in c .. Len(R) /\ c + 1 \in 1 .. Len(R)
  OBVIOUS
<1>2. R[c + 1] \in S
  BY <1>1
<1>3. SubSeq(R, 1, c) \in Seq(S)
  BY <1>1
<1>4. Append(D \o SubSeq(R, 1, c), R[c + 1]) = (D \o SubSeq(R, 1, c)) \o <<R[c + 1]>>
  <2>1. D \o SubSeq(R, 1, c) \in Seq(S)
    BY <1>3, ConcatProperties
  <2> QED BY <1>2, <2>1, AppendIsConcat
<1>5. (D \o SubSeq(R, 1, c)) \o <<R[c + 1]>> = D \o (SubSeq(R, 1, c) \o <<R[c + 1]>>)
  <2> DEFINE a == SubSeq(R, 1, c)
             b == <<R[c + 1]>>
  <2>1. a \in Seq(S) /\ b \in Seq(S)
    BY <1>2, <1>3
  <2> HIDE DEF a, b
  <2>2. (D \o a) \o b = D \o (a \o b)
    BY SMTT(30), <2>1, ConcatAssociative
  <2> QED BY <2>2 DEF a, b
<1>6. SubSeq(R, 1, c) \o <<R[c + 1]>> = SubSeq(R, 1, c + 1)
  <2>1. SubSeq(R, 1, c + 1) = SubSeq(R, 1, c + 1 - 1) \o <<R[c + 1]>>
    <3> DEFINE j == c + 1
    <3>1. 1 \in 1 .. Len(R) /\ j \in 1 .. Len(R)
      BY <1>1
    <3> HIDE DEF j
    <3>2. SubSeq(R, 1, j) = SubSeq(R, 1, j - 1) \o <<R[j]>>
      BY <3>1, SubSeqRecursiveSecond
    <3> QED BY <3>2 DEF j
  <2>2. c + 1 - 1 = c
    OBVIOUS
  <2> QED BY <2>1, <2>2
<1> QED BY <1>4, <1>5, <1>6

(* A wrapped sum goes on as if it had not wrapped. *)
LEMMA WrapAgain ==
    ASSUME NEW x \in Nat, NEW y \in Nat, NEW d \in Nat \ {0}
    PROVE  ((x % d) + y) % d = (x + y) % d
<1> DEFINE r == x % d
           q == x \div d
           a == (r + y) % d
           b == (x + y) % d
           p == (r + y) \div d
           z == (x + y) \div d
<1>1. r \in 0 .. d - 1 /\ q \in Nat /\ x = d * q + r
  BY DivMod
<1>2. r + y \in Nat /\ x + y \in Nat
  BY <1>1
<1>3. p \in Nat /\ a \in 0 .. d - 1 /\ r + y = d * p + a
  BY <1>2, DivMod
<1>4. z \in Nat /\ b \in 0 .. d - 1 /\ x + y = d * z + b
  BY <1>2, DivMod
<1> HIDE DEF r, q, a, b, p, z
<1> DEFINE u == q + p
<1>5. u \in Nat /\ d * u = d * q + d * p
  BY <1>1, <1>3
<1> HIDE DEF u
<1>6. d * u + a = d * z + b
  BY <1>1, <1>3, <1>4, <1>5
<1>7. u = z
  <2>1. CASE u < z
    <3>1. u + 1 <= z /\ d * (u + 1) <= d * z /\ d * (u + 1) = d * u + d
      BY <1>4, <1>5, <2>1, MulMono
    <3> QED BY <1>3, <1>4, <1>5, <1>6, <3>1
  <2>2. CASE z < u
    <3>1. z + 1 <= u /\ d * (z + 1) <= d * u /\ d * (z + 1) = d * z + d
      BY <1>4, <1>5, <2>2, MulMono
    <3> QED BY <1>3, <1>4, <1>5, <1>6, <3>1
  <2> QED BY <1>4, <1>5, <2>1, <2>2
<1>8. a = b
  <2>1. d * u = d * z /\ d * u \in Nat /\ d * z \in Nat
    BY <1>4, <1>5, <1>7
  <2> HIDE DEF u
  <2> QED BY SMT, <1>3, <1>4, <1>6, <2>1
<1> QED BY <1>8 DEF a, b, r

-----------------------------------------------------------------------------
(***************************************************************************)
(* What is printed, file after file and row after row.                     *)
(***************************************************************************)
AllOverlays == \A k \in 1 .. Len(disk) : Overlay(disk[k])

(* How many rows a file has. *)
Amount(ws, m) ==
    CASE m = "sections"    -> 4
      [] m = "relocations" -> CountOf(ws)
      [] m = "text"        -> SizeOf(ws, TEXT) \div 4
      [] m = "all"         -> HeaderOf(ws) \div 4

(* The rows as the program prints them: .bss is behind .rodata. *)
LoaderSectionRows(ws, base) ==
    [q \in 1 .. 4 |-> <<(base + StartOf(ws, q - 1)) % Word, SizeOf(ws, q - 1)>>]

LoaderRows(ws, m, base) ==
    CASE m = "sections"    -> LoaderSectionRows(ws, base)
      [] m = "relocations" -> [q \in 1 .. CountOf(ws) |-> RelocationRow(ws, base, TableOf(ws)[q])]
      [] m = "text"        -> WordRows(ws, base, SizeOf(ws, TEXT))
      [] m = "all"         -> WordRows(ws, base, HeaderOf(ws))

(* The rows of the first k files, and every row there is. *)
Done(files, m, base, k) == FlattenSeq([j \in 1 .. k |-> LoaderRows(files[j].words, m, base)])

RowSet(files, m, base) ==
    UNION {{LoaderRows(files[j].words, m, base)[q] : q \in 1 .. Amount(files[j].words, m)} :
              j \in 1 .. Len(files)}

(* The section behind the last one disassembled. *)
EndsAt == IF mode = "text" THEN DATA ELSE BSS

(* Where the loop that prints is when it has printed c rows. *)
Reached(ws, c) ==
    /\ mode = "sections" => c = sec
    /\ mode = "relocations" => c = n
    /\ mode \in {"text", "all"} =>
          /\ 4 * c = StartOf(ws, sec) + n
          /\ address = (base_addr + 4 * c) % Word
          /\ \/ sec \in Shown /\ n <= SizeOf(ws, sec)
             \/ sec = EndsAt /\ n = 0

Printing(ws) ==
    \E c \in Nat :
        /\ c <= Amount(ws, mode)
        /\ Reached(ws, c)
        /\ printed = Done(disk, mode, base_addr, which - 1)
                         \o SubSeq(LoaderRows(ws, mode, base_addr), 1, c)

RowsInvariant ==
    /\ mode \in Modes /\ base_addr \in Words
    /\ AllOverlays =>
          /\ at \in {"open", "header", "relocs", "sections"} =>
                printed = Done(disk, mode, base_addr, which - 1)
          /\ at = "print" => Printing(words)
          /\ at = "free" => printed = Done(disk, mode, base_addr, which)
          /\ outcome = "ok" => printed = Done(disk, mode, base_addr, Len(disk))

(* The sections shown end where the rows do. *)
LEMMA Shares ==
    ASSUME NEW ws \in Seq(Nat), IsOverlay(ws)
    PROVE  /\ StartOf(ws, TEXT) = 0
           /\ StartOf(ws, DATA) = SizeOf(ws, TEXT)
           /\ StartOf(ws, BSS) = HeaderOf(ws)
           /\ 4 * (SizeOf(ws, TEXT) \div 4) = SizeOf(ws, TEXT)
           /\ 4 * (HeaderOf(ws) \div 4) = HeaderOf(ws)
           /\ SizeOf(ws, TEXT) \div 4 \in Nat /\ HeaderOf(ws) \div 4 \in Nat
           /\ SizeOf(ws, TEXT) \in Nat /\ HeaderOf(ws) \in Nat
<1>1. \A s \in {0, 1, 2} : SizeOf(ws, s) \in Nat
  BY HalfWord DEF IsOverlay, HasSections, SectionIds
<1>2. SizeOf(ws, TEXT) + SizeOf(ws, DATA) + SizeOf(ws, RODATA) = HeaderOf(ws)
  BY DEF IsOverlay, HasSections
<1>3. /\ StartOf(ws, TEXT) = 0 /\ StartOf(ws, DATA) = SizeOf(ws, TEXT)
      /\ StartOf(ws, BSS) = HeaderOf(ws)
  BY <1>1, <1>2 DEF StartOf, TEXT, DATA, RODATA, BSS
<1>4. SizeOf(ws, TEXT) \in Nat /\ SizeOf(ws, TEXT) % 4 = 0
  BY SectionFacts DEF SectionIds, TEXT
<1>5. HeaderOf(ws) \in Nat /\ HeaderOf(ws) % 4 = 0
  BY HeaderFacts
<1>6. ASSUME NEW a \in Nat, a % 4 = 0
      PROVE  4 * (a \div 4) = a /\ a \div 4 \in Nat
  BY <1>6
<1> QED BY <1>3, <1>4, <1>5, <1>6

(* They are a sequence of so many. *)
LEMMA RowsAre ==
    ASSUME NEW ws \in Seq(Nat), IsOverlay(ws), NEW m \in Modes, NEW base
    PROVE  /\ Amount(ws, m) \in Nat
           /\ LoaderRows(ws, m, base) \in Seq({LoaderRows(ws, m, base)[q] : q \in 1 .. Amount(ws, m)})
           /\ Len(LoaderRows(ws, m, base)) = Amount(ws, m)
<1> DEFINE Row(q) == CASE m = "sections" ->
                            <<(base + StartOf(ws, q - 1)) % Word, SizeOf(ws, q - 1)>>
                      [] m = "relocations" -> RelocationRow(ws, base, TableOf(ws)[q])
                      [] OTHER -> <<(base + 4 * (q - 1)) % Word, ws[q]>>
           R == LoaderRows(ws, m, base)
           k == Amount(ws, m)
<1>1. k \in Nat /\ R = [q \in 1 .. k |-> Row(q)]
  <2>1. CASE m = "sections"
    BY <2>1 DEF LoaderRows, LoaderSectionRows, Amount
  <2>2. CASE m = "relocations"
    BY <2>2, HeaderFacts DEF LoaderRows, Amount
  <2>3. CASE m = "text"
    BY <2>3, Shares DEF LoaderRows, WordRows, Amount
  <2>4. CASE m = "all"
    BY <2>4, Shares DEF LoaderRows, WordRows, Amount
  <2> QED BY <2>1, <2>2, <2>3, <2>4 DEF Modes
<1>2. R \in [1 .. k -> {R[q] : q \in 1 .. k}]
  <2> HIDE DEF Row, k, R
  <2> QED BY <1>1
<1>3. R \in Seq({R[q] : q \in 1 .. k}) /\ Len(R) = k
  <2> HIDE DEF Row, k, R
  <2> DEFINE S == {R[q] : q \in 1 .. k}
  <2>1. R \in [1 .. k -> S] /\ k \in Nat
    BY <1>1, <1>2
  <2> HIDE DEF S
  <2>2. R \in Seq(S) /\ Len(R) = k
    BY <2>1
  <2> QED BY <2>2 DEF S
<1> QED BY <1>1, <1>3

LEMMA SectionRow ==
    ASSUME NEW ws \in Seq(Nat), IsOverlay(ws), NEW base, NEW q \in SectionIds
    PROVE  LoaderRows(ws, "sections", base)[q + 1] =
              <<(base + StartOf(ws, q)) % Word, SizeOf(ws, q)>>
<1>1. PICK p \in 1 .. 4 : p = q + 1 /\ p - 1 = q
  BY DEF SectionIds
<1>2. LoaderRows(ws, "sections", base)[p] =
         <<(base + StartOf(ws, p - 1)) % Word, SizeOf(ws, p - 1)>>
  <2>1. LoaderRows(ws, "sections", base) = LoaderSectionRows(ws, base)
    BY DEF LoaderRows
  <2> QED BY <2>1 DEF LoaderSectionRows
<1> QED BY <1>1, <1>2

LEMMA TableRow ==
    ASSUME NEW ws \in Seq(Nat), IsOverlay(ws), NEW base, NEW q \in 1 .. CountOf(ws)
    PROVE  LoaderRows(ws, "relocations", base)[q] = RelocationRow(ws, base, TableOf(ws)[q])
  BY DEF LoaderRows

LEMMA WordRow ==
    ASSUME NEW ws \in Seq(Nat), IsOverlay(ws), NEW m \in {"text", "all"}, NEW base,
           NEW c \in Nat, c < Amount(ws, m)
    PROVE  LoaderRows(ws, m, base)[c + 1] = <<(base + 4 * c) % Word, ws[c + 1]>>
<1>1. Amount(ws, m) \in Nat
  BY RowsAre DEF Modes
<1>2. PICK q \in 1 .. Amount(ws, m) : q = c + 1 /\ q - 1 = c
  BY <1>1
<1>3. CASE m = "text"
  BY <1>2, <1>3 DEF LoaderRows, WordRows, Amount
<1>4. CASE m = "all"
  BY <1>2, <1>4 DEF LoaderRows, WordRows, Amount
<1> QED BY <1>3, <1>4

-----------------------------------------------------------------------------
(* The rows of one file more. *)
LEMMA DoneMore ==
    ASSUME NEW files \in Seq(Files), NEW m, NEW base, NEW k \in Nat, k < Len(files)
    PROVE  Done(files, m, base, k + 1) =
              IF k = 0 THEN LoaderRows(files[k + 1].words, m, base)
              ELSE Done(files, m, base, k) \o LoaderRows(files[k + 1].words, m, base)
<1> DEFINE s == [j \in 1 .. k |-> LoaderRows(files[j].words, m, base)]
           t == [j \in 1 .. (k + 1) |-> LoaderRows(files[j].words, m, base)]
<1>1. Len(s) = k /\ Len(t) = k + 1
  OBVIOUS
<1>2. \A i \in 1 .. k : s[i] = t[i]
  OBVIOUS
<1>3. t[k + 1] = LoaderRows(files[k + 1].words, m, base) /\ (k = 0 => t[1] = t[k + 1])
  OBVIOUS
<1> HIDE DEF s, t
<1>4. FlattenSeq(t) = IF k = 0 THEN t[1] ELSE FlattenSeq(s) \o t[k + 1]
  BY <1>1, <1>2, FlattenMore
<1>5. Done(files, m, base, k + 1) = FlattenSeq(t) /\ Done(files, m, base, k) = FlattenSeq(s)
  BY DEF Done, s, t
<1> QED BY <1>3, <1>4, <1>5

LEMMA NoneDone ==
    ASSUME NEW files, NEW m, NEW base
    PROVE  Done(files, m, base, 0) = <<>>
<1> DEFINE s == [j \in 1 .. 0 |-> LoaderRows(files[j].words, m, base)]
<1>1. s = <<>>
  OBVIOUS
<1>2. Len(s) = 0
  BY <1>1
<1> HIDE DEF s
<1>3. FlattenSeq(s) = s
  BY <1>2 DEF FlattenSeq
<1> QED BY <1>1, <1>3 DEF Done, s

LEMMA RowsOfFile ==
    ASSUME NEW files \in Seq(Files), \A j \in 1 .. Len(files) : Overlay(files[j]),
           NEW m \in Modes, NEW base, NEW k \in 1 .. Len(files)
    PROVE  /\ files[k].words \in Seq(Nat) /\ IsOverlay(files[k].words)
           /\ LoaderRows(files[k].words, m, base) \in Seq(RowSet(files, m, base))
<1>1. files[k].words \in Seq(Nat) /\ IsOverlay(files[k].words)
  <2>1. files[k] \in Files /\ Overlay(files[k])
    OBVIOUS
  <2> QED BY <2>1 DEF Overlay, Files
<1> DEFINE R == LoaderRows(files[k].words, m, base)
           S == {LoaderRows(files[k].words, m, base)[q] : q \in 1 .. Amount(files[k].words, m)}
<1>2. R \in Seq(S)
  BY <1>1, RowsAre
<1>3. S \subseteq RowSet(files, m, base)
  BY DEF RowSet
<1> HIDE DEF S, R
<1>4. R \in Seq(RowSet(files, m, base))
  BY <1>2, <1>3
<1> QED BY <1>1, <1>4 DEF R

LEMMA DoneRows ==
    ASSUME NEW files \in Seq(Files), \A j \in 1 .. Len(files) : Overlay(files[j]),
           NEW m \in Modes, NEW base, NEW k \in 0 .. Len(files)
    PROVE  Done(files, m, base, k) \in Seq(RowSet(files, m, base))
<1> DEFINE S == RowSet(files, m, base)
           Bad == {j \in 0 .. Len(files) : Done(files, m, base, j) \notin Seq(S)}
<1>1. SUFFICES ASSUME Bad # {} PROVE FALSE
  OBVIOUS
<1>2. PICK j \in Bad : \A q \in Bad : j <= q
  <2>1. Bad \subseteq Nat
    OBVIOUS
  <2> HIDE DEF Bad
  <2> QED BY <1>1, <2>1, LeastNat
<1>3. j # 0
  <2>1. Done(files, m, base, 0) = <<>> /\ <<>> \in Seq(S)
    BY NoneDone
  <2> QED BY <2>1
<1>4. PICK i \in Nat : j = i + 1 /\ i < Len(files)
  BY <1>2, <1>3
<1>5. Done(files, m, base, i) \in Seq(S)
  BY <1>2, <1>4
<1>6. LoaderRows(files[i + 1].words, m, base) \in Seq(S)
  BY <1>4, RowsOfFile
<1>7. Done(files, m, base, i + 1) \in Seq(S)
  <2> HIDE DEF S
  <2>1. i # 0 => Done(files, m, base, i) \o LoaderRows(files[i + 1].words, m, base) \in Seq(S)
    BY <1>5, <1>6, ConcatProperties
  <2> QED BY <1>4, <1>6, <2>1, DoneMore
<1> QED BY <1>2, <1>4, <1>7

(* When all rows of a file are printed, it is done. *)
LEMMA DoneWhole ==
    ASSUME NEW files \in Seq(Files), \A j \in 1 .. Len(files) : Overlay(files[j]),
           NEW m \in Modes, NEW base, NEW k \in 1 .. Len(files)
    PROVE  Done(files, m, base, k - 1)
              \o SubSeq(LoaderRows(files[k].words, m, base), 1, Amount(files[k].words, m))
           = Done(files, m, base, k)
<1> DEFINE S == RowSet(files, m, base)
           R == LoaderRows(files[k].words, m, base)
           D == Done(files, m, base, k - 1)
<1>1. R \in Seq(S) /\ Len(R) = Amount(files[k].words, m)
  BY RowsOfFile, RowsAre
<1>2. D \in Seq(S)
  BY DoneRows
<1>3. Done(files, m, base, k) = IF k = 1 THEN R ELSE D \o R
  <2>1. PICK i \in Nat : k = i + 1 /\ i < Len(files) /\ k - 1 = i
    OBVIOUS
  <2>2. Done(files, m, base, i + 1) =
              IF i = 0 THEN LoaderRows(files[i + 1].words, m, base)
              ELSE Done(files, m, base, i) \o LoaderRows(files[i + 1].words, m, base)
    BY <2>1, DoneMore
  <2> QED BY <2>1, <2>2
<1>4. k = 1 => D = <<>>
  BY NoneDone
<1> HIDE DEF S, R, D
<1>5. SubSeq(R, 1, Len(R)) = R /\ <<>> \o R = R
  BY <1>1, SubSeqFull, ConcatEmptySeq
<1>6. D \o SubSeq(R, 1, Amount(files[k].words, m)) = Done(files, m, base, k)
  BY <1>1, <1>3, <1>4, <1>5
<1> QED BY <1>6 DEF R, D
-----------------------------------------------------------------------------
(***************************************************************************)
(* The loops that print, for an overlay ws in turn of which c rows are     *)
(* printed.                                                                *)
(***************************************************************************)
LEMMA SectionListed ==
    ASSUME NEW ws \in Seq(Nat), IsOverlay(ws), words = ws, Holds(ws),
           NEW c \in Nat, Reached(ws, c), ListSection
    PROVE  /\ c < Amount(ws, mode) /\ Reached(ws, c + 1)'
           /\ printed' = Append(printed, LoaderRows(ws, mode, base_addr)[c + 1])
<1>1. /\ at = "print" /\ mode = "sections" /\ sec \in SectionIds /\ sec' = sec + 1
      /\ mode' = mode
      /\ printed' = Append(printed, <<(base_addr + ovl.addr[sec]) % Word,
                                     Signed(ovl.sizes[sec])>>)
  BY DEF ListSection, PrintFrame, Inputs
<1>2. ovl.addr[sec] = StartOf(ws, sec) /\ ovl.sizes[sec] = SizeOf(ws, sec)
  BY <1>1 DEF Holds, SectionsRead, HeaderRead, SectionIds
<1>3. Signed(ovl.sizes[sec]) = SizeOf(ws, sec)
  BY <1>1, <1>2, SectionFacts, SmallSigned
<1>4. c = sec /\ Amount(ws, mode) = 4 /\ mode \in Modes
  BY <1>1 DEF Reached, Amount, Modes
<1>5. LoaderRows(ws, mode, base_addr)[c + 1] =
         <<(base_addr + StartOf(ws, sec)) % Word, SizeOf(ws, sec)>>
  BY <1>1, <1>4, SectionRow
<1>6. Reached(ws, c + 1)'
  BY <1>1, <1>4 DEF Reached
<1>7. c < Amount(ws, mode)
  BY <1>1, <1>4 DEF SectionIds
<1> QED BY <1>1, <1>2, <1>3, <1>5, <1>6, <1>7

LEMMA RelocationListed ==
    ASSUME NEW ws \in Seq(Nat), IsOverlay(ws), words = ws, Holds(ws),
           base_addr \in Words, NEW c \in Nat, Reached(ws, c), ListRelocation
    PROVE  /\ c < Amount(ws, mode) /\ Reached(ws, c + 1)'
           /\ printed' = Append(printed, LoaderRows(ws, mode, base_addr)[c + 1])
<1> DEFINE r == TableOf(ws)[n + 1]
           o == StartOf(ws, OVL_RELOC_GET_SEC(r)) + OVL_RELOC_GET_ADDR(r)
<1>1. /\ at = "print" /\ mode = "relocations" /\ n < Len(ovl.relocations) /\ mode' = mode
      /\ n \in Nat /\ ovl.relocations = TableOf(ws)
  BY DEF ListRelocation, PrintFrame, Inputs, Holds
<1>2. c = n /\ Amount(ws, mode) = CountOf(ws) /\ mode \in Modes
  BY <1>1 DEF Reached, Amount, Modes
<1>3. n + 1 \in 1 .. CountOf(ws) /\ c < CountOf(ws) /\ c + 1 \in 1 .. Amount(ws, mode)
  BY <1>1, <1>2, TableFacts, HeaderFacts
<1>4. r \in Nat /\ InSection(ws, r)
  BY <1>1, <1>3, TableFacts
<1>5. /\ OVL_RELOC_GET_SEC(r) \in SectionIds /\ OVL_RELOC_GET_TYPE(r) < TypeNames
      /\ Inside(AbsAddr(r)) /\ AbsAddr(r) = o /\ o \in Nat
  <2> HIDE DEF r
  <2> QED BY <1>1, <1>4, RelocationInside
<1>6. /\ n' = n + 1
      /\ printed' = Append(printed, <<(AbsAddr(r) + base_addr) % Word, OVL_RELOC_GET_SEC(r),
                                     OVL_RELOC_GET_TYPE(r), Data(AbsAddr(r))>>)
  <2> HIDE DEF o
  <2>1. ovl.relocations[n + 1] = r
    BY <1>1
  <2> HIDE DEF r
  <2> QED BY <1>5, <2>1 DEF ListRelocation
<1>7. /\ (o + base_addr) % Word = (base_addr + o) % Word
      /\ Data(o) = IF o % 4 = 0 THEN WordOf(ws, o) ELSE Mix
  <2>1. base_addr \in Nat
    BY Spans DEF Words
  <2>2. o + base_addr = base_addr + o
    BY <1>5, <2>1
  <2> HIDE DEF o
  <2> QED BY <2>2 DEF Data, WordOf
<1>8. RelocationRow(ws, base_addr, r) =
         <<(base_addr + o) % Word, OVL_RELOC_GET_SEC(r), OVL_RELOC_GET_TYPE(r),
           IF o % 4 = 0 THEN WordOf(ws, o) ELSE Mix>>
  BY DEF RelocationRow
<1>9. LoaderRows(ws, mode, base_addr)[c + 1] = RelocationRow(ws, base_addr, r)
  <2>1. PICK q \in 1 .. CountOf(ws) : q = n + 1 /\ q = c + 1
    BY <1>2, <1>3
  <2>2. LoaderRows(ws, "relocations", base_addr)[q] = RelocationRow(ws, base_addr, TableOf(ws)[q])
    BY TableRow
  <2> QED BY <1>1, <2>1, <2>2
<1>10. Reached(ws, c + 1)'
  BY <1>1, <1>2, <1>6 DEF Reached
<1> HIDE DEF r, o
<1> QED BY <1>2, <1>3, <1>5, <1>6, <1>7, <1>8, <1>9, <1>10

(* The word shown is the one behind those shown before, in this section or in
   the ones that lie before it without a gap. *)
LEMMA WordShown ==
    ASSUME NEW ws \in Seq(Nat), IsOverlay(ws), words = ws, Holds(ws), mode \in Modes,
           base_addr \in Words, NEW c \in Nat, Reached(ws, c), DisassembleWord
    PROVE  /\ c < Amount(ws, mode) /\ Reached(ws, c + 1)'
           /\ printed' = Append(printed, LoaderRows(ws, mode, base_addr)[c + 1])
<1>1. /\ at = "print" /\ sec \in Shown /\ n < Signed(ovl.sizes[sec])
      /\ mode' = mode /\ base_addr' = base_addr /\ sec' = sec
  BY DEF DisassembleWord, PrintFrame, Inputs
<1>2. /\ sec \in SectionIds /\ sec # BSS /\ mode \in {"text", "all"}
      /\ (mode = "text" => sec = TEXT)
  BY <1>1 DEF Shown, SectionIds, TEXT, DATA, RODATA, BSS, Modes
<1>3. /\ n \in Nat /\ n % 4 = 0
      /\ ovl.addr[sec] = StartOf(ws, sec) /\ ovl.sizes[sec] = SizeOf(ws, sec)
  BY <1>1, <1>2 DEF Holds, SectionsRead, HeaderRead, SectionIds
<1>4. /\ StartOf(ws, sec) \in Nat /\ SizeOf(ws, sec) \in Nat
      /\ SizeOf(ws, sec) % 4 = 0 /\ SizeOf(ws, sec) < Word \div 2
      /\ StartOf(ws, sec) + SizeOf(ws, sec) <= HeaderOf(ws)
  BY <1>2, SectionFacts
<1>5. n < SizeOf(ws, sec)
  BY <1>1, <1>3, <1>4, SmallSigned
<1>6. n + 4 <= SizeOf(ws, sec)
  <2>1. PICK size \in Nat : size = SizeOf(ws, sec)
    BY <1>4
  <2> QED BY <1>3, <1>4, <1>5, <2>1, Multiples
<1>7. 4 * c = StartOf(ws, sec) + n /\ address = (base_addr + 4 * c) % Word
  BY <1>2 DEF Reached
<1>8. c < Amount(ws, mode)
  <2>1. 4 * Amount(ws, mode) >= StartOf(ws, sec) + SizeOf(ws, sec) /\ Amount(ws, mode) \in Nat
    <3>1. CASE mode = "text"
      BY <1>2, <1>4, <3>1, Shares DEF Amount
    <3>2. CASE mode = "all"
      <4>1. Amount(ws, mode) = HeaderOf(ws) \div 4
        BY <3>2 DEF Amount
      <4> QED BY <1>4, <4>1, Shares
    <3> QED BY <1>2, <3>1, <3>2
  <2>2. PICK start \in Nat, size \in Nat : start = StartOf(ws, sec) /\ size = SizeOf(ws, sec)
    BY <1>4
  <2>3. 4 * c < start + size /\ start + size <= 4 * Amount(ws, mode)
    <3>1. 4 * c = start + n /\ n < size
      BY <1>5, <1>7, <2>2
    <3>2. start + size <= 4 * Amount(ws, mode)
      BY <2>1, <2>2
    <3> QED BY <1>3, <3>1, <3>2
  <2> QED BY <2>1, <2>3
<1>9. /\ printed' = Append(printed, <<address, Data(ovl.addr[sec] + n)>>)
      /\ n' = n + 4 /\ address' = (address + 4) % Word
  <2>1. Inside(ovl.addr[sec] + n)
    BY WordInside
  <2> QED BY <2>1 DEF DisassembleWord
<1>10. Data(ovl.addr[sec] + n) = ws[c + 1]
  <2>1. (4 * c) % 4 = 0 /\ (4 * c) \div 4 = c
    OBVIOUS
  <2> QED BY <1>3, <1>7, <2>1 DEF Data
<1>11. LoaderRows(ws, mode, base_addr)[c + 1] = <<(base_addr + 4 * c) % Word, ws[c + 1]>>
  BY <1>2, <1>8, WordRow
<1>12. (address + 4) % Word = (base_addr + 4 * (c + 1)) % Word
  <2>1. base_addr + 4 * c \in Nat /\ Word \in Nat \ {0}
    BY Spans DEF Words
  <2>2. PICK x \in Nat : x = base_addr + 4 * c
    BY <2>1
  <2>3. ((x % Word) + 4) % Word = (x + 4) % Word
    BY <2>1, WrapAgain
  <2>4. x + 4 = base_addr + 4 * (c + 1)
    BY <2>2, Spans DEF Words
  <2> QED BY <1>7, <2>2, <2>3, <2>4
<1>13. Reached(ws, c + 1)'
  <2>1. 4 * (c + 1) = StartOf(ws, sec) + (n + 4)
    <3>1. PICK start \in Nat : start = StartOf(ws, sec)
      BY <1>4
    <3>2. 4 * c = start + n
      BY <1>7, <3>1
    <3>3. 4 * (c + 1) = start + (n + 4)
      BY <1>3, <3>2
    <3> QED BY <3>1, <3>3
  <2>2. sec \in Shown /\ n + 4 <= SizeOf(ws, sec)
    BY <1>1, <1>6
  <2> QED BY <1>1, <1>2, <1>9, <1>12, <2>1, <2>2 DEF Reached, Shown
<1> QED BY <1>7, <1>8, <1>9, <1>10, <1>11, <1>13

LEMMA SectionShown ==
    ASSUME NEW ws \in Seq(Nat), IsOverlay(ws), words = ws, Holds(ws), mode \in Modes,
           NEW c \in Nat, Reached(ws, c), DisassembleNext
    PROVE  printed' = printed /\ Reached(ws, c)'
<1>1. /\ at = "print" /\ sec \in Shown /\ n >= Signed(ovl.sizes[sec])
      /\ mode' = mode /\ base_addr' = base_addr /\ sec' = sec + 1 /\ n' = 0
      /\ address' = address /\ printed' = printed
  BY DEF DisassembleNext, PrintFrame, Inputs
<1>2. /\ sec \in SectionIds /\ sec # BSS /\ mode \in {"text", "all"}
      /\ (mode = "text" => sec = TEXT)
  BY <1>1 DEF Shown, SectionIds, TEXT, DATA, RODATA, BSS, Modes
<1>3. n \in Nat /\ ovl.sizes[sec] = SizeOf(ws, sec)
  BY <1>1, <1>2 DEF Holds, HeaderRead
<1>4. /\ StartOf(ws, sec) \in Nat /\ SizeOf(ws, sec) \in Nat /\ SizeOf(ws, sec) < Word \div 2
      /\ StartOf(ws, sec + 1) = StartOf(ws, sec) + SizeOf(ws, sec)
  BY <1>2, SectionFacts
<1>5. n >= SizeOf(ws, sec)
  BY <1>1, <1>3, <1>4, SmallSigned
<1>6. /\ 4 * c = StartOf(ws, sec) + n /\ address = (base_addr + 4 * c) % Word
      /\ n <= SizeOf(ws, sec)
  BY <1>1, <1>2, <1>3 DEF Reached, EndsAt, Shown, TEXT, DATA, RODATA, BSS
<1>7. 4 * c = StartOf(ws, sec + 1) + 0
  BY <1>3, <1>4, <1>5, <1>6
<1>8. \/ sec + 1 \in Shown /\ 0 <= SizeOf(ws, sec + 1)
      \/ sec + 1 = EndsAt
  <2>1. CASE mode = "text"
    BY <1>2, <2>1 DEF EndsAt, TEXT, DATA
  <2>2. CASE mode = "all"
    <3>1. PICK next \in {1, 2, 3} : next = sec + 1
      BY <1>2 DEF SectionIds, BSS
    <3>2. SizeOf(ws, next) \in 0 .. (Word \div 2 - 1)
      <4>1. next \in SectionIds
        BY DEF SectionIds
      <4> QED BY <4>1 DEF IsOverlay, HasSections
    <3>3. next \in Shown \/ next = EndsAt
      BY <2>2 DEF EndsAt, Shown, TEXT, DATA, RODATA, BSS
    <3>4. 0 <= SizeOf(ws, next)
      BY <3>2, HalfWord
    <3> QED BY <3>1, <3>3, <3>4
  <2> QED BY <1>2, <2>1, <2>2
<1>9. Reached(ws, c)'
  BY <1>1, <1>2, <1>6, <1>7, <1>8 DEF Reached, EndsAt, Shown
<1> QED BY <1>1, <1>9

(* The loops end when every row is printed. *)
LEMMA EndReached ==
    ASSUME NEW ws \in Seq(Nat), IsOverlay(ws), Holds(ws), mode \in Modes,
           NEW c \in Nat, c <= Amount(ws, mode), Reached(ws, c), PrintEnds
    PROVE  c = Amount(ws, mode)
<1>1. at = "print" /\ ovl.relocations = TableOf(ws) /\ sec \in 0 .. 4
  BY DEF PrintEnds, Holds
<1>2. CASE mode = "sections"
  BY <1>1, <1>2 DEF PrintEnds, Reached, Amount, SectionIds
<1>3. CASE mode = "relocations"
  <2>1. n >= CountOf(ws) /\ c = n /\ Amount(ws, mode) = CountOf(ws)
    BY <1>1, <1>3, TableFacts DEF PrintEnds, Reached, Amount
  <2> QED BY <2>1, HeaderFacts
<1>4. CASE mode = "text"
  <2>1. sec = DATA /\ n = 0 /\ 4 * c = StartOf(ws, sec) + n
    BY <1>4 DEF PrintEnds, Reached, EndsAt
  <2> QED BY <1>4, <2>1, Shares DEF Amount
<1>5. CASE mode = "all"
  <2>1. sec = BSS /\ n = 0 /\ 4 * c = StartOf(ws, sec) + n
    BY <1>5 DEF PrintEnds, Reached, EndsAt
  <2> QED BY <1>5, <2>1, Shares DEF Amount
<1> QED BY <1>2, <1>3, <1>4, <1>5 DEF Modes
-----------------------------------------------------------------------------
LEMMA InputsKept ==
    ASSUME [Next]_vars
    PROVE  disk' = disk /\ mode' = mode /\ base_addr' = base_addr
  BY DEF Next, vars, CannotRead, Read, Refuse, GetHeader, CopyRelocation, CopyEnds,
         MakeSection, Loaded, ListSection, ListRelocation, DisassembleWord,
         DisassembleNext, PrintEnds, PrintFrame, Free, Ended, Inputs

(* The file in turn is one of the overlays, and the object holds it. *)
LEMMA InTurn ==
    ASSUME LoadInvariant, AllOverlays, at \in Active \cup {"open"}
    PROVE  /\ disk \in Seq(Files) /\ which \in 1 .. Len(disk)
           /\ outcome = "running"
           /\ words = disk[which].words
           /\ words \in Seq(Nat) /\ IsOverlay(words) /\ Holds(words)
<1>1. /\ Turn /\ which <= Len(disk) /\ outcome = "running" /\ which \in 1 .. Len(disk)
  BY FileFacts DEF LoadInvariant, Turn
<1>2. Overlay(disk[which])
  BY <1>1 DEF AllOverlays
<1> QED BY <1>1, <1>2, FileFacts DEF LoadInvariant, Overlay, words

LEMMA PrintingStarts ==
    ASSUME LoadInvariant, RowsInvariant, AllOverlays, Loaded
    PROVE  at' = "print" /\ Printing(words)'
<1>1. /\ at = "sections" /\ at' = "print" /\ sec' = 0 /\ n' = 0 /\ address' = base_addr
      /\ which' = which /\ printed' = printed
      /\ disk' = disk /\ mode' = mode /\ base_addr' = base_addr
      /\ words' = words
  BY DEF Loaded, Inputs, words
<1>2. /\ disk \in Seq(Files) /\ which \in 1 .. Len(disk)
      /\ words \in Seq(Nat) /\ IsOverlay(words)
  BY <1>1, InTurn DEF Active
<1>3. PICK ws \in Seq(Nat) : ws = words
  BY <1>2
<1>4. Amount(ws, mode) \in Nat
  BY <1>2, <1>3, RowsAre DEF RowsInvariant
<1>5. Reached(ws, 0)'
  <2>1. base_addr = (base_addr + 4 * 0) % Word
    <3>1. base_addr \in Nat /\ base_addr < Word /\ Word \in Nat \ {0}
      BY Spans DEF RowsInvariant, Words
    <3>2. base_addr % Word = base_addr
      BY <3>1, SmallMod
    <3> QED BY <3>1, <3>2
  <2>2. StartOf(ws, 0) = 0 /\ 0 <= SizeOf(ws, 0)
    BY <1>2, <1>3, Shares DEF TEXT
  <2>3. mode \in {"text", "all"} => 0 \in Shown
    BY DEF Shown, TEXT
  <2> QED BY <1>1, <2>1, <2>2, <2>3 DEF Reached, Shown
<1>6. printed = Done(disk, mode, base_addr, which - 1)
                   \o SubSeq(LoaderRows(ws, mode, base_addr), 1, 0)
  <2> DEFINE D == Done(disk, mode, base_addr, which - 1)
             R == LoaderRows(ws, mode, base_addr)
  <2>1. D \in Seq(RowSet(disk, mode, base_addr))
    <3>1. which - 1 \in 0 .. Len(disk) /\ mode \in Modes
      BY <1>2 DEF RowsInvariant
    <3> QED BY <1>2, <3>1, DoneRows DEF AllOverlays
  <2>2. printed = D
    BY <1>1 DEF RowsInvariant
  <2> HIDE DEF D, R
  <2>3. SubSeq(R, 1, 0) = <<>> /\ D \o <<>> = D
    BY <2>1, SubSeqEmpty, ConcatEmptySeq
  <2> QED BY <2>2, <2>3 DEF D, R
<1>7. Printing(ws)'
  <2>1. 0 \in Nat /\ 0 <= Amount(ws, mode')
    BY <1>1, <1>4
  <2> QED BY <1>1, <1>5, <1>6, <2>1 DEF Printing
<1> QED BY <1>1, <1>3, <1>7

LEMMA PrintingGoesOn ==
    ASSUME LoadInvariant, RowsInvariant, AllOverlays,
           ListSection \/ ListRelocation \/ DisassembleWord \/ DisassembleNext
    PROVE  at' = "print" /\ Printing(words)'
<1>1. /\ at = "print" /\ which' = which
      /\ disk' = disk /\ mode' = mode /\ base_addr' = base_addr
      /\ words' = words
  BY DEF ListSection, ListRelocation, DisassembleWord, DisassembleNext, PrintFrame, Inputs,
         words
<1>2. /\ disk \in Seq(Files) /\ which \in 1 .. Len(disk) /\ words = disk[which].words
      /\ words \in Seq(Nat) /\ IsOverlay(words) /\ Holds(words)
      /\ mode \in Modes /\ base_addr \in Words
      /\ \A j \in 1 .. Len(disk) : Overlay(disk[j])
  BY <1>1, InTurn DEF Active, RowsInvariant, AllOverlays
<1>3. PICK ws \in Seq(Nat) : ws = words
  BY <1>2
<1> DEFINE S == RowSet(disk, mode, base_addr)
           D == Done(disk, mode, base_addr, which - 1)
           R == LoaderRows(ws, mode, base_addr)
<1>4. D \in Seq(S) /\ R \in Seq(S) /\ Len(R) = Amount(ws, mode)
  <2>1. which - 1 \in 0 .. Len(disk)
    BY <1>2
  <2>2. D \in Seq(S)
    BY <1>2, <2>1, DoneRows
  <2>3. R \in Seq(S)
    BY <1>2, <1>3, RowsOfFile
  <2>4. Len(R) = Amount(ws, mode)
    <3>1. IsOverlay(ws) /\ mode \in Modes
      BY <1>2, <1>3
    <3> QED BY <3>1, RowsAre
  <2> QED BY <2>2, <2>3, <2>4
<1>5. PICK c \in Nat : /\ c <= Amount(ws, mode) /\ Reached(ws, c)
                       /\ printed = D \o SubSeq(R, 1, c)
  BY <1>1, <1>3 DEF RowsInvariant, Printing
<1>6. at' = "print"
  <2>1. Holds(ws) /\ IsOverlay(ws) /\ words = ws
    BY <1>2, <1>3
  <2>2. at' # "undefined"
    BY <2>1, PrintKept
  <2> QED BY <1>1, <2>2
       DEF ListSection, ListRelocation, DisassembleWord, DisassembleNext, Undefined
<1>7. CASE ListSection \/ ListRelocation \/ DisassembleWord
  <2>1. c < Amount(ws, mode) /\ Reached(ws, c + 1)' /\ printed' = Append(printed, R[c + 1])
    BY <1>1, <1>2, <1>3, <1>5, <1>7, SectionListed, RelocationListed, WordShown
  <2> HIDE DEF S, D, R
  <2>2. printed' = D \o SubSeq(R, 1, c + 1)
    BY <1>4, <1>5, <2>1, AppendRow
  <2>3. c + 1 \in Nat /\ c + 1 <= Amount(ws, mode)
    <3>1. Amount(ws, mode) \in Nat
      BY <1>2, <1>3, RowsAre
    <3> QED BY <2>1, <3>1
  <2>4. Printing(ws)'
    BY <1>1, <2>1, <2>2, <2>3 DEF Printing, D, R
  <2> QED BY <1>1, <1>3, <1>6, <2>4
<1>8. CASE DisassembleNext
  <2>1. printed' = printed /\ Reached(ws, c)'
    BY <1>2, <1>3, <1>5, <1>8, SectionShown
  <2>2. Printing(ws)'
    BY <1>1, <1>5, <2>1 DEF Printing
  <2> QED BY <1>1, <1>3, <1>6, <2>2
<1> QED BY <1>7, <1>8

LEMMA PrintingEnds ==
    ASSUME LoadInvariant, RowsInvariant, AllOverlays, PrintEnds
    PROVE  printed = Done(disk, mode, base_addr, which)
<1>1. at = "print"
  BY DEF PrintEnds
<1>2. /\ disk \in Seq(Files) /\ which \in 1 .. Len(disk) /\ words = disk[which].words
      /\ words \in Seq(Nat) /\ IsOverlay(words) /\ Holds(words)
      /\ mode \in Modes
      /\ \A j \in 1 .. Len(disk) : Overlay(disk[j])
  BY <1>1, InTurn DEF Active, RowsInvariant, AllOverlays
<1>3. PICK ws \in Seq(Nat) : ws = words
  BY <1>2
<1>4. PICK c \in Nat :
          /\ c <= Amount(ws, mode) /\ Reached(ws, c)
          /\ printed = Done(disk, mode, base_addr, which - 1)
                           \o SubSeq(LoaderRows(ws, mode, base_addr), 1, c)
  BY <1>1, <1>3 DEF RowsInvariant, Printing
<1>5. c = Amount(ws, mode)
  BY <1>2, <1>3, <1>4, EndReached
<1>6. Done(disk, mode, base_addr, which - 1)
         \o SubSeq(LoaderRows(disk[which].words, mode, base_addr), 1, Amount(disk[which].words, mode))
      = Done(disk, mode, base_addr, which)
  BY <1>2, DoneWhole
<1> QED BY <1>2, <1>3, <1>4, <1>5, <1>6

LEMMA RowsStart == Init => RowsInvariant
<1> SUFFICES ASSUME Init
             PROVE  RowsInvariant
  OBVIOUS
<1>1. base_addr \in Words /\ mode \in Modes
  BY Named DEF Init
<1>2. which - 1 = 0 /\ printed = <<>> /\ at = "open" /\ outcome = "running"
  BY DEF Init, Start
<1> QED BY <1>1, <1>2, NoneDone DEF RowsInvariant

LEMMA RowsKept ==
    ASSUME LoadInvariant, RowsInvariant, [Next]_vars
    PROVE  RowsInvariant'
<1>1. disk' = disk /\ mode' = mode /\ base_addr' = base_addr
  BY InputsKept
<1>2. SUFFICES ASSUME AllOverlays
               PROVE  /\ at' \in {"open", "header", "relocs", "sections"} =>
                            printed' = Done(disk, mode, base_addr, which' - 1)
                      /\ at' = "print" => Printing(words)'
                      /\ at' = "free" => printed' = Done(disk, mode, base_addr, which')
                      /\ outcome' = "ok" => printed' = Done(disk, mode, base_addr, Len(disk))
  <2>1. AllOverlays' <=> AllOverlays
    BY <1>1 DEF AllOverlays
  <2> QED BY <1>1, <2>1 DEF RowsInvariant
<1>3. at \in Active \cup {"open"} => outcome = "running" /\ which \in 1 .. Len(disk)
  BY <1>2, InTurn
<1>4. at \in {"open", "header", "relocs", "sections"} =>
         printed = Done(disk, mode, base_addr, which - 1)
  BY <1>2 DEF RowsInvariant
<1>5. CASE CannotRead \/ Read \/ Refuse \/ GetHeader
  BY <1>3, <1>4, <1>5 DEF CannotRead, Read, Refuse, GetHeader, Exit, Undefined, Active
<1>6. CASE CopyRelocation \/ CopyEnds \/ MakeSection
  BY <1>3, <1>4, <1>6 DEF CopyRelocation, CopyEnds, MakeSection, Undefined, Active
<1>7. CASE Loaded
  <2>1. outcome' = "running"
    BY <1>3, <1>7 DEF Loaded, Active
  <2> QED BY <1>2, <1>7, <2>1, PrintingStarts
<1>8. CASE ListSection \/ ListRelocation \/ DisassembleWord \/ DisassembleNext
  <2>1. outcome' = "running"
    BY <1>3, <1>8
       DEF ListSection, ListRelocation, DisassembleWord, DisassembleNext, Undefined, Active
  <2> QED BY <1>2, <1>8, <2>1, PrintingGoesOn
<1>9. CASE PrintEnds
  <2>1. /\ at' = "free" /\ outcome' = "running" /\ printed' = printed /\ which' = which
    BY <1>3, <1>9 DEF PrintEnds, PrintFrame, Active
  <2> QED BY <1>2, <1>9, <2>1, PrintingEnds
<1>10. CASE Free
  <2>1. /\ printed' = printed /\ printed = Done(disk, mode, base_addr, which)
        /\ which' = which + 1 /\ which \in 1 .. Len(disk) /\ outcome = "running"
    BY <1>2, <1>3, <1>10 DEF Free, RowsInvariant, Active
  <2>2. which' - 1 = which
    BY <2>1
  <2>3. CASE which < Len(disk)
    BY <1>10, <2>1, <2>2, <2>3 DEF Free
  <2>4. CASE which = Len(disk)
    <3>1. at' = "exit"
      BY <1>10, <2>4 DEF Free, Exit
    <3> QED BY <2>1, <2>4, <3>1
  <2> QED BY <2>1, <2>3, <2>4
<1>11. CASE Ended \/ UNCHANGED vars
  <2>1. UNCHANGED vars
    BY <1>11 DEF Ended
  <2>2. words' = words
    BY <2>1 DEF vars, words
  <2>3. \A ws : Printing(ws) => Printing(ws)'
    BY <2>1 DEF vars, Printing, Reached, Shown, EndsAt
  <2> QED BY <1>2, <1>4, <2>1, <2>2, <2>3 DEF RowsInvariant, vars
<1> QED BY <1>5, <1>6, <1>7, <1>8, <1>9, <1>10, <1>11 DEF Next

THEOREM PrintingInvariant == Spec => []RowsInvariant
  BY RowsStart, RowsKept, LoadingInvariant, PTL DEF Spec

(* What is asked of the first k files. *)
Wanted(files, m, base, k) == FlattenSeq([j \in 1 .. k |-> Rows(files[j].words, m, base)])

(* Rows are what is asked for, and those of a listing come in fours. *)
Answers(m, rows, want) ==
    /\ Len(rows) \in Nat /\ (m = "sections" => Len(rows) % 4 = 0)
    /\ want = BssAnywhere(m, rows)

LEMMA FileAnswers ==
    ASSUME NEW ws \in Seq(Nat), IsOverlay(ws), NEW m \in Modes, NEW base
    PROVE  Answers(m, LoaderRows(ws, m, base), Rows(ws, m, base))
<1>1. Len(LoaderRows(ws, m, base)) = Amount(ws, m) /\ Amount(ws, m) \in Nat
  BY RowsAre
<1>2. CASE m = "sections"
  <2>1. /\ LoaderRows(ws, m, base) = LoaderSectionRows(ws, base)
        /\ Rows(ws, m, base) = SectionRows(ws, base) /\ Amount(ws, m) = 4
    BY <1>2 DEF LoaderRows, Rows, Amount
  <2>2. \A q \in 1 .. 4 :
           SectionRows(ws, base)[q] = IF q % 4 = 0 THEN <<Anywhere, LoaderSectionRows(ws, base)[q][2]>>
                                      ELSE LoaderSectionRows(ws, base)[q]
    <3>1. \A q \in 1 .. 4 : q % 4 = 0 <=> q - 1 = BSS
      BY DEF BSS
    <3> QED BY <3>1 DEF SectionRows, LoaderSectionRows
  <2>3. SectionRows(ws, base) = [q \in 1 .. 4 |-> SectionRows(ws, base)[q]]
    BY DEF SectionRows
  <2>4. BssAnywhere(m, LoaderSectionRows(ws, base))
           = [q \in 1 .. 4 |-> IF q % 4 = 0 THEN <<Anywhere, LoaderSectionRows(ws, base)[q][2]>>
                               ELSE LoaderSectionRows(ws, base)[q]]
    BY <1>1, <1>2, <2>1 DEF BssAnywhere
  <2>5. SectionRows(ws, base) = BssAnywhere(m, LoaderSectionRows(ws, base))
    BY <2>2, <2>3, <2>4
  <2> QED BY <1>1, <2>1, <2>5 DEF Answers
<1>3. CASE m # "sections"
  <2> DEFINE R == LoaderRows(ws, m, base)
  <2>1. Rows(ws, m, base) = R
    <3>1. m \in {"relocations", "text", "all"}
      BY <1>3 DEF Modes
    <3> QED BY <3>1 DEF Rows, LoaderRows
  <2>2. BssAnywhere(m, R) = [q \in 1 .. Len(R) |-> R[q]]
    BY <1>3 DEF BssAnywhere
  <2>3. R \in Seq({R[q] : q \in 1 .. Amount(ws, m)})
    BY RowsAre
  <2> HIDE DEF R
  <2>4. R = [q \in 1 .. Len(R) |-> R[q]]
    BY <2>3
  <2> QED BY <1>1, <1>3, <2>1, <2>2, <2>4 DEF Answers, R
<1> QED BY <1>2, <1>3

LEMMA BothAnswer ==
    ASSUME NEW S, NEW m, NEW a \in Seq(S), NEW b \in Seq(S), NEW p, NEW q,
           Answers(m, a, p), Answers(m, b, q)
    PROVE  Answers(m, a \o b, p \o q)
<1> DEFINE At(r, k) == IF m = "sections" /\ k % 4 = 0 THEN <<Anywhere, r[k][2]>> ELSE r[k]
           T == {At(a, k) : k \in 1 .. Len(a)} \cup {At(b, k) : k \in 1 .. Len(b)}
<1>1. p = [k \in 1 .. Len(a) |-> At(a, k)] /\ q = [k \in 1 .. Len(b) |-> At(b, k)]
  BY DEF Answers, BssAnywhere
<1>2. /\ Len(a) \in Nat /\ Len(b) \in Nat /\ a \o b \in Seq(S)
      /\ Len(a \o b) = Len(a) + Len(b)
      /\ \A k \in 1 .. Len(a) : (a \o b)[k] = a[k]
      /\ \A k \in 1 .. Len(b) : (a \o b)[Len(a) + k] = b[k]
  OBVIOUS
<1>3. p \in [1 .. Len(a) -> T] /\ q \in [1 .. Len(b) -> T]
  <2> HIDE DEF At
  <2> QED BY <1>1
<1> HIDE DEF T, At
<1>4. p \in Seq(T) /\ Len(p) = Len(a) /\ q \in Seq(T) /\ Len(q) = Len(b)
  <2>1. \A l \in Nat : \A f \in [1 .. l -> T] : f \in Seq(T) /\ Len(f) = l
    OBVIOUS
  <2>2. Len(a) \in Nat /\ Len(b) \in Nat
    BY <1>2
  <2> QED BY <1>3, <2>1, <2>2
<1>5. /\ p \o q \in Seq(T) /\ Len(p \o q) = Len(a) + Len(b)
      /\ \A k \in 1 .. Len(a) : (p \o q)[k] = p[k]
      /\ \A k \in 1 .. Len(b) : (p \o q)[Len(a) + k] = q[k]
  <2>1. /\ p \o q \in Seq(T) /\ Len(p \o q) = Len(p) + Len(q)
        /\ \A k \in 1 .. Len(p) : (p \o q)[k] = p[k]
        /\ \A k \in 1 .. Len(q) : (p \o q)[Len(p) + k] = q[k]
    <3>1. p \in Seq(T) /\ q \in Seq(T)
      BY <1>4
    <3>2. /\ p \o q \in Seq(T) /\ Len(p \o q) = Len(p) + Len(q)
          /\ \A k \in 1 .. Len(p) + Len(q) :
                (p \o q)[k] = IF k <= Len(p) THEN p[k] ELSE q[k - Len(p)]
      BY <3>1, ConcatProperties
    <3>3. ASSUME NEW k \in 1 .. Len(q) PROVE (p \o q)[Len(p) + k] = q[k]
      <4>1. Len(p) \in Nat /\ Len(q) \in Nat
        BY <3>1
      <4>2. \A x, y \in Nat : \A z \in 1 .. y :
               x + z \in 1 .. x + y /\ ~(x + z <= x) /\ (x + z) - x = z
        OBVIOUS
      <4> QED BY <3>2, <4>1, <4>2
    <3>4. ASSUME NEW k \in 1 .. Len(p) PROVE (p \o q)[k] = p[k]
      <4>1. Len(p) \in Nat /\ Len(q) \in Nat
        BY <3>1
      <4>2. \A x, y \in Nat : \A z \in 1 .. x : z \in 1 .. x + y /\ z <= x
        OBVIOUS
      <4> QED BY <3>2, <4>1, <4>2
    <3> QED BY <3>2, <3>3, <3>4
  <2> QED BY <1>4, <2>1
<1>6. m = "sections" => Len(a) % 4 = 0 /\ Len(b) % 4 = 0
  BY DEF Answers
<1>7. ASSUME NEW k \in 1 .. (Len(a) + Len(b))
      PROVE  (p \o q)[k] = At(a \o b, k)
  <2>1. CASE k \in 1 .. Len(a)
    <3>1. (p \o q)[k] = At(a, k) /\ (a \o b)[k] = a[k]
      BY <1>1, <1>2, <1>5, <2>1
    <3> QED BY <3>1 DEF At
  <2>2. CASE k \notin 1 .. Len(a)
    <3>1. PICK j \in 1 .. Len(b) : k = Len(a) + j
      <4>1. Len(a) \in Nat /\ Len(b) \in Nat
        BY <1>2
      <4>2. \A x, y \in Nat : \A z \in 1 .. (x + y) :
               z \notin 1 .. x => z - x \in 1 .. y /\ z = x + (z - x)
        OBVIOUS
      <4> QED BY <2>2, <4>1, <4>2
    <3>2. (p \o q)[k] = At(b, j) /\ (a \o b)[k] = b[j]
      BY <1>1, <1>2, <1>5, <3>1
    <3>3. m = "sections" => (k % 4 = 0 <=> j % 4 = 0)
      <4>1. \A x, y \in Nat : x % 4 = 0 => ((x + y) % 4 = 0 <=> y % 4 = 0)
        OBVIOUS
      <4>2. Len(a) \in Nat /\ j \in Nat
        BY <1>2, <3>1
      <4> QED BY <1>6, <3>1, <4>1, <4>2
    <3> QED BY <3>2, <3>3 DEF At
  <2> QED BY <2>1, <2>2
<1>8. p \o q = BssAnywhere(m, a \o b)
  <2>1. p \o q = [k \in 1 .. (Len(a) + Len(b)) |-> (p \o q)[k]]
    <3>1. \A f \in Seq(T) : f = [k \in 1 .. Len(f) |-> f[k]]
      OBVIOUS
    <3> QED BY <1>5, <3>1
  <2>2. BssAnywhere(m, a \o b) = [k \in 1 .. (Len(a) + Len(b)) |-> At(a \o b, k)]
    BY <1>2 DEF BssAnywhere, At
  <2> QED BY <1>7, <2>1, <2>2
<1>9. m = "sections" => Len(a \o b) % 4 = 0
  <2>1. \A x, y \in Nat : x % 4 = 0 /\ y % 4 = 0 => (x + y) % 4 = 0
    OBVIOUS
  <2> QED BY <1>2, <1>6, <2>1
<1> QED BY <1>2, <1>8, <1>9 DEF Answers

LEMMA WantedMore ==
    ASSUME NEW files \in Seq(Files), NEW m, NEW base, NEW k \in Nat, k < Len(files)
    PROVE  /\ Wanted(files, m, base, k + 1) =
                 IF k = 0 THEN Rows(files[k + 1].words, m, base)
                 ELSE Wanted(files, m, base, k) \o Rows(files[k + 1].words, m, base)
           /\ Wanted(files, m, base, 0) = <<>>
<1> DEFINE s == [j \in 1 .. k |-> Rows(files[j].words, m, base)]
           t == [j \in 1 .. (k + 1) |-> Rows(files[j].words, m, base)]
           none == [j \in 1 .. 0 |-> Rows(files[j].words, m, base)]
<1>1. Len(s) = k /\ Len(t) = k + 1 /\ none = <<>>
  OBVIOUS
<1>2. \A i \in 1 .. k : s[i] = t[i]
  OBVIOUS
<1>3. t[k + 1] = Rows(files[k + 1].words, m, base) /\ (k = 0 => t[1] = t[k + 1])
  OBVIOUS
<1>4. Len(none) = 0
  BY <1>1
<1>5. /\ Wanted(files, m, base, k + 1) = FlattenSeq(t) /\ Wanted(files, m, base, k) = FlattenSeq(s)
      /\ Wanted(files, m, base, 0) = FlattenSeq(none)
  BY DEF Wanted
<1> HIDE DEF s, t, none
<1>6. FlattenSeq(t) = IF k = 0 THEN t[1] ELSE FlattenSeq(s) \o t[k + 1]
  BY <1>1, <1>2, FlattenMore
<1>7. FlattenSeq(none) = none
  BY <1>4 DEF FlattenSeq
<1> QED BY <1>1, <1>3, <1>5, <1>6, <1>7

LEMMA AllAnswer ==
    ASSUME NEW files \in Seq(Files), files # <<>>,
           \A j \in 1 .. Len(files) : Overlay(files[j]),
           NEW m \in Modes, NEW base, NEW k \in 1 .. Len(files)
    PROVE  Answers(m, Done(files, m, base, k), Wanted(files, m, base, k))
<1> DEFINE S == RowSet(files, m, base)
           Bad == {j \in 1 .. Len(files) :
                      ~Answers(m, Done(files, m, base, j), Wanted(files, m, base, j))}
<1>1. SUFFICES ASSUME Bad # {} PROVE FALSE
  OBVIOUS
<1>2. PICK j \in Bad : \A q \in Bad : j <= q
  <2>1. Bad \subseteq Nat
    OBVIOUS
  <2> HIDE DEF Bad
  <2> QED BY <1>1, <2>1, LeastNat
<1>3. PICK l \in Nat : j = l + 1 /\ l < Len(files)
  BY <1>2
<1>4. Answers(m, LoaderRows(files[l + 1].words, m, base), Rows(files[l + 1].words, m, base))
      /\ LoaderRows(files[l + 1].words, m, base) \in Seq(S)
  <2>1. l + 1 \in 1 .. Len(files)
    BY <1>3
  <2> HIDE DEF S
  <2> QED BY <2>1, RowsOfFile, FileAnswers DEF S
<1>5. CASE l = 0
  <2>1. /\ Done(files, m, base, l + 1) = LoaderRows(files[l + 1].words, m, base)
        /\ Wanted(files, m, base, l + 1) = Rows(files[l + 1].words, m, base)
    BY <1>3, <1>5, DoneMore, WantedMore
  <2> QED BY <1>2, <1>3, <1>4, <2>1
<1>6. CASE l # 0
  <2>1. l \in 1 .. Len(files) /\ l \notin Bad
    BY <1>2, <1>3, <1>6
  <2>2. Answers(m, Done(files, m, base, l), Wanted(files, m, base, l))
    BY <2>1
  <2>3. Done(files, m, base, l) \in Seq(S)
    BY <2>1, DoneRows
  <2>4. /\ Done(files, m, base, l + 1)
              = Done(files, m, base, l) \o LoaderRows(files[l + 1].words, m, base)
        /\ Wanted(files, m, base, l + 1)
              = Wanted(files, m, base, l) \o Rows(files[l + 1].words, m, base)
    BY <1>3, <1>6, DoneMore, WantedMore
  <2> HIDE DEF S
  <2>5. Answers(m, Done(files, m, base, l + 1), Wanted(files, m, base, l + 1))
    BY <1>4, <2>2, <2>3, <2>4, BothAnswer
  <2> QED BY <1>2, <1>3, <2>5
<1> QED BY <1>5, <1>6

(* A process that ends well has printed every overlay named, in the order they
   are named and in full, in each mode and at every base address: no row is
   missing or printed twice, every section with contents is listed where it is,
   and the address in -d and -D, which runs on from section to section, is that of
   the word (main.c:100-129, 155-168, 197-210). *)
THEOREM Printed == Spec => []PrintsEverything
<1>1. LoadInvariant /\ RowsInvariant => PrintsEverything
  <2> SUFFICES ASSUME LoadInvariant, RowsInvariant, outcome = "ok", AllOverlays
               PROVE  BssAnywhere(mode, printed) = Wanted(disk, mode, base_addr, Len(disk))
    BY DEF PrintsEverything, AllOverlays, Wanted
  <2>1. printed = Done(disk, mode, base_addr, Len(disk)) /\ mode \in Modes
    BY DEF RowsInvariant
  <2>2. disk \in Seq(Files) /\ disk # <<>>
    BY Named DEF LoadInvariant, Turn
  <2>3. Len(disk) \in 1 .. Len(disk)
    BY <2>2
  <2>4. Answers(mode, Done(disk, mode, base_addr, Len(disk)),
                Wanted(disk, mode, base_addr, Len(disk)))
    BY <2>1, <2>2, <2>3, AllAnswer DEF AllOverlays
  <2> QED BY <2>1, <2>4 DEF Answers
<1> QED BY <1>1, PrintingInvariant, LoadingInvariant, PTL

=============================================================================
