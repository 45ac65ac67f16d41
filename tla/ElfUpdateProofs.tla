---------------------------- MODULE ElfUpdateProofs ----------------------------
(***************************************************************************)
(* What holds of a descriptor after any sequence of calls, for every file, *)
(* every header and buffer a program may put into it, and any number of    *)
(* sections.                                                               *)
(***************************************************************************)
EXTENDS ElfUpdateProperties, FiniteSetTheorems, TLAPS

Flags == {"layout", "overlap", "dirty"}

(* The sections a descriptor may have made: 0, 1 and so on. *)
Tables == UNION {[0 .. n - 1 -> SectionRecords] : n \in Nat}

Elfs ==
    [class : {32, 64}, readable : BOOLEAN, ehdr : BOOLEAN, size : Nat, image : SUBSET Pieces,
     phnum : Nat, e_phnum : Nat, e_shnum : Nat, e_shstrndx : Nat, e_phoff : Nat, e_shoff : Nat,
     scns : Seq(Nat), last : Int, scn : Tables, flags : SUBSET Flags, dirty : BOOLEAN]

(* The list of a descriptor: its numbers are the places, and it ends with e_scn_n.
   Section 0 is malloc'ed by itself, or is the block of those read from the file. *)
Sound(e) ==
    /\ e \in Elfs
    /\ \A p \in DOMAIN e.scns : e.scns[p] \in DOMAIN e.scn /\ e.scn[e.scns[p]].index = p - 1
    /\ \A p, q \in DOMAIN e.scns : e.scns[p] = e.scns[q] => p = q
    /\ IF e.scns = <<>> THEN e.last = Null /\ DOMAIN e.scn = {}
       ELSE e.last = e.scns[Len(e.scns)] /\ e.scns[1] = 0 /\ e.scn[0].new

(* All that is allocated for the sections of the list. *)
Held(e) == UNION {OfScn(e, e.scns[p]) : p \in DOMAIN e.scns}

(* The lists and what is allocated are the same. *)
Alike(e, f) ==
    /\ f.scns = e.scns /\ f.last = e.last /\ DOMAIN f.scn = DOMAIN e.scn
    /\ \A id \in DOMAIN e.scn :
           LET s == e.scn[id] t == f.scn[id]
           IN  /\ t.index = s.index /\ t.new = s.new /\ Len(t.data) = Len(s.data)
               /\ \A k \in 1 .. Len(s.data) : t.data[k].new = s.data[k].new

-----------------------------------------------------------------------------
LEMMA ElementOf ==
    ASSUME NEW R, NEW s \in Seq(R), NEW i \in 1 .. Len(s)
    PROVE  s[i] \in R
  OBVIOUS

LEMMA AppendIs ==
    ASSUME NEW s \in Seq(Nat), NEW n \in Nat
    PROVE  /\ Append(s, n) \in Seq(Nat) /\ Append(s, n) # <<>> /\ Len(s) \in Nat
           /\ Len(Append(s, n)) = Len(s) + 1 /\ DOMAIN Append(s, n) = 1 .. Len(s) + 1
           /\ Append(s, n)[Len(s) + 1] = n
           /\ \A p \in 1 .. Len(s) : Append(s, n)[p] = s[p]
  OBVIOUS

LEMMA DataAppended ==
    ASSUME NEW s \in Seq(Datas), NEW d \in Datas
    PROVE  /\ Append(s, d) \in Seq(Datas) /\ Len(s) \in Nat
           /\ Len(Append(s, d)) = Len(s) + 1 /\ DOMAIN Append(s, d) = 1 .. Len(s) + 1
           /\ Append(s, d)[Len(s) + 1] = d
           /\ \A p \in 1 .. Len(s) : Append(s, d)[p] = s[p]
  OBVIOUS

LEMMA TableType ==
    ASSUME NEW t \in Tables
    PROVE  \E n \in Nat : /\ DOMAIN t = 0 .. n - 1
                          /\ t \in [0 .. n - 1 -> SectionRecords]
                          /\ Cardinality(DOMAIN t) = n
<1>1. PICK n \in Nat : t \in [0 .. n - 1 -> SectionRecords]
  BY DEF Tables
<1>2. Cardinality(0 .. n - 1) = n
  BY FS_Interval
<1> QED BY <1>1, <1>2

LEMMA TableIs ==
    ASSUME NEW n \in Nat, NEW t \in [0 .. n - 1 -> SectionRecords]
    PROVE  t \in Tables
  BY DEF Tables

(* A table of the same sections. *)
LEMMA TableKept ==
    ASSUME NEW t \in Tables, NEW u, u \in [DOMAIN t -> SectionRecords]
    PROVE  u \in Tables
<1>1. PICK n \in Nat : DOMAIN t = 0 .. n - 1
  BY TableType
<1> QED BY <1>1, TableIs

LEMMA ElfType ==
    ASSUME NEW e \in Elfs
    PROVE  /\ Fresh(e) \in Nat
           /\ DOMAIN e.scn = 0 .. Fresh(e) - 1
           /\ e.scn \in [0 .. Fresh(e) - 1 -> SectionRecords]
           /\ Len(e.scns) \in Nat /\ DOMAIN e.scns = 1 .. Len(e.scns)
<1>1. e.scn \in Tables /\ e.scns \in Seq(Nat)
  BY DEF Elfs
<1>2. PICK n \in Nat : /\ DOMAIN e.scn = 0 .. n - 1
                       /\ e.scn \in [0 .. n - 1 -> SectionRecords]
                       /\ Cardinality(DOMAIN e.scn) = n
  BY <1>1, TableType
<1> QED BY <1>1, <1>2 DEF Fresh

LEMMA ScnType ==
    ASSUME NEW s \in SectionRecords
    PROVE  Len(s.data) \in Nat /\ DOMAIN s.data = 1 .. Len(s.data)
  BY DEF SectionRecords

(* What is alike is as sound, and has as much allocated. *)
LEMMA AlikeSound ==
    ASSUME NEW e, NEW f, Sound(e), f \in Elfs, Alike(e, f)
    PROVE  /\ Sound(f)
           /\ \A id \in DOMAIN e.scn : OfScn(f, id) = OfScn(e, id)
           /\ Held(f) = Held(e)
<1>1. e.scns = <<>> \/ 0 \in DOMAIN e.scn
  <2>1. e.scns # <<>> => 1 \in DOMAIN e.scns
    BY ElfType DEF Sound
  <2> QED BY <2>1 DEF Sound
<1>2. Sound(f)
  BY <1>1 DEF Sound, Alike
<1>3. ASSUME NEW id \in DOMAIN e.scn PROVE OfScn(f, id) = OfScn(e, id)
  <2>1. /\ f.scn[id].new = e.scn[id].new /\ Len(f.scn[id].data) = Len(e.scn[id].data)
        /\ \A k \in 1 .. Len(e.scn[id].data) : f.scn[id].data[k].new = e.scn[id].data[k].new
    BY <1>3 DEF Alike
  <2> QED BY <2>1 DEF OfScn
<1>4. Held(f) = Held(e)
  BY <1>3 DEF Held, Alike, Sound
<1> QED BY <1>2, <1>3, <1>4

(* A descriptor changed in one or two fields is a descriptor. *)
LEMMA ScnChanged ==
    ASSUME NEW e \in Elfs, NEW t, t \in [DOMAIN e.scn -> SectionRecords]
    PROVE  [e EXCEPT !.scn = t] \in Elfs
<1>1. t \in Tables
  <2>1. e.scn \in Tables
    BY DEF Elfs
  <2> QED BY <2>1, TableKept
<1> QED BY <1>1 DEF Elfs

LEMMA InitSound ==
    ASSUME NEW class \in {32, 64}
    PROVE  Sound(InitElf(class)) /\ Held(InitElf(class)) = {} /\ InitElf(class) \in Elfs
<1> DEFINE e == InitElf(class)
<1>1. e.scn \in [0 .. 0 - 1 -> SectionRecords]
  BY DEF InitElf
<1>2. e.scn \in Tables
  <2> HIDE DEF e
  <2> QED BY <1>1, TableIs
<1>3. e \in Elfs
  BY <1>2 DEF Elfs, InitElf, Null
<1> QED BY <1>3 DEF Sound, Held, InitElf

-----------------------------------------------------------------------------
(* What a descriptor read from a file holds: one block. *)
LEMMA HeaderType ==
    ASSUME NEW f \in FileRecords, NEW i \in Nat
    PROVE  HeaderAt(f, i) \in [type : SectionTypes, link : Nat, info : Nat, offset : Nat,
                               size : Nat, addralign : Alignments]
<1> DEFINE H == [type : SectionTypes, link : Nat, info : Nat, offset : Nat, size : Nat,
                 addralign : Alignments]
<1>1. f.shdrs \in Seq(H)
  BY DEF FileRecords
<1>2. NoHeader \in H
  BY Numbers DEF NoHeader, SectionTypes
<1>3. i < Len(f.shdrs) => f.shdrs[i + 1] \in H
  <2> HIDE DEF H
  <2>1. i < Len(f.shdrs) => i + 1 \in 1 .. Len(f.shdrs)
    BY <1>1
  <2> QED BY <1>1, <2>1, ElementOf
<1> QED BY <1>2, <1>3 DEF HeaderAt

LEMMA ShnumType ==
    ASSUME NEW f \in FileRecords
    PROVE  Shnum(f) \in Nat
<1>1. HeaderAt(f, 0).size \in Nat
  BY HeaderType
<1>2. f.ehdr.shnum \in Nat
  BY DEF FileRecords
<1> QED BY <1>1, <1>2 DEF Shnum

LEMMA CookedType ==
    ASSUME NEW f \in FileRecords, NEW i \in Nat
    PROVE  /\ CookedScn(f, i) \in SectionRecords
           /\ CookedScn(f, i).index = i /\ CookedScn(f, i).new = (i = 0)
           /\ Len(CookedScn(f, i).data) = 1 /\ ~CookedScn(f, i).data[1].new
<1> DEFINE h == HeaderAt(f, i)
           d == [InitData EXCEPT !.align = h.addralign, !.size = h.size]
<1>1. h \in [type : SectionTypes, link : Nat, info : Nat, offset : Nat, size : Nat,
            addralign : Alignments]
  BY HeaderType
<1>2. d \in Datas /\ ~d.new
  BY <1>1 DEF InitData, Datas
<1>3. /\ CookedScn(f, i) = [InitScn EXCEPT !.index = i, !.new = (i = 0),
            !.type = h.type, !.link = h.link, !.info = h.info,
            !.offset = h.offset, !.size = h.size, !.addralign = h.addralign,
            !.s_type = h.type, !.s_offset = h.offset, !.s_size = h.size,
            !.data = <<d>>]
  BY DEF CookedScn
<1> HIDE DEF h, d
<1>5. <<d>> \in Seq(Datas) /\ Len(<<d>>) = 1 /\ <<d>>[1] = d
  BY <1>2
<1> DEFINE c == CookedScn(f, i)
<1>6. c.index = i /\ c.new = (i = 0) /\ c.data = <<d>>
  BY <1>3 DEF InitScn
<1>7. c \in SectionRecords
  BY ZenonT(30), <1>1, <1>3, <1>5 DEF InitScn, SectionRecords
<1> QED BY <1>2, <1>5, <1>6, <1>7

LEMMA CookSound ==
    ASSUME NEW f \in FileRecords
    PROVE  /\ Sound(Cook(f).e)
           /\ Held(Cook(f).e) = IF Cook(f).e.scns = <<>> THEN {} ELSE {<<0, 0>>}
<1> DEFINE e == [InitElf(f.class) EXCEPT !.readable = TRUE, !.size = f.len, !.image = f.data]
           h == [e EXCEPT !.ehdr = TRUE, !.e_phnum = f.ehdr.phnum, !.e_shnum = f.ehdr.shnum,
                          !.e_shstrndx = f.ehdr.shstrndx, !.e_phoff = f.ehdr.phoff,
                          !.e_shoff = f.ehdr.shoff]
           s == CookShdr(h, f)
           Good(x) == Sound(x) /\ Held(x) = IF x.scns = <<>> THEN {} ELSE {<<0, 0>>}
<1>1. f.class \in {32, 64} /\ f.len \in Nat /\ f.data \in SUBSET Pieces
      /\ f.ehdr \in [phoff : Nat, phnum : Nat, shoff : Nat, shnum : Nat, shstrndx : Nat]
      /\ Len(f.shdrs) \in Nat
  BY DEF FileRecords
<1>2. /\ e \in Elfs /\ h \in Elfs
      /\ e.scns = <<>> /\ h.scns = <<>> /\ e.scn = InitElf(f.class).scn /\ h.scn = e.scn
      /\ e.last = Null /\ h.last = Null
  <2>1. InitElf(f.class) \in Elfs
    BY <1>1, InitSound
  <2>2. e \in Elfs /\ e.scns = <<>> /\ e.last = Null /\ e.scn = InitElf(f.class).scn
    BY <1>1, <2>1 DEF Elfs, InitElf
  <2> HIDE DEF e
  <2> QED BY <1>1, <2>2 DEF Elfs
<1>3. Good(e) /\ Good(h)
  BY <1>2 DEF Sound, Held, InitElf
<1> HIDE DEF e, h
<1>4. Good(s.e)
  <2>1. CASE f.ehdr.shoff = 0 \/ ~TableFits(f) \/ Shnum(f) = 0
    BY <1>3, <2>1 DEF CookShdr
  <2>2. CASE ~(f.ehdr.shoff = 0 \/ ~TableFits(f) \/ Shnum(f) = 0)
    <3> DEFINE num == Shnum(f)
               t == [i \in 0 .. num - 1 |-> CookedScn(f, i)]
               l == [p \in 1 .. num |-> p - 1]
               x == [h EXCEPT !.scn = t, !.scns = l, !.last = num - 1]
    <3>1. s.e = x
      BY <2>2 DEF CookShdr
    <3>2. t \in Tables
      <4>1. \A i \in 0 .. num - 1 : CookedScn(f, i) \in SectionRecords
        BY CookedType
      <4> QED BY <4>1, ShnumType, TableIs
    <3>3. l \in Seq(Nat) /\ Len(l) = num /\ DOMAIN l = 1 .. num
      BY ShnumType
    <3> HIDE DEF l, t
    <3>0. num \in Nat
      BY ShnumType
    <3> HIDE DEF num
    <3>4. x \in Elfs /\ x.scn = t /\ x.scns = l /\ x.last = num - 1
      <4>1. h \in Elfs /\ t \in Tables /\ l \in Seq(Nat) /\ num - 1 \in Int
        BY <1>2, <3>2, <3>3, <3>0
      <4> QED BY <4>1 DEF Elfs
    <3> HIDE DEF x
    <3>5. \A p \in 1 .. num : l[p] = p - 1 /\ l[p] \in 0 .. num - 1
      BY <3>0 DEF l
    <3>6. DOMAIN t = 0 .. num - 1 /\ \A i \in 0 .. num - 1 :
              /\ t[i].index = i /\ t[i].new = (i = 0) /\ Len(t[i].data) = 1 /\ ~t[i].data[1].new
      BY CookedType DEF t, num
    <3>7. l = <<>> <=> num = 0
      BY <3>3, <3>0
    <3>8. num \in Nat
      BY <3>0
    <3>9. Sound(x)
      <4>1. \A p \in DOMAIN x.scns : /\ x.scns[p] \in DOMAIN x.scn
                                     /\ x.scn[x.scns[p]].index = p - 1
        BY <3>3, <3>4, <3>5, <3>6
      <4>2. \A p, q \in DOMAIN x.scns : x.scns[p] = x.scns[q] => p = q
        BY <3>3, <3>4, <3>5, <3>8
      <4>3. num = 0 => x.scns = <<>> /\ x.last = Null /\ DOMAIN x.scn = {}
        BY <3>4, <3>6, <3>7 DEF Null
      <4>4. num # 0 => /\ x.scns # <<>> /\ x.last = x.scns[Len(x.scns)]
                       /\ x.scns[1] = 0 /\ x.scn[0].new
        <5> SUFFICES ASSUME num # 0
                     PROVE  /\ x.scns # <<>> /\ x.last = x.scns[Len(x.scns)]
                            /\ x.scns[1] = 0 /\ x.scn[0].new
          OBVIOUS
        <5>1. 1 \in 1 .. num /\ num \in 1 .. num /\ 0 \in 0 .. num - 1
          BY <3>8
        <5>2. l[1] = 0 /\ l[num] = num - 1
          BY <3>5, <5>1
        <5>3. t[0].new = (0 = 0)
          BY <3>6, <5>1
        <5> QED BY <3>3, <3>4, <3>7, <5>2, <5>3
      <4> QED BY <3>4, <4>1, <4>2, <4>3, <4>4 DEF Sound
    <3>10. \A i \in 0 .. num - 1 : OfScn(x, i) = IF i = 0 THEN {<<0, 0>>} ELSE {}
      <4> SUFFICES ASSUME NEW i \in 0 .. num - 1
                   PROVE  OfScn(x, i) = IF i = 0 THEN {<<0, 0>>} ELSE {}
        OBVIOUS
      <4>1. x.scn[i].new = (i = 0) /\ {m \in 1 .. Len(x.scn[i].data) : x.scn[i].data[m].new} = {}
        BY <3>4, <3>6
      <4> QED BY ZenonT(30), <4>1 DEF OfScn
    <3>11. Held(x) = IF x.scns = <<>> THEN {} ELSE {<<0, 0>>}
      BY <3>3, <3>4, <3>5, <3>7, <3>8, <3>10 DEF Held
    <3> QED BY <3>1, <3>9, <3>11
  <2> QED BY <2>1, <2>2
<1> HIDE DEF s
<1>5. Good(CookPhdr(s.e, f).e)
  <2> DEFINE x == s.e
             num == IF f.ehdr.phnum = PN_XNUM THEN x.scn[0].info ELSE f.ehdr.phnum
  <2>1. CASE CookPhdr(x, f).e = x
    BY <1>4, <2>1
  <2>2. CASE CookPhdr(x, f).e # x
    <3>1. /\ CookPhdr(x, f).e = [x EXCEPT !.phnum = num]
          /\ f.ehdr.phnum = PN_XNUM => x.scns # <<>>
      BY <2>2 DEF CookPhdr
    <3>2. Sound(x) /\ x \in Elfs
      BY <1>4 DEF Sound
    <3>3. num \in Nat
      <4>1. x.scns # <<>> => x.scn[0] \in SectionRecords
        <5>1. x.scns # <<>> => 0 \in DOMAIN x.scn
          BY <3>2, ElfType DEF Sound
        <5> QED BY <5>1, <3>2, ElfType
      <4> QED BY <1>1, <3>1, <4>1 DEF SectionRecords
    <3> HIDE DEF num, x
    <3>4. /\ [x EXCEPT !.phnum = num] \in Elfs
          /\ [x EXCEPT !.phnum = num].scns = x.scns
          /\ Alike(x, [x EXCEPT !.phnum = num])
      BY <3>2, <3>3 DEF Elfs, Alike
    <3> QED BY <1>4, <3>1, <3>2, <3>4, AlikeSound DEF x
  <2> QED BY <2>1, <2>2
<1> QED BY <1>3, <1>4, <1>5 DEF Cook, e, h, s

-----------------------------------------------------------------------------
(* f has the sections of e, with what is allocated for them, and others. *)
Extends(e, f) ==
    /\ DOMAIN e.scn \subseteq DOMAIN f.scn
    /\ \A id \in DOMAIN e.scn : OfScn(f, id) = OfScn(e, id)

Made(e, f) == UNION {OfScn(f, id) : id \in DOMAIN f.scn \ DOMAIN e.scn}

(* What was made is in the list, and nothing went away. *)
Grown(e, f) ==
    /\ Sound(f) /\ Extends(e, f) /\ Held(f) = Held(e) \cup Made(e, f)

LEMMA AlikeGrown ==
    ASSUME NEW e, NEW f, Sound(e), f \in Elfs, Alike(e, f)
    PROVE  Grown(e, f) /\ Made(e, f) = {}
  BY SMTT(30), AlikeSound DEF Grown, Extends, Made, Alike

LEMMA GrownTwice ==
    ASSUME NEW e, NEW f, NEW g, Grown(e, f), Grown(f, g)
    PROVE  Grown(e, g)
<1>1. Extends(e, g)
  BY DEF Grown, Extends
<1>2. Made(e, g) = Made(e, f) \cup Made(f, g)
  BY DEF Grown, Extends, Made
<1> QED BY <1>1, <1>2 DEF Grown

(* Changing section id, but not its number and buffers, or the fields beside it. *)
LEMMA UpdateShnumAlike ==
    ASSUME NEW e, Sound(e), e.scns # <<>>, NEW shnum \in Nat
    PROVE  UpdateShnum(e, shnum) \in Elfs /\ Alike(e, UpdateShnum(e, shnum))
<1> DEFINE ext == shnum >= SHN_LORESERVE
           size == IF ext THEN shnum ELSE 0
           t == [e.scn EXCEPT ![0].size = size, ![0].dirty = TRUE]
           g == [e EXCEPT !.scn = t]
           num == IF ext THEN 0 ELSE shnum
           f == UpdateShnum(e, shnum)
<1>1. e \in Elfs /\ Head(e.scns) = 0 /\ 0 \in DOMAIN e.scn
  <2>1. e \in Elfs /\ e.scns[1] = 0
    BY DEF Sound
  <2>2. 1 \in DOMAIN e.scns /\ Head(e.scns) = e.scns[1]
    BY <2>1, ElfType DEF Elfs
  <2> QED BY <2>1, <2>2 DEF Sound
<1>2. e.scn \in [DOMAIN e.scn -> SectionRecords]
  BY <1>1, ElfType
<1>3. size \in Nat
  OBVIOUS
<1> HIDE DEF size
<1>4. t \in [DOMAIN e.scn -> SectionRecords]
  <2>1. [e.scn[0] EXCEPT !.size = size, !.dirty = TRUE] \in SectionRecords
    BY <1>1, <1>2, <1>3 DEF SectionRecords
  <2>2. t = [e.scn EXCEPT ![0] = [e.scn[0] EXCEPT !.size = size, !.dirty = TRUE]]
    BY <1>1, <1>2 DEF SectionRecords
  <2> QED BY <1>1, <1>2, <2>1, <2>2
<1>5. \A id \in DOMAIN e.scn : /\ t[id].index = e.scn[id].index /\ t[id].new = e.scn[id].new
                               /\ t[id].data = e.scn[id].data
  BY <1>1, <1>2 DEF SectionRecords
<1>6. f = [g EXCEPT !.e_shnum = num, !.dirty = TRUE]
  BY <1>1, <1>2 DEF UpdateShnum, Elfs, size
<1>7. g \in Elfs
  BY <1>1, <1>4, ScnChanged
<1>8. g.scn = t /\ g.scns = e.scns /\ g.last = e.last
  BY <1>1 DEF Elfs
<1>11. num \in Nat
  OBVIOUS
<1> HIDE DEF g, t, num
<1>9. f \in Elfs /\ f.scn = t /\ f.scns = e.scns /\ f.last = e.last
  BY ZenonT(30), <1>6, <1>7, <1>8, <1>11 DEF Elfs
<1>10. DOMAIN t = DOMAIN e.scn
  BY <1>4
<1> HIDE DEF f
<1> QED BY <1>5, <1>9, <1>10 DEF Alike, f

(* _makescn() makes one more section, and leaves the others and the list. *)
LEMMA MakeIs ==
    ASSUME NEW e \in Elfs, NEW index \in Nat
    PROVE  LET f == Make(e, index)
               n == Fresh(e)
           IN  /\ f \in Elfs /\ f.scns = e.scns /\ f.last = e.last
               /\ DOMAIN f.scn = 0 .. n /\ DOMAIN e.scn = 0 .. n - 1 /\ n \in Nat
               /\ \A id \in DOMAIN e.scn : f.scn[id] = e.scn[id]
               /\ f.scn[n].index = index /\ f.scn[n].new /\ f.scn[n].data = <<>>
<1> DEFINE n == Fresh(e)
           new == [InitScn EXCEPT !.index = index, !.dirty = TRUE, !.new = TRUE]
           t == [id \in DOMAIN e.scn \cup {n} |-> IF id = n THEN new ELSE e.scn[id]]
<1>1. n \in Nat /\ DOMAIN e.scn = 0 .. n - 1 /\ e.scn \in [0 .. n - 1 -> SectionRecords]
  BY ElfType
<1>2. new \in SectionRecords /\ new.index = index /\ new.new /\ new.data = <<>>
  <2>1. <<>> \in Seq(Datas)
    OBVIOUS
  <2>0. InitScn \in SectionRecords
    BY <2>1, Numbers DEF InitScn, SectionTypes, SectionRecords
  <2>2. new \in SectionRecords
    BY <2>0 DEF SectionRecords
  <2>3. new.index = index /\ new.new = TRUE /\ new.data = <<>>
    BY DEF InitScn
  <2> QED BY <2>2, <2>3
<1>3. Make(e, index) = [e EXCEPT !.scn = t]
  BY DEF Make, Elfs
<1> HIDE DEF n, new
<1>4. t \in [0 .. n -> SectionRecords] /\ DOMAIN t = 0 .. n
  BY <1>1, <1>2
<1>5. \A id \in DOMAIN e.scn : t[id] = e.scn[id]
  BY <1>1
<1>6. t[n] = new
  OBVIOUS
<1> HIDE DEF t
<1>7. t \in Tables
  <2>1. n + 1 \in Nat /\ t \in [0 .. (n + 1) - 1 -> SectionRecords]
    BY <1>1, <1>4
  <2> QED BY <2>1, TableIs
<1>8. /\ Make(e, index) \in Elfs /\ Make(e, index).scn = t
      /\ Make(e, index).scns = e.scns /\ Make(e, index).last = e.last
  BY SMTT(100), <1>3, <1>7 DEF Elfs
<1> QED BY <1>1, <1>2, <1>4, <1>5, <1>6, <1>8 DEF n

(* One more section at the end of the list. *)
LEMMA AddedGrown ==
    ASSUME NEW e, NEW f, NEW n, Sound(e), f \in Elfs, n = Fresh(e),
           f.scns = Append(e.scns, n), f.last = n, DOMAIN f.scn = 0 .. n,
           \A id \in DOMAIN e.scn :
               /\ f.scn[id].index = e.scn[id].index /\ f.scn[id].new = e.scn[id].new
               /\ Len(f.scn[id].data) = Len(e.scn[id].data)
               /\ \A k \in 1 .. Len(e.scn[id].data) :
                      f.scn[id].data[k].new = e.scn[id].data[k].new,
           f.scn[n].index = Len(e.scns), f.scn[n].new
    PROVE  Grown(e, f) /\ f.scns # <<>>
<1> DEFINE len == Len(e.scns)
<1>1. /\ n \in Nat /\ DOMAIN e.scn = 0 .. n - 1 /\ len \in Nat /\ DOMAIN e.scns = 1 .. len
      /\ e.scns \in Seq(Nat)
  BY ZenonT(30), ElfType DEF Sound, Elfs
<1>2. /\ DOMAIN f.scns = 1 .. len + 1 /\ Len(f.scns) = len + 1 /\ f.scns # <<>>
      /\ f.scns[len + 1] = n
      /\ \A p \in 1 .. len : f.scns[p] = e.scns[p]
  <2> DEFINE t == Append(e.scns, n)
  <2>1. /\ t # <<>> /\ Len(t) = Len(e.scns) + 1 /\ DOMAIN t = 1 .. Len(e.scns) + 1
        /\ t[Len(e.scns) + 1] = n /\ \A p \in 1 .. Len(e.scns) : t[p] = e.scns[p]
    BY <1>1, AppendIs
  <2> QED BY <2>1
<1>3. \A p \in 1 .. len : e.scns[p] \in 0 .. n - 1
  BY <1>1 DEF Sound
<1>4. ASSUME NEW p \in DOMAIN f.scns
      PROVE  f.scns[p] \in DOMAIN f.scn /\ f.scn[f.scns[p]].index = p - 1
  <2>1. CASE p = len + 1
    <3>1. f.scns[p] = n /\ n \in 0 .. n /\ f.scn[n].index = len /\ len = p - 1
      BY <1>1, <1>2, <2>1
    <3> QED BY <3>1
  <2>2. CASE p \in 1 .. len
    <3>1. f.scns[p] = e.scns[p] /\ e.scns[p] \in 0 .. n - 1 /\ e.scn[e.scns[p]].index = p - 1
      BY <1>1, <1>2, <1>3, <2>2 DEF Sound
    <3> DEFINE id == e.scns[p]
    <3>2. id \in DOMAIN e.scn /\ id \in 0 .. n
      BY <1>1, <3>1
    <3>3. f.scn[id].index = e.scn[id].index
      <4> HIDE DEF id
      <4> QED BY <3>2
    <3> QED BY <3>1, <3>2, <3>3
  <2> QED BY SMTT(30), <1>1, <1>2, <2>1, <2>2
<1>5. ASSUME NEW p \in DOMAIN f.scns, NEW q \in DOMAIN f.scns, f.scns[p] = f.scns[q]
      PROVE  p = q
  <2>1. CASE p \in 1 .. len /\ q \in 1 .. len
    <3>1. e.scns[p] = e.scns[q]
      BY <1>2, <1>5, <2>1
    <3> QED BY <1>1, <2>1, <3>1 DEF Sound
  <2>2. CASE p \in 1 .. len /\ q = len + 1
    <3>1. f.scns[p] \in 0 .. n - 1 /\ f.scns[q] = n
      BY <1>2, <1>3, <2>2
    <3> QED BY <1>1, <1>5, <3>1
  <2>3. CASE q \in 1 .. len /\ p = len + 1
    <3>1. f.scns[q] \in 0 .. n - 1 /\ f.scns[p] = n
      BY <1>2, <1>3, <2>3
    <3> QED BY <1>1, <1>5, <3>1
  <2> QED BY <1>1, <1>2, <2>1, <2>2, <2>3
<1>6. f.scns[1] = 0 /\ f.scn[0].new
  <2>1. CASE e.scns = <<>>
    <3>1. n = 0 /\ len = 0
      <4>1. 0 .. n - 1 = {}
        BY <1>1, <2>1 DEF Sound
      <4>2. n > 0 => 0 \in 0 .. n - 1
        BY <1>1
      <4>3. len = 0
        BY <2>1
      <4> QED BY <1>1, <4>1, <4>2, <4>3
    <3> QED BY <1>2, <3>1
  <2>2. CASE e.scns # <<>>
    <3>1. 1 \in 1 .. len /\ e.scns[1] = 0 /\ 0 \in DOMAIN e.scn /\ e.scn[0].new
      BY <1>1, <1>3, <2>2 DEF Sound
    <3> QED BY <1>2, <3>1
  <2> QED BY <2>1, <2>2
<1>7. Sound(f)
  BY <1>2, <1>4, <1>5, <1>6 DEF Sound
<1>8. Extends(e, f)
  <2>1. ASSUME NEW id \in DOMAIN e.scn PROVE OfScn(f, id) = OfScn(e, id)
    <3>1. /\ f.scn[id].new = e.scn[id].new /\ Len(f.scn[id].data) = Len(e.scn[id].data)
          /\ \A k \in 1 .. Len(e.scn[id].data) : f.scn[id].data[k].new = e.scn[id].data[k].new
      BY <2>1
    <3> QED BY <3>1 DEF OfScn
  <2> QED BY <1>1, <2>1 DEF Extends
<1>9. Made(e, f) = OfScn(f, n)
  <2>1. DOMAIN f.scn \ DOMAIN e.scn = {n}
    BY <1>1
  <2> QED BY <2>1 DEF Made
<1>10. Held(f) = Held(e) \cup OfScn(f, n)
  <2> DEFINE Of(p) == OfScn(f, f.scns[p])
  <2>1. Held(f) = (UNION {Of(p) : p \in 1 .. len}) \cup OfScn(f, n)
    <3>1. 1 .. len + 1 = (1 .. len) \cup {len + 1}
      BY <1>1
    <3>2. Of(len + 1) = OfScn(f, n)
      BY <1>2
    <3>3. Held(f) = UNION {Of(p) : p \in (1 .. len) \cup {len + 1}}
      BY <1>2, <3>1 DEF Held
    <3> HIDE DEF Of
    <3> QED BY <3>2, <3>3
  <2>2. \A p \in 1 .. len : Of(p) = OfScn(e, e.scns[p])
    BY <1>1, <1>2, <1>3, <1>8 DEF Extends
  <2>3. Held(e) = UNION {Of(p) : p \in 1 .. len}
    <3>1. Held(e) = UNION {OfScn(e, e.scns[p]) : p \in 1 .. len}
      BY <1>1 DEF Held
    <3> HIDE DEF Of, len
    <3> QED BY <2>2, <3>1
  <2> QED BY <2>1, <2>3
<1> QED BY <1>2, <1>7, <1>8, <1>9, <1>10 DEF Grown

LEMMA FirstScnGrown ==
    ASSUME NEW e, Sound(e)
    PROVE  Grown(e, FirstScn(e)) /\ FirstScn(e).scns # <<>>
<1>1. CASE e.scns # <<>>
  <2>1. FirstScn(e) = e /\ e \in Elfs
    BY <1>1 DEF FirstScn, Sound
  <2> QED BY <1>1, <2>1, AlikeGrown DEF Alike
<1>2. CASE e.scns = <<>>
  <2> DEFINE n == Fresh(e)
             m == Make(e, 0)
             f == [m EXCEPT !.scns = <<n>>, !.last = n]
  <2>1. /\ m \in Elfs /\ DOMAIN m.scn = 0 .. n /\ DOMAIN e.scn = 0 .. n - 1 /\ n \in Nat
        /\ \A id \in DOMAIN e.scn : m.scn[id] = e.scn[id]
        /\ m.scn[n].index = 0 /\ m.scn[n].new
    <3>1. e \in Elfs /\ 0 \in Nat
      BY DEF Sound
    <3> QED BY <3>1, MakeIs
  <2> HIDE DEF m, n
  <2>2. f \in Elfs /\ f.scns = <<n>> /\ f.last = n /\ f.scn = m.scn
    <3>1. <<n>> \in Seq(Nat) /\ n \in Int
      BY <2>1
    <3> QED BY ZenonT(30), <2>1, <3>1 DEF Elfs
  <2>3. <<n>> = Append(e.scns, n) /\ Len(e.scns) = 0
    BY <1>2
  <2> HIDE DEF f
  <2>4. Grown(e, f) /\ f.scns # <<>>
    BY <2>1, <2>2, <2>3, AddedGrown DEF n
  <2>5. UpdateShnum(f, 1) \in Elfs /\ Alike(f, UpdateShnum(f, 1))
    BY <2>4, UpdateShnumAlike DEF Grown
  <2>6. Grown(f, UpdateShnum(f, 1))
    BY <2>4, <2>5, AlikeGrown DEF Grown
  <2>7. FirstScn(e) = UpdateShnum(f, 1)
    BY <1>2 DEF FirstScn, f, m, n
  <2> QED BY <2>4, <2>5, <2>6, <2>7, GrownTwice DEF Alike
<1> QED BY <1>1, <1>2

(* In a list that is sound a section has one place. *)
LEMMA PlaceIs ==
    ASSUME NEW e, Sound(e), NEW p \in 1 .. Len(e.scns)
    PROVE  Place(e, e.scns[p]) = p
<1>1. DOMAIN e.scns = 1 .. Len(e.scns)
  BY ElfType DEF Sound
<1> QED BY <1>1 DEF Place, Sound

LEMMA NotEmpty ==
    ASSUME NEW e, Sound(e), e.scns # <<>>
    PROVE  /\ e \in Elfs /\ 0 \in DOMAIN e.scn /\ e.scn[0] \in SectionRecords
           /\ Head(e.scns) = 0 /\ e.scns[1] = 0
           /\ Len(e.scns) \in Nat \ {0} /\ DOMAIN e.scns = 1 .. Len(e.scns)
           /\ e.last \in DOMAIN e.scn /\ e.last = e.scns[Len(e.scns)]
           /\ e.scn[e.last].index = Len(e.scns) - 1
<1>1. e \in Elfs /\ e.scns[1] = 0 /\ e.last = e.scns[Len(e.scns)] /\ e.scns \in Seq(Nat)
  BY DEF Sound, Elfs
<1>2. /\ Len(e.scns) \in Nat \ {0} /\ DOMAIN e.scns = 1 .. Len(e.scns)
      /\ Head(e.scns) = e.scns[1]
  BY <1>1
<1>3. 1 \in DOMAIN e.scns /\ Len(e.scns) \in DOMAIN e.scns
  BY <1>2
<1>4. /\ e.scns[1] \in DOMAIN e.scn /\ e.scns[Len(e.scns)] \in DOMAIN e.scn
      /\ e.scn[e.scns[Len(e.scns)]].index = Len(e.scns) - 1
  BY <1>3 DEF Sound
<1>5. \A id \in DOMAIN e.scn : e.scn[id] \in SectionRecords
  BY <1>1, ElfType
<1> QED BY <1>1, <1>2, <1>4, <1>5

LEMMA PlaceOfLast ==
    ASSUME NEW e, Sound(e), e.scns # <<>>
    PROVE  Place(e, e.last) = Len(e.scns)
<1>1. Len(e.scns) \in 1 .. Len(e.scns) /\ e.last = e.scns[Len(e.scns)]
  BY NotEmpty
<1> QED BY <1>1, PlaceIs

LEMMA MakeSound ==
    ASSUME NEW e, Sound(e), e.scns # <<>>, NEW index \in Nat
    PROVE  Sound(Make(e, index)) /\ Make(e, index).scns # <<>>
<1>1. e \in Elfs /\ 0 \in DOMAIN e.scn
  BY NotEmpty
<1>2. PICK f : f = Make(e, index)
  OBVIOUS
<1>3. /\ f \in Elfs /\ f.scns = e.scns /\ f.last = e.last
      /\ DOMAIN e.scn \subseteq DOMAIN f.scn
      /\ \A id \in DOMAIN e.scn : f.scn[id] = e.scn[id]
  <2>1. \E n \in Nat : DOMAIN f.scn = 0 .. n /\ DOMAIN e.scn = 0 .. n - 1
    BY <1>1, <1>2, MakeIs
  <2>2. DOMAIN e.scn \subseteq DOMAIN f.scn
    BY <2>1
  <2> QED BY ZenonT(30), <1>1, <1>2, <2>2, MakeIs
<1>4. Sound(f)
  BY <1>1, <1>3 DEF Sound
<1> QED BY <1>2, <1>3, <1>4

LEMMA BuildScnGrown ==
    ASSUME NEW e0, Sound(e0)
    PROVE  Grown(e0, BuildScn(e0))
<1> DEFINE e == FirstScn(e0)
           n == Fresh(e)
           index == e.scn[e.last].index + 1
           m == Make(e, index)
           u == UpdateShnum(m, index + 1)
           f == [u EXCEPT !.scns = Append(SubSeq(u.scns, 1, Place(e, e.last)), n), !.last = n]
<1>1. Grown(e0, e) /\ e.scns # <<>>
  BY FirstScnGrown
<1>2. BuildScn(e0) = f
  BY DEF BuildScn
<1> HIDE DEF e
<1>3. Sound(e) /\ e \in Elfs
  BY <1>1 DEF Grown, Sound
<1>4. index = Len(e.scns) /\ index \in Nat /\ Place(e, e.last) = Len(e.scns)
  BY <1>1, <1>3, NotEmpty, PlaceOfLast
<1>5. /\ m \in Elfs /\ m.scns = e.scns
      /\ DOMAIN m.scn = 0 .. n /\ DOMAIN e.scn = 0 .. n - 1 /\ n \in Nat
      /\ \A id \in DOMAIN e.scn : m.scn[id] = e.scn[id]
      /\ m.scn[n].index = index /\ m.scn[n].new
  BY <1>3, <1>4, MakeIs
<1>6. Sound(m) /\ m.scns # <<>>
  BY <1>1, <1>3, <1>4, MakeSound
<1> HIDE DEF m, n, index
<1>7. u \in Elfs /\ Alike(m, u)
  <2>1. index + 1 \in Nat
    BY <1>4
  <2> QED BY <1>6, <2>1, UpdateShnumAlike
<1> HIDE DEF u
<1>8. u.scns = e.scns /\ DOMAIN u.scn = 0 .. n /\ u.scn[n].index = Len(e.scns) /\ u.scn[n].new
  <2>1. n \in DOMAIN m.scn
    BY <1>5
  <2> QED BY <1>4, <1>5, <1>7, <2>1 DEF Alike
<1>9. \A id \in DOMAIN e.scn :
          /\ u.scn[id].index = e.scn[id].index /\ u.scn[id].new = e.scn[id].new
          /\ Len(u.scn[id].data) = Len(e.scn[id].data)
          /\ \A k \in 1 .. Len(e.scn[id].data) : u.scn[id].data[k].new = e.scn[id].data[k].new
  <2>1. \A id \in DOMAIN e.scn : id \in DOMAIN m.scn
    BY <1>5
  <2> QED BY <1>5, <1>7, <2>1 DEF Alike
<1>10. SubSeq(u.scns, 1, Place(e, e.last)) = e.scns /\ Append(e.scns, n) \in Seq(Nat)
  <2>1. e.scns \in Seq(Nat)
    BY <1>3 DEF Elfs
  <2>2. SubSeq(e.scns, 1, Len(e.scns)) = e.scns
    BY <2>1
  <2> QED BY <1>4, <1>5, <1>8, <2>1, <2>2
<1>11. f \in Elfs /\ f.scns = Append(e.scns, n) /\ f.last = n /\ f.scn = u.scn
  <2> DEFINE l == Append(e.scns, n)
  <2>1. f = [u EXCEPT !.scns = l, !.last = n]
    BY <1>10
  <2>2. l \in Seq(Nat) /\ n \in Int
    BY <1>5, <1>10
  <2> HIDE DEF l, f
  <2>3. f \in Elfs /\ f.scns = l /\ f.last = n /\ f.scn = u.scn
    BY <1>7, <2>1, <2>2 DEF Elfs
  <2> QED BY <2>3 DEF l
<1> HIDE DEF f
<1>12. Grown(e, f)
  <2>1. /\ f.scn[n].index = Len(e.scns) /\ f.scn[n].new /\ DOMAIN f.scn = 0 .. n
        /\ n = Fresh(e)
    BY <1>8, <1>11 DEF n
  <2> QED BY <1>3, <1>9, <1>11, <2>1, AddedGrown
<1> QED BY <1>1, <1>2, <1>12, GrownTwice

-----------------------------------------------------------------------------
(* Another header of a section changes neither the list nor what is allocated. *)
LEMMA OneChanged ==
    ASSUME NEW e, Sound(e), NEW id \in DOMAIN e.scn, NEW s \in SectionRecords,
           s.index = e.scn[id].index, s.new = e.scn[id].new,
           Len(s.data) = Len(e.scn[id].data),
           \A k \in 1 .. Len(s.data) : s.data[k].new = e.scn[id].data[k].new
    PROVE  LET f == [e EXCEPT !.scn = [e.scn EXCEPT ![id] = s]]
           IN  f \in Elfs /\ Alike(e, f)
<1> DEFINE t == [e.scn EXCEPT ![id] = s]
           f == [e EXCEPT !.scn = t]
<1>1. e \in Elfs /\ e.scn \in [DOMAIN e.scn -> SectionRecords]
  BY ElfType DEF Sound
<1>2. t \in [DOMAIN e.scn -> SectionRecords] /\ t[id] = s
      /\ \A i \in DOMAIN e.scn : i # id => t[i] = e.scn[i]
  BY <1>1
<1> HIDE DEF t
<1>3. f \in Elfs
  BY <1>1, <1>2, ScnChanged
<1>4. f.scn = t /\ f.scns = e.scns /\ f.last = e.last
  BY <1>1 DEF Elfs
<1> HIDE DEF f
<1>5. ASSUME NEW i \in DOMAIN e.scn
      PROVE  /\ t[i].index = e.scn[i].index /\ t[i].new = e.scn[i].new
             /\ Len(t[i].data) = Len(e.scn[i].data)
             /\ \A k \in 1 .. Len(e.scn[i].data) : t[i].data[k].new = e.scn[i].data[k].new
  <2>1. CASE i = id
    BY <1>2, <2>1
  <2>2. CASE i # id
    BY <1>2, <2>2
  <2> QED BY <2>1, <2>2
<1>6. DOMAIN t = DOMAIN e.scn
  BY <1>2
<1>7. Alike(e, f)
  BY <1>4, <1>5, <1>6 DEF Alike
<1> QED BY <1>3, <1>7 DEF f, t

LEMMA NewPhdrGrown ==
    ASSUME NEW e0, Sound(e0), NEW count \in Nat
    PROVE  Grown(e0, NewPhdr(e0, count))
<1> DEFINE e == FirstScn(e0)
           num == IF count >= PN_XNUM THEN PN_XNUM ELSE count
           info == IF count >= PN_XNUM THEN count ELSE 0
           s == [e.scn[0] EXCEPT !.info = info, !.dirty = TRUE]
           g == [e EXCEPT !.scn = [e.scn EXCEPT ![0] = s]]
           f == [g EXCEPT !.phnum = count, !.e_phnum = num, !.dirty = TRUE]
<1>1. Grown(e0, e) /\ e.scns # <<>>
  BY FirstScnGrown
<1>2. Sound(e) /\ 0 \in DOMAIN e.scn /\ e.scn[0] \in SectionRecords /\ Head(e.scns) = 0 /\ e \in Elfs
  BY <1>1, NotEmpty DEF Grown
<1>3. NewPhdr(e0, count) = f
  <2> HIDE DEF e, num, info
  <2>1. NewPhdr(e0, count) = [e EXCEPT !.phnum = count, !.e_phnum = num,
                  !.scn[0].info = info, !.scn[0].dirty = TRUE, !.dirty = TRUE]
    BY <1>2 DEF NewPhdr, e, num, info
  <2>2. e.scn \in [DOMAIN e.scn -> SectionRecords]
    BY <1>2, ElfType
  <2> DEFINE t == [e.scn EXCEPT ![0].info = info, ![0].dirty = TRUE]
  <2>3. t = [e.scn EXCEPT ![0] = s]
    BY <1>2, <2>2 DEF SectionRecords
  <2>4. NewPhdr(e0, count) =
            [[e EXCEPT !.scn = t] EXCEPT !.phnum = count, !.e_phnum = num, !.dirty = TRUE]
    BY ZenonT(30), <1>2, <2>1, <2>2 DEF Elfs
  <2> QED BY <2>3, <2>4
<1>4. num \in Nat /\ info \in Nat
  BY Numbers
<1> HIDE DEF num, info, e
<1>5. /\ s \in SectionRecords /\ s.index = e.scn[0].index /\ s.new = e.scn[0].new
      /\ s.data = e.scn[0].data
  BY <1>2, <1>4 DEF SectionRecords
<1> HIDE DEF s
<1>6. g \in Elfs /\ Alike(e, g)
  BY <1>2, <1>5, OneChanged
<1> HIDE DEF g
<1>7. f \in Elfs /\ f.scn = g.scn /\ f.scns = g.scns /\ f.last = g.last
  BY <1>4, <1>6 DEF Elfs
<1> HIDE DEF f
<1>8. Alike(e, f)
  BY <1>6, <1>7 DEF Alike
<1> QED BY <1>1, <1>2, <1>3, <1>7, <1>8, AlikeGrown, GrownTwice DEF f

LEMMA UpdateShstrndxGrown ==
    ASSUME NEW e0, Sound(e0), NEW value \in Nat
    PROVE  /\ Grown(e0, UpdateShstrndx(e0, value))
           /\ e0.scns # <<>> => DOMAIN UpdateShstrndx(e0, value).scn = DOMAIN e0.scn
<1> DEFINE e == FirstScn(e0)
           num == IF value >= SHN_LORESERVE THEN SHN_XINDEX ELSE value
           link == IF value >= SHN_LORESERVE THEN value ELSE 0
           s == [e.scn[0] EXCEPT !.link = link, !.dirty = TRUE]
           g == [e EXCEPT !.scn = [e.scn EXCEPT ![0] = s]]
           f == [g EXCEPT !.e_shstrndx = num, !.dirty = TRUE]
<1>1. Grown(e0, e) /\ e.scns # <<>>
  BY FirstScnGrown
<1>2. Sound(e) /\ 0 \in DOMAIN e.scn /\ e.scn[0] \in SectionRecords /\ Head(e.scns) = 0 /\ e \in Elfs
  BY <1>1, NotEmpty DEF Grown
<1>3. UpdateShstrndx(e0, value) = f
  <2> HIDE DEF e, num, link
  <2>1. UpdateShstrndx(e0, value) = [e EXCEPT !.e_shstrndx = num,
                  !.scn[0].link = link, !.scn[0].dirty = TRUE, !.dirty = TRUE]
    BY <1>2 DEF UpdateShstrndx, e, num, link
  <2>2. e.scn \in [DOMAIN e.scn -> SectionRecords]
    BY <1>2, ElfType
  <2> DEFINE t == [e.scn EXCEPT ![0].link = link, ![0].dirty = TRUE]
  <2>3. t = [e.scn EXCEPT ![0] = s]
    BY <1>2, <2>2 DEF SectionRecords
  <2>4. UpdateShstrndx(e0, value) =
            [[e EXCEPT !.scn = t] EXCEPT !.e_shstrndx = num, !.dirty = TRUE]
    BY <1>2, <2>1, <2>2 DEF Elfs
  <2> QED BY <2>3, <2>4
<1>4. num \in Nat /\ link \in Nat
  BY Numbers
<1> HIDE DEF num, link, e
<1>5. /\ s \in SectionRecords /\ s.index = e.scn[0].index /\ s.new = e.scn[0].new
      /\ s.data = e.scn[0].data
  BY <1>2, <1>4 DEF SectionRecords
<1> HIDE DEF s
<1>6. g \in Elfs /\ Alike(e, g)
  BY <1>2, <1>5, OneChanged
<1> HIDE DEF g
<1>7. f \in Elfs /\ f.scn = g.scn /\ f.scns = g.scns /\ f.last = g.last
  BY <1>4, <1>6 DEF Elfs
<1> HIDE DEF f
<1>8. Alike(e, f)
  BY <1>6, <1>7 DEF Alike
<1>9. e0.scns # <<>> => e = e0
  BY DEF e, FirstScn
<1>10. DOMAIN f.scn = DOMAIN e.scn
  BY <1>8 DEF Alike
<1> QED BY <1>1, <1>2, <1>3, <1>7, <1>8, <1>9, <1>10, AlikeGrown, GrownTwice DEF f

(* gelf_update_shdr() *)
UpdatedShdr(e, id, h) ==
    [e EXCEPT !.scn[id].type = h.type, !.scn[id].link = h.link, !.scn[id].info = h.info,
              !.scn[id].offset = h.offset, !.scn[id].size = h.size]

LEMMA UpdateShdrAlike ==
    ASSUME NEW e, Sound(e), NEW id \in DOMAIN e.scn, NEW h \in Headers
    PROVE  UpdatedShdr(e, id, h) \in Elfs /\ Alike(e, UpdatedShdr(e, id, h))
<1> DEFINE s == [e.scn[id] EXCEPT !.type = h.type, !.link = h.link, !.info = h.info,
                                  !.offset = h.offset, !.size = h.size]
           t == [e.scn EXCEPT ![id].type = h.type, ![id].link = h.link, ![id].info = h.info,
                              ![id].offset = h.offset, ![id].size = h.size]
<1>1. e \in Elfs /\ e.scn \in [DOMAIN e.scn -> SectionRecords] /\ e.scn[id] \in SectionRecords
  BY ElfType DEF Sound
<1>2. h \in [type : SectionTypes, link : Nat, info : Nat, offset : Nat, size : Nat]
  BY InputsAssumption
<1>3. t = [e.scn EXCEPT ![id] = s]
  BY <1>1 DEF SectionRecords
<1>4. UpdatedShdr(e, id, h) = [e EXCEPT !.scn = t]
  BY ZenonT(30), <1>1 DEF UpdatedShdr, Elfs
<1>5. /\ s \in SectionRecords /\ s.index = e.scn[id].index /\ s.new = e.scn[id].new
      /\ s.data = e.scn[id].data
  BY <1>1, <1>2 DEF SectionRecords
<1> HIDE DEF s, t
<1> QED BY SMTT(30), <1>3, <1>4, <1>5, OneChanged

(* elf_newdata(): one buffer more at the end of section id. *)
LEMMA NewDataSound ==
    ASSUME NEW e, Sound(e), NEW p \in DOMAIN e.scns, NEW d \in Buffers
    PROVE  LET id == e.scns[p]
           IN  /\ Sound(NewData(e, id, d))
               /\ Held(NewData(e, id, d)) = Held(e) \cup {<<id, Len(e.scn[id].data) + 1>>}
               /\ DOMAIN NewData(e, id, d).scn = DOMAIN e.scn
<1> DEFINE id == e.scns[p]
           x == [InitData EXCEPT !.new = TRUE, !.dirty = TRUE, !.size = d.size,
                    !.align = d.align, !.off = d.off, !.buf = d.buf, !.null = d.null]
           l == Append(e.scn[id].data, x)
           s == [e.scn[id] EXCEPT !.data = l]
           t == [e.scn EXCEPT ![id] = s]
           f == [e EXCEPT !.scn = t]
<1>1. /\ e \in Elfs /\ id \in DOMAIN e.scn /\ e.scn \in [DOMAIN e.scn -> SectionRecords]
      /\ e.scn[id] \in SectionRecords
  BY ElfType DEF Sound
<1>2. x \in Datas /\ x.new
  BY InputsAssumption DEF InitData, Datas
<1>3. NewData(e, id, d) = f
  BY <1>1 DEF NewData, Elfs
<1> HIDE DEF x
<1>4. /\ l \in Seq(Datas) /\ Len(l) = Len(e.scn[id].data) + 1 /\ Len(e.scn[id].data) \in Nat
      /\ l[Len(l)] = x
      /\ \A k \in 1 .. Len(e.scn[id].data) : l[k] = e.scn[id].data[k]
  <2>1. e.scn[id].data \in Seq(Datas)
    BY <1>1 DEF SectionRecords
  <2> DEFINE b == e.scn[id].data
  <2>2. PICK c : c = b
    OBVIOUS
  <2>3. /\ Append(c, x) \in Seq(Datas) /\ Len(Append(c, x)) = Len(c) + 1 /\ Len(c) \in Nat
        /\ Append(c, x)[Len(c) + 1] = x /\ \A k \in 1 .. Len(c) : Append(c, x)[k] = c[k]
    BY <1>2, <2>1, <2>2, DataAppended
  <2> QED BY <2>2, <2>3
<1> HIDE DEF l
<1>5. s \in SectionRecords /\ s.index = e.scn[id].index /\ s.new = e.scn[id].new /\ s.data = l
  BY <1>1, <1>4 DEF SectionRecords
<1> HIDE DEF s
<1>6. /\ t \in [DOMAIN e.scn -> SectionRecords] /\ DOMAIN t = DOMAIN e.scn /\ t[id] = s
      /\ \A i \in DOMAIN e.scn : i # id => t[i] = e.scn[i]
  BY <1>1, <1>5
<1> HIDE DEF t
<1>7. f \in Elfs /\ f.scn = t /\ f.scns = e.scns /\ f.last = e.last
  BY <1>1, <1>6, ScnChanged DEF Elfs
<1> HIDE DEF f
<1>8. \A i \in DOMAIN e.scn : f.scn[i].index = e.scn[i].index /\ f.scn[i].new = e.scn[i].new
  BY <1>5, <1>6, <1>7
<1>9. Sound(f)
  <2>1. e.scns # <<>> => 0 \in DOMAIN e.scn
    BY NotEmpty
  <2> QED BY <1>6, <1>7, <1>8, <2>1 DEF Sound
<1>10. OfScn(f, id) = OfScn(e, id) \cup {<<id, Len(e.scn[id].data) + 1>>}
  <2> DEFINE n == Len(e.scn[id].data)
             Then(m) == l[m].new
             Before(m) == e.scn[id].data[m].new
  <2>1. n \in Nat /\ Len(l) = n + 1 /\ l[n + 1].new /\ \A k \in 1 .. n : l[k] = e.scn[id].data[k]
    BY <1>2, <1>4
  <2>2. f.scn[id].data = l /\ f.scn[id].new = e.scn[id].new
    BY <1>5, <1>6, <1>7
  <2>3. {m \in 1 .. Len(l) : l[m].new} = {m \in 1 .. n : e.scn[id].data[m].new} \cup {n + 1}
    <3>1. Then(n + 1) /\ \A m \in 1 .. n : Then(m) <=> Before(m)
      BY <2>1
    <3>2. {m \in 1 .. Len(l) : Then(m)} = {m \in 1 .. n : Before(m)} \cup {n + 1}
      <4> HIDE DEF Then, Before, n
      <4> QED BY <2>1, <3>1
    <3> QED BY <3>2
  <2> QED BY <2>2, <2>3 DEF OfScn
<1>11. \A i \in DOMAIN e.scn : i # id => OfScn(f, i) = OfScn(e, i)
  BY <1>6, <1>7 DEF OfScn
<1>12. Held(f) = Held(e) \cup {<<id, Len(e.scn[id].data) + 1>>}
  <2> DEFINE y == <<id, Len(e.scn[id].data) + 1>>
  <2>1. ASSUME NEW q \in DOMAIN e.scns
        PROVE  OfScn(f, f.scns[q]) = OfScn(e, e.scns[q]) \cup (IF q = p THEN {y} ELSE {})
    <3>1. e.scns[q] = id => q = p
      BY <2>1 DEF Sound
    <3>2. e.scns[q] \in DOMAIN e.scn
      BY <2>1 DEF Sound
    <3> QED BY <1>7, <1>10, <1>11, <3>1, <3>2
  <2>2. DOMAIN f.scns = DOMAIN e.scns
    BY <1>7
  <2> HIDE DEF y
  <2> QED BY <2>1, <2>2 DEF Held, y
<1> QED BY <1>3, <1>6, <1>7, <1>9, <1>12

-----------------------------------------------------------------------------
(* A list with one element less, or one more. *)
LEMMA ConcatIs ==
    ASSUME NEW a \in Seq(Nat), NEW b \in Seq(Nat)
    PROVE  /\ a \o b \in Seq(Nat) /\ Len(a) \in Nat /\ Len(b) \in Nat
           /\ Len(a \o b) = Len(a) + Len(b) /\ DOMAIN (a \o b) = 1 .. Len(a) + Len(b)
           /\ \A q \in 1 .. Len(a) : (a \o b)[q] = a[q]
           /\ \A q \in Len(a) + 1 .. Len(a) + Len(b) : (a \o b)[q] = b[q - Len(a)]
  OBVIOUS

LEMMA RemoveIs ==
    ASSUME NEW s \in Seq(Nat), NEW p \in 1 .. Len(s)
    PROVE  LET t == RemoveAt(s, p)
           IN  /\ t \in Seq(Nat) /\ Len(s) \in Nat /\ Len(t) = Len(s) - 1
               /\ DOMAIN t = 1 .. Len(s) - 1
               /\ \A q \in 1 .. p - 1 : t[q] = s[q]
               /\ \A q \in p .. Len(s) - 1 : t[q] = s[q + 1]
<1> DEFINE a == SubSeq(s, 1, p - 1)
           b == SubSeq(s, p + 1, Len(s))
<1>1. /\ a \in Seq(Nat) /\ Len(a) = p - 1 /\ p \in Nat
      /\ \A q \in 1 .. p - 1 : a[q] = s[q]
  OBVIOUS
<1>2. /\ b \in Seq(Nat) /\ Len(b) = Len(s) - p /\ Len(s) \in Nat
      /\ \A q \in 1 .. Len(s) - p : b[q] = s[p + q]
  OBVIOUS
<1>3. RemoveAt(s, p) = a \o b
  BY DEF RemoveAt
<1> HIDE DEF a, b
<1>4. /\ a \o b \in Seq(Nat) /\ Len(a \o b) = Len(s) - 1 /\ DOMAIN (a \o b) = 1 .. Len(s) - 1
      /\ \A q \in 1 .. p - 1 : (a \o b)[q] = a[q]
      /\ \A q \in p .. Len(s) - 1 : (a \o b)[q] = b[q - (p - 1)]
  <2>1. Len(a) + Len(b) = Len(s) - 1 /\ Len(a) + 1 = p
    BY <1>1, <1>2
  <2>2. /\ a \o b \in Seq(Nat) /\ Len(a \o b) = Len(a) + Len(b)
        /\ DOMAIN (a \o b) = 1 .. Len(a) + Len(b)
        /\ \A q \in 1 .. Len(a) : (a \o b)[q] = a[q]
        /\ \A q \in Len(a) + 1 .. Len(a) + Len(b) : (a \o b)[q] = b[q - Len(a)]
    BY <1>1, <1>2, ConcatIs
  <2> QED BY <1>1, <2>1, <2>2
<1>5. \A q \in p .. Len(s) - 1 : q - (p - 1) \in 1 .. Len(s) - p /\ p + (q - (p - 1)) = q + 1
  BY <1>1, <1>2
<1>6. \A q \in p .. Len(s) - 1 : (a \o b)[q] = s[q + 1]
  BY <1>2, <1>4, <1>5
<1> QED BY <1>1, <1>2, <1>3, <1>4, <1>6

LEMMA InsertIs ==
    ASSUME NEW s \in Seq(Nat), NEW i \in 1 .. Len(s) + 1, NEW x \in Nat
    PROVE  LET t == InsertAt(s, i, x)
           IN  /\ t \in Seq(Nat) /\ Len(s) \in Nat /\ Len(t) = Len(s) + 1
               /\ DOMAIN t = 1 .. Len(s) + 1
               /\ \A q \in 1 .. i - 1 : t[q] = s[q]
               /\ t[i] = x
               /\ \A q \in i + 1 .. Len(s) + 1 : t[q] = s[q - 1]
<1> DEFINE a == SubSeq(s, 1, i - 1)
           b == SubSeq(s, i, Len(s))
           c == Append(a, x)
<1>1. /\ a \in Seq(Nat) /\ Len(a) = i - 1 /\ i \in Nat
      /\ \A q \in 1 .. i - 1 : a[q] = s[q]
  OBVIOUS
<1>2. /\ b \in Seq(Nat) /\ Len(b) = Len(s) - i + 1 /\ Len(s) \in Nat
      /\ \A q \in 1 .. Len(s) - i + 1 : b[q] = s[i + q - 1]
  OBVIOUS
<1>3. InsertAt(s, i, x) = c \o b
  <2>1. InsertAt(s, i, x) = (a \o <<x>>) \o b
    BY DEF InsertAt
  <2> HIDE DEF a, b
  <2>2. a \o <<x>> = Append(a, x)
    BY <1>1
  <2> QED BY <2>1, <2>2
<1> HIDE DEF a, b
<1>4. c \in Seq(Nat) /\ Len(c) = i /\ c[i] = x /\ \A q \in 1 .. i - 1 : c[q] = a[q]
  <2>1. Len(a) + 1 = i
    BY <1>1
  <2> QED BY <1>1, <2>1, AppendIs
<1> HIDE DEF c
<1>5. /\ c \o b \in Seq(Nat) /\ Len(c \o b) = Len(s) + 1 /\ DOMAIN (c \o b) = 1 .. Len(s) + 1
      /\ \A q \in 1 .. i : (c \o b)[q] = c[q]
      /\ \A q \in i + 1 .. Len(s) + 1 : (c \o b)[q] = b[q - i]
  <2>1. Len(c) + Len(b) = Len(s) + 1
    BY <1>1, <1>2, <1>4
  <2>2. /\ c \o b \in Seq(Nat) /\ Len(c \o b) = Len(c) + Len(b)
        /\ DOMAIN (c \o b) = 1 .. Len(c) + Len(b)
        /\ \A q \in 1 .. Len(c) : (c \o b)[q] = c[q]
        /\ \A q \in Len(c) + 1 .. Len(c) + Len(b) : (c \o b)[q] = b[q - Len(c)]
    BY <1>2, <1>4, ConcatIs
  <2> QED BY <1>4, <2>1, <2>2
<1>6. \A q \in i + 1 .. Len(s) + 1 : q - i \in 1 .. Len(s) - i + 1 /\ i + (q - i) - 1 = q - 1
  BY <1>1, <1>2
<1>7. \A q \in i + 1 .. Len(s) + 1 : (c \o b)[q] = s[q - 1]
  BY <1>2, <1>5, <1>6
<1>8. \A q \in 1 .. i - 1 : (c \o b)[q] = s[q]
  <2>1. \A q \in 1 .. i - 1 : q \in 1 .. i
    BY <1>1
  <2> QED BY <1>1, <1>4, <1>5, <2>1
<1>9. (c \o b)[i] = x
  BY <1>1, <1>4, <1>5
<1> QED BY <1>2, <1>3, <1>5, <1>7, <1>8, <1>9

(* What is allocated for a section is nobody else's. *)
LEMMA OwnStorage ==
    ASSUME NEW e, NEW id, NEW other, id # other
    PROVE  OfScn(e, id) \cap OfScn(e, other) = {}
  BY DEF OfScn

(* Unlinking a section that is not the first: those behind it get the numbers of the
   places they move to. *)
LEMMA UnlinkSound ==
    ASSUME NEW e, Sound(e), NEW p \in 2 .. Len(e.scns)
    PROVE  LET f == Unlink(e, e.scns[p])
           IN  /\ Sound(f) /\ f.scns # <<>> /\ DOMAIN f.scn = DOMAIN e.scn
               /\ Held(f) = Held(e) \ OfScn(e, e.scns[p])
<1> DEFINE n == Len(e.scns)
           id == e.scns[p]
           place == Place(e, id)
           l == RemoveAt(e.scns, place)
           rest == {e.scns[q] : q \in place + 1 .. n}
           end == IF e.last = id THEN e.scns[place - 1] ELSE e.last
           t == [s \in DOMAIN e.scn |->
                    IF s \in rest THEN [e.scn[s] EXCEPT !.index = @ - 1] ELSE e.scn[s]]
           f == [e EXCEPT !.scns = l, !.last = end, !.scn = t]
<1>1. /\ e.scns \in Seq(Nat) /\ n \in Nat /\ DOMAIN e.scns = 1 .. n /\ p \in 1 .. n
      /\ e.scns # <<>> /\ e \in Elfs
      /\ e.scn \in [DOMAIN e.scn -> SectionRecords]
  <2>1. e \in Elfs
    BY DEF Sound
  <2>2. /\ e.scns \in Seq(Nat) /\ n \in Nat /\ DOMAIN e.scns = 1 .. n
        /\ e.scn \in [DOMAIN e.scn -> SectionRecords]
    BY <2>1, ElfType DEF Elfs
  <2>3. p \in 1 .. n /\ n # 0
    BY <2>2
  <2> QED BY <2>1, <2>2, <2>3
<1>2. Unlink(e, id) = f
  <2> HIDE DEF id, n
  <2>1. Unlink(e, id) = [e EXCEPT !.scns = RemoveAt(e.scns, place),
                  !.last = IF e.last = id THEN e.scns[place - 1] ELSE e.last,
                  !.scn = [s \in DOMAIN e.scn |->
                      IF s \in {e.scns[q] : q \in place + 1 .. Len(e.scns)}
                      THEN [e.scn[s] EXCEPT !.index = @ - 1] ELSE e.scn[s]]]
    BY <1>1 DEF Unlink, Elfs
  <2> QED BY <2>1 DEF n
<1>0. place = p
  BY <1>1, PlaceIs
<1> HIDE DEF place
<1>3. /\ \A q \in 1 .. n : e.scns[q] \in DOMAIN e.scn /\ e.scn[e.scns[q]].index = q - 1
      /\ \A q, r \in 1 .. n : e.scns[q] = e.scns[r] => q = r
      /\ e.last = e.scns[n] /\ e.scns[1] = 0 /\ e.scn[0].new
  BY <1>1 DEF Sound
<1>4. /\ l \in Seq(Nat) /\ Len(l) = n - 1 /\ DOMAIN l = 1 .. n - 1
      /\ \A q \in 1 .. p - 1 : l[q] = e.scns[q]
      /\ \A q \in p .. n - 1 : l[q] = e.scns[q + 1]
  BY <1>0, <1>1, RemoveIs
<1> HIDE DEF l
<1>5. \A q \in 1 .. n : e.scns[q] \in rest <=> q > p
  <2> HIDE DEF n, id
  <2>1. rest = {e.scns[q] : q \in p + 1 .. n}
    BY <1>0 DEF rest, n
  <2> HIDE DEF rest
  <2> SUFFICES ASSUME NEW q \in 1 .. n
               PROVE  e.scns[q] \in rest <=> q > p
    OBVIOUS
  <2>2. q > p => e.scns[q] \in rest
    <3>1. q > p => q \in p + 1 .. n
      BY <1>1
    <3> QED BY <2>1, <3>1
  <2>3. e.scns[q] \in rest => q > p
    <3> SUFFICES ASSUME e.scns[q] \in rest PROVE q > p
      OBVIOUS
    <3>1. PICK r \in p + 1 .. n : e.scns[q] = e.scns[r]
      BY <2>1
    <3>2. r \in 1 .. n /\ r > p
      BY <1>1
    <3>3. q = r
      BY <1>3, <3>1, <3>2
    <3> QED BY <3>2, <3>3
  <2> QED BY <2>2, <2>3
<1> HIDE DEF rest
<1>6. \A s \in DOMAIN e.scn : s \in rest => e.scn[s].index - 1 \in Nat
  <2> HIDE DEF n, id
  <2>1. rest = {e.scns[q] : q \in p + 1 .. n}
    BY <1>0 DEF rest, n
  <2> HIDE DEF rest
  <2> SUFFICES ASSUME NEW s \in DOMAIN e.scn, s \in rest
               PROVE  e.scn[s].index - 1 \in Nat
    OBVIOUS
  <2>2. PICK r \in p + 1 .. n : s = e.scns[r]
    BY <2>1
  <2>3. r \in 1 .. n /\ r > 1
    BY <1>1
  <2>4. e.scn[s].index = r - 1
    BY <1>3, <2>2, <2>3
  <2> QED BY <2>3, <2>4
<1>7. /\ t \in [DOMAIN e.scn -> SectionRecords] /\ DOMAIN t = DOMAIN e.scn
      /\ \A s \in DOMAIN e.scn :
             /\ t[s].index = IF s \in rest THEN e.scn[s].index - 1 ELSE e.scn[s].index
             /\ t[s].new = e.scn[s].new /\ t[s].data = e.scn[s].data
  <2>1. ASSUME NEW s \in DOMAIN e.scn
        PROVE  /\ t[s] \in SectionRecords
               /\ t[s].index = IF s \in rest THEN e.scn[s].index - 1 ELSE e.scn[s].index
               /\ t[s].new = e.scn[s].new /\ t[s].data = e.scn[s].data
    BY <1>1, <1>6, <2>1 DEF SectionRecords
  <2> HIDE DEF t
  <2>2. t = [s \in DOMAIN e.scn |-> t[s]] /\ DOMAIN t = DOMAIN e.scn
    BY DEF t
  <2> QED BY <2>1, <2>2
<1> HIDE DEF t
<1>8. t \in Tables /\ end \in Int
  <2>1. e.scn \in Tables
    BY <1>1 DEF Elfs
  <2>2. e.scns[p - 1] \in Int /\ e.last \in Int
    BY SMTT(30), <1>1, ElementOf DEF Elfs
  <2> QED BY <1>0, <1>7, <2>1, <2>2, TableKept
<1> HIDE DEF end
<1>9. f \in Elfs /\ f.scns = l /\ f.last = end /\ f.scn = t
  BY <1>1, <1>4, <1>8 DEF Elfs
<1> HIDE DEF f, n
<1>10. l # <<>> /\ n \in Nat /\ p \in 2 .. n
  BY <1>1, <1>4 DEF n
<1>11. ASSUME NEW q \in 1 .. n - 1
       PROVE  /\ l[q] \in DOMAIN e.scn /\ t[l[q]].index = q - 1
              /\ l[q] = e.scns[IF q < p THEN q ELSE q + 1]
  <2>1. CASE q < p
    <3>1. q \in 1 .. n /\ q \in 1 .. p - 1 /\ ~(q > p)
      BY <1>10, <2>1
    <3>2. l[q] = e.scns[q] /\ l[q] \notin rest /\ l[q] \in DOMAIN e.scn /\ e.scn[l[q]].index = q - 1
      BY <1>3, <1>4, <1>5, <3>1
    <3> QED BY <1>7, <2>1, <3>2
  <2>2. CASE ~(q < p)
    <3>1. q + 1 \in 1 .. n /\ q \in p .. n - 1 /\ q + 1 > p
      BY <1>10, <2>2
    <3>2. l[q] = e.scns[q + 1] /\ l[q] \in rest /\ l[q] \in DOMAIN e.scn /\ e.scn[l[q]].index = q
      BY SMTT(100), <1>3, <1>4, <1>5, <3>1
    <3> QED BY <1>7, <2>2, <3>2
  <2> QED BY <2>1, <2>2
<1>12. ASSUME NEW q \in 1 .. n - 1, NEW r \in 1 .. n - 1, l[q] = l[r]
       PROVE  q = r
  <2>1. t[l[q]].index = q - 1 /\ t[l[r]].index = r - 1
    BY <1>11
  <2> QED BY <1>12, <2>1
<1>13. end = l[n - 1] /\ l[1] = 0 /\ t[0].new
  <2>1. l[1] = 0 /\ t[0].new
    <3>1. 1 \in 1 .. p - 1 /\ 1 \in 1 .. n
      BY <1>10
    <3> QED BY <1>3, <1>4, <1>7, <3>1
  <2>2. CASE p = n
    <3>1. n - 1 \in 1 .. p - 1 /\ p - 1 = n - 1
      BY <1>10, <2>2
    <3> QED BY <1>3, <1>4, <2>1, <2>2, <3>1, <1>0 DEF end
  <2>3. CASE p # n
    <3>1. n - 1 \in p .. n - 1 /\ n - 1 + 1 = n /\ n \in 1 .. n /\ p \in 1 .. n
      BY <1>10, <2>3
    <3>2. l[n - 1] = e.scns[n] /\ e.last # id
      BY <1>3, <1>4, <2>3, <3>1
    <3> QED BY <1>3, <2>1, <3>2, <1>0 DEF end
  <2> QED BY <2>2, <2>3
<1>14. Sound(f)
  BY ZenonT(30), <1>4, <1>7, <1>9, <1>10, <1>11, <1>12, <1>13 DEF Sound
<1>15. \A s \in DOMAIN e.scn : OfScn(f, s) = OfScn(e, s)
  BY <1>7, <1>9 DEF OfScn
<1>16. Held(f) = Held(e) \ OfScn(e, id)
  <2> DEFINE Of(s) == OfScn(e, s)
  <2>1. Held(f) = UNION {Of(l[q]) : q \in 1 .. n - 1}
    BY <1>4, <1>9, <1>11, <1>15 DEF Held
  <2>2. Held(e) = UNION {Of(e.scns[q]) : q \in 1 .. n}
    BY <1>1 DEF Held, n
  <2>3. \A q \in 1 .. n : q # p => Of(e.scns[q]) \cap Of(id) = {}
    <3>1. \A q \in 1 .. n : q # p => e.scns[q] # id
      BY <1>3, <1>10
    <3> QED BY <3>1, OwnStorage
  <2> HIDE DEF Of, id
  <2>4. id = e.scns[p]
    BY DEF id
  <2>5. \A q \in 1 .. n : q # p => \E r \in 1 .. n - 1 : l[r] = e.scns[q]
    <3> SUFFICES ASSUME NEW q \in 1 .. n, q # p PROVE \E r \in 1 .. n - 1 : l[r] = e.scns[q]
      OBVIOUS
    <3>1. CASE q < p
      <4>1. q \in 1 .. n - 1
        BY <1>10, <3>1
      <4> QED BY <1>11, <3>1, <4>1
    <3>2. CASE ~(q < p)
      <4>1. q - 1 \in 1 .. n - 1 /\ ~(q - 1 < p) /\ q - 1 + 1 = q
        BY <1>10, <3>2
      <4> QED BY <1>11, <4>1
    <3> QED BY <3>1, <3>2
  <2>6. \A r \in 1 .. n - 1 : \E q \in 1 .. n : q # p /\ l[r] = e.scns[q]
    <3> SUFFICES ASSUME NEW r \in 1 .. n - 1
                 PROVE  \E q \in 1 .. n : q # p /\ l[r] = e.scns[q]
      OBVIOUS
    <3>1. LET q == IF r < p THEN r ELSE r + 1 IN q \in 1 .. n /\ q # p /\ l[r] = e.scns[q]
      BY <1>10, <1>11
    <3> QED BY <3>1
  <2>7. ASSUME NEW a PROVE a \in Held(f) <=> a \in Held(e) /\ a \notin Of(id)
    <3>1. a \in Held(f) <=> \E q \in 1 .. n : q # p /\ a \in Of(e.scns[q])
      BY <2>1, <2>5, <2>6
    <3> QED BY <1>10, <2>2, <2>3, <2>4, <3>1
  <2> QED BY <2>7 DEF Of
<1> QED BY <1>2, <1>7, <1>9, <1>10, <1>14, <1>16

(* elf_delscn() and elfx_remscn() of a section that is not the first. *)
LEMMA UpdateShdrsAlike ==
    ASSUME NEW e, Sound(e), e.scns # <<>>, NEW index \in Nat
    PROVE  UpdateShdrs(e, index) \in Elfs /\ Alike(e, UpdateShdrs(e, index))
<1> DEFINE Linked(s) == IF s.type \in {SHT_REL, SHT_SYMTAB}
                        THEN [s EXCEPT !.link = NewIndex(@, index)] ELSE s
           Applied(s) == IF s.type = SHT_REL THEN [s EXCEPT !.info = NewIndex(@, index)] ELSE s
           t == [id \in DOMAIN e.scn |->
                    IF id \in Range(e.scns) THEN Applied(Linked(e.scn[id])) ELSE e.scn[id]]
           num == e.scn[e.last].index + 1
           g == [e EXCEPT !.scn = t]
           f == [g EXCEPT !.e_shnum = num]
<1>1. e \in Elfs /\ num \in Nat /\ e.scn \in [DOMAIN e.scn -> SectionRecords]
  <2>1. e \in Elfs /\ e.scn[e.last].index = Len(e.scns) - 1 /\ Len(e.scns) \in Nat \ {0}
    BY NotEmpty
  <2> QED BY <2>1, ElfType
<1>2. UpdateShdrs(e, index) = f
  BY <1>1 DEF UpdateShdrs, Elfs
<1>3. ASSUME NEW s \in SectionRecords
      PROVE  /\ Linked(s) \in SectionRecords
             /\ Linked(s).index = s.index /\ Linked(s).new = s.new /\ Linked(s).data = s.data
  <2>1. NewIndex(s.link, index) \in Nat
    BY DEF NewIndex, SectionRecords
  <2> QED BY <2>1 DEF SectionRecords
<1>4. ASSUME NEW s \in SectionRecords
      PROVE  /\ Applied(s) \in SectionRecords
             /\ Applied(s).index = s.index /\ Applied(s).new = s.new /\ Applied(s).data = s.data
  <2>1. NewIndex(s.info, index) \in Nat
    BY DEF NewIndex, SectionRecords
  <2> QED BY <2>1 DEF SectionRecords
<1> HIDE DEF Linked, Applied, num
<1>5. ASSUME NEW id \in DOMAIN e.scn
      PROVE  /\ t[id] \in SectionRecords
             /\ t[id].index = e.scn[id].index /\ t[id].new = e.scn[id].new
             /\ t[id].data = e.scn[id].data
  <2>1. e.scn[id] \in SectionRecords
    BY <1>1
  <2>2. /\ Applied(Linked(e.scn[id])) \in SectionRecords
        /\ Applied(Linked(e.scn[id])).index = e.scn[id].index
        /\ Applied(Linked(e.scn[id])).new = e.scn[id].new
        /\ Applied(Linked(e.scn[id])).data = e.scn[id].data
    <3>1. PICK s : s = Linked(e.scn[id])
      OBVIOUS
    <3> QED BY <1>3, <1>4, <2>1, <3>1
  <2> QED BY <2>1, <2>2
<1>6. DOMAIN t = DOMAIN e.scn /\ t \in [DOMAIN e.scn -> SectionRecords]
  BY <1>5
<1> HIDE DEF t
<1>7. g \in Elfs /\ g.scn = t /\ g.scns = e.scns /\ g.last = e.last
  BY <1>1, <1>6, ScnChanged DEF Elfs
<1> HIDE DEF g
<1>8. f \in Elfs /\ f.scn = t /\ f.scns = e.scns /\ f.last = e.last
  BY <1>1, <1>7 DEF Elfs
<1> HIDE DEF f
<1>9. Alike(e, f)
  BY <1>5, <1>6, <1>8 DEF Alike
<1> QED BY <1>2, <1>8, <1>9

LEMMA DelscnSound ==
    ASSUME NEW e, Sound(e), NEW p \in 2 .. Len(e.scns)
    PROVE  LET f == Delscn(e, e.scns[p])
           IN  /\ Sound(f) /\ DOMAIN f.scn = DOMAIN e.scn
               /\ Held(f) = Held(e) \ OfScn(e, e.scns[p])
<1> DEFINE u == Unlink(e, e.scns[p])
<1>1. /\ Sound(u) /\ u.scns # <<>> /\ DOMAIN u.scn = DOMAIN e.scn
      /\ Held(u) = Held(e) \ OfScn(e, e.scns[p])
  BY UnlinkSound
<1>2. e.scn[e.scns[p]].index \in Nat
  <2>1. e \in Elfs /\ p \in DOMAIN e.scns
    BY ElfType DEF Sound
  <2>2. e.scns[p] \in DOMAIN e.scn
    BY <2>1 DEF Sound
  <2> QED BY <2>1, <2>2, ElfType DEF SectionRecords
<1> DEFINE index == e.scn[e.scns[p]].index
<1> HIDE DEF u, index
<1>3. UpdateShdrs(u, index) \in Elfs /\ Alike(u, UpdateShdrs(u, index))
  BY <1>1, <1>2, UpdateShdrsAlike DEF index
<1>4. /\ Sound(UpdateShdrs(u, index)) /\ Held(UpdateShdrs(u, index)) = Held(u)
      /\ DOMAIN UpdateShdrs(u, index).scn = DOMAIN u.scn
  BY <1>1, <1>3, AlikeSound DEF Alike
<1>5. Delscn(e, e.scns[p]) = UpdateShdrs(u, index)
  BY DEF Delscn, u, index
<1> QED BY <1>1, <1>4, <1>5

LEMMA RemscnSound ==
    ASSUME NEW e, Sound(e), NEW p \in 2 .. Len(e.scns)
    PROVE  LET f == Remscn(e, e.scns[p])
           IN  /\ Sound(f) /\ DOMAIN f.scn = DOMAIN e.scn
               /\ Held(f) = Held(e) \ OfScn(e, e.scns[p])
<1> DEFINE u == Unlink(e, e.scns[p])
           num == u.scn[u.last].index + 1
<1>1. /\ Sound(u) /\ u.scns # <<>> /\ DOMAIN u.scn = DOMAIN e.scn
      /\ Held(u) = Held(e) \ OfScn(e, e.scns[p])
  BY UnlinkSound
<1>5. Remscn(e, e.scns[p]) = UpdateShnum(u, num)
  BY DEF Remscn
<1> HIDE DEF u
<1>2. num \in Nat
  BY <1>1, NotEmpty
<1> HIDE DEF num
<1>3. UpdateShnum(u, num) \in Elfs /\ Alike(u, UpdateShnum(u, num))
  BY <1>1, <1>2, UpdateShnumAlike
<1>4. /\ Sound(UpdateShnum(u, num)) /\ Held(UpdateShnum(u, num)) = Held(u)
      /\ DOMAIN UpdateShnum(u, num).scn = DOMAIN u.scn
  BY <1>1, <1>3, AlikeSound DEF Alike
<1> QED BY <1>1, <1>4, <1>5

(* The same sections in another order, with the numbers of their places. *)
LEMMA Reordered ==
    ASSUME NEW e, Sound(e), e.scns # <<>>, NEW f \in Elfs, NEW l \in Seq(Nat), f.scns = l,
           Len(l) = Len(e.scns), l[1] = 0, f.last = l[Len(l)], DOMAIN f.scn = DOMAIN e.scn,
           \A id \in DOMAIN e.scn :
               f.scn[id].new = e.scn[id].new /\ f.scn[id].data = e.scn[id].data,
           \A q \in 1 .. Len(e.scns) :
               \E r \in 1 .. Len(e.scns) : l[q] = e.scns[r] /\ f.scn[e.scns[r]].index = q - 1,
           \A r \in 1 .. Len(e.scns) : \E q \in 1 .. Len(e.scns) : l[q] = e.scns[r]
    PROVE  Sound(f) /\ Held(f) = Held(e)
<1> DEFINE n == Len(e.scns)
<1>1. /\ e \in Elfs /\ 0 \in DOMAIN e.scn /\ n \in Nat \ {0} /\ DOMAIN e.scns = 1 .. n
      /\ DOMAIN l = 1 .. n /\ e.scn[0].new /\ l # <<>>
  <2>1. /\ e \in Elfs /\ 0 \in DOMAIN e.scn /\ n \in Nat \ {0} /\ DOMAIN e.scns = 1 .. n
        /\ e.scn[0].new
    BY NotEmpty DEF Sound
  <2> QED BY <2>1
<1>2. \A r \in 1 .. n : e.scns[r] \in DOMAIN e.scn
  BY <1>1 DEF Sound
<1> HIDE DEF n
<1>3. ASSUME NEW q \in 1 .. n PROVE l[q] \in DOMAIN f.scn /\ f.scn[l[q]].index = q - 1
  <2>1. PICK r \in 1 .. n : l[q] = e.scns[r] /\ f.scn[e.scns[r]].index = q - 1
    BY DEF n
  <2> QED BY <1>2, <2>1
<1>4. ASSUME NEW p \in 1 .. n, NEW q \in 1 .. n, l[p] = l[q] PROVE p = q
  <2>1. f.scn[l[p]].index = p - 1 /\ f.scn[l[q]].index = q - 1
    BY <1>3
  <2> QED BY <1>4, <2>1
<1>5. Sound(f)
  BY ZenonT(30), <1>1, <1>3, <1>4 DEF Sound, n
<1>6. \A id \in DOMAIN e.scn : OfScn(f, id) = OfScn(e, id)
  BY DEF OfScn
<1>7. Held(f) = Held(e)
  <2> DEFINE Of(id) == OfScn(e, id)
  <2>1. Held(f) = UNION {Of(l[q]) : q \in 1 .. n}
    <3>1. \A q \in 1 .. n : OfScn(f, l[q]) = Of(l[q])
      BY <1>3, <1>6
    <3>2. Held(f) = UNION {OfScn(f, l[q]) : q \in 1 .. n}
      BY <1>1 DEF Held
    <3> HIDE DEF Of
    <3> QED BY <3>1, <3>2
  <2>2. Held(e) = UNION {Of(e.scns[r]) : r \in 1 .. n}
    BY <1>1 DEF Held
  <2>3. \A q \in 1 .. n : \E r \in 1 .. n : l[q] = e.scns[r]
    BY DEF n
  <2>4. \A r \in 1 .. n : \E q \in 1 .. n : l[q] = e.scns[r]
    BY DEF n
  <2> HIDE DEF Of
  <2>5. \A a : a \in Held(f) <=> \E q \in 1 .. n : a \in Of(l[q])
    BY <2>1
  <2>6. \A a : a \in Held(e) <=> \E r \in 1 .. n : a \in Of(e.scns[r])
    BY <2>2
  <2>7. ASSUME NEW a PROVE a \in Held(f) <=> a \in Held(e)
    <3>1. ASSUME a \in Held(f) PROVE a \in Held(e)
      <4>1. PICK q \in 1 .. n : a \in Of(l[q])
        BY <2>5, <3>1
      <4>2. PICK r \in 1 .. n : l[q] = e.scns[r]
        BY <2>3
      <4>3. a \in Of(e.scns[r])
        BY <4>1, <4>2
      <4> QED BY <2>6, <4>3
    <3>2. ASSUME a \in Held(e) PROVE a \in Held(f)
      <4>1. PICK r \in 1 .. n : a \in Of(e.scns[r])
        BY <2>6, <3>2
      <4>2. PICK q \in 1 .. n : l[q] = e.scns[r]
        BY <2>4
      <4>3. a \in Of(l[q])
        BY <4>1, <4>2
      <4> QED BY <2>5, <4>3
    <3> QED BY <3>1, <3>2
  <2> QED BY <2>7
<1> QED BY <1>5, <1>7

(* Where the place q of the list was before one element was moved from place from to
   the place behind place to, and where the one of place r is after that. *)
WasAt(from, to, q) ==
    IF to < from THEN IF q <= to \/ q > from THEN q ELSE IF q = to + 1 THEN from ELSE q - 1
    ELSE IF q < from \/ q > to THEN q ELSE IF q = to THEN from ELSE q + 1

IsAt(from, to, r) ==
    IF r = from THEN IF to < from THEN to + 1 ELSE to
    ELSE r + (IF to < r THEN 1 ELSE 0) - (IF from < r THEN 1 ELSE 0)

LEMMA MovedPlaces ==
    ASSUME NEW n \in Nat, NEW from \in 1 .. n, NEW to \in 1 .. n, from # to
    PROVE  /\ \A q \in 1 .. n : WasAt(from, to, q) \in 1 .. n
                                /\ IsAt(from, to, WasAt(from, to, q)) = q
           /\ \A r \in 1 .. n : IsAt(from, to, r) \in 1 .. n
                                /\ WasAt(from, to, IsAt(from, to, r)) = r
  BY DEF WasAt, IsAt

(* The list that the removal and the insertion make. *)
LEMMA MovedList ==
    ASSUME NEW s \in Seq(Nat), NEW from \in 1 .. Len(s), NEW to \in 1 .. Len(s), from # to,
           \A p, q \in 1 .. Len(s) : s[p] = s[q] => p = q
    PROVE  LET without == RemoveAt(s, from)
               behind  == CHOOSE p \in 1 .. Len(without) : without[p] = s[to]
               l == InsertAt(without, behind + 1, s[from])
           IN  /\ l \in Seq(Nat) /\ Len(l) = Len(s)
               /\ \A q \in 1 .. Len(s) : l[q] = s[WasAt(from, to, q)]
<1> DEFINE n == Len(s)
           without == RemoveAt(s, from)
           behind == CHOOSE p \in 1 .. Len(without) : without[p] = s[to]
           x == s[from]
           i == behind + 1
           l == InsertAt(without, i, x)
<1>1. n \in Nat /\ from \in 1 .. n /\ to \in 1 .. n /\ s[from] \in Nat
  BY ElementOf
<1>2. /\ without \in Seq(Nat) /\ Len(without) = n - 1
      /\ \A q \in 1 .. from - 1 : without[q] = s[q]
      /\ \A q \in from .. n - 1 : without[q] = s[q + 1]
  BY RemoveIs
<1> HIDE DEF without, n
<1> DEFINE b == IF to < from THEN to ELSE to - 1
<1>3. b \in 1 .. n - 1 /\ without[b] = s[to]
  <2>1. CASE to < from
    <3>1. to \in 1 .. from - 1 /\ to \in 1 .. n - 1
      BY <1>1, <2>1
    <3> QED BY <1>2, <2>1, <3>1
  <2>2. CASE ~(to < from)
    <3>1. to - 1 \in from .. n - 1 /\ to - 1 \in 1 .. n - 1 /\ to - 1 + 1 = to
      BY <1>1, <2>2
    <3> QED BY <1>2, <2>2, <3>1
  <2> QED BY <2>1, <2>2
<1>4. \A p \in 1 .. n - 1 : without[p] = s[to] => p = b
  <2> SUFFICES ASSUME NEW p \in 1 .. n - 1, without[p] = s[to] PROVE p = b
    OBVIOUS
  <2>1. CASE p < from
    <3>1. p \in 1 .. from - 1 /\ p \in 1 .. n
      BY <1>1, <2>1
    <3>2. p = to
      BY <1>1, <1>2, <3>1 DEF n
    <3> QED BY <2>1, <3>2
  <2>2. CASE ~(p < from)
    <3>1. p \in from .. n - 1 /\ p + 1 \in 1 .. n
      BY <1>1, <2>2
    <3>2. p + 1 = to
      BY <1>1, <1>2, <3>1 DEF n
    <3> QED BY <1>1, <2>2, <3>2
  <2> QED BY <2>1, <2>2
<1> HIDE DEF b
<1>5. behind = b
  <2>1. Len(without) = n - 1
    BY <1>2
  <2> QED BY <2>1, <1>3, <1>4
<1> HIDE DEF behind
<1>6. i \in 1 .. n /\ i = b + 1
  BY <1>1, <1>3, <1>5
<1> HIDE DEF i
<1>7. /\ l \in Seq(Nat) /\ Len(l) = n
      /\ \A q \in 1 .. i - 1 : l[q] = without[q]
      /\ l[i] = x
      /\ \A q \in i + 1 .. n : l[q] = without[q - 1]
  <2>1. i \in 1 .. Len(without) + 1 /\ x \in Nat
    BY <1>1, <1>2, <1>6
  <2>3. Len(without) + 1 = n
    BY <1>1, <1>2
  <2>4. without \in Seq(Nat)
    BY <1>2
  <2> HIDE DEF x
  <2>5. PICK u, j, y : u = without /\ j = i /\ y = x
    OBVIOUS
  <2>6. u \in Seq(Nat) /\ j \in 1 .. Len(u) + 1 /\ y \in Nat
    BY <2>1, <2>4, <2>5
  <2> DEFINE t == InsertAt(u, j, y)
  <2>7. t[j] = y
    BY <2>6, InsertIs
  <2>11. t \in Seq(Nat)
    BY <2>6, InsertIs
  <2>10. Len(t) = Len(u) + 1
    BY <2>6, InsertIs
  <2>8. \A q \in 1 .. j - 1 : t[q] = u[q]
    BY <2>6, InsertIs
  <2>9. \A q \in j + 1 .. Len(u) + 1 : t[q] = u[q - 1]
    BY <2>6, InsertIs
  <2>2. /\ l \in Seq(Nat) /\ Len(l) = Len(without) + 1
        /\ \A q \in 1 .. i - 1 : l[q] = without[q]
        /\ l[i] = x
        /\ \A q \in i + 1 .. Len(without) + 1 : l[q] = without[q - 1]
    BY <2>5, <2>7, <2>8, <2>9, <2>10, <2>11
  <2> QED BY <2>2, <2>3
<1> HIDE DEF l
<1>8. ASSUME NEW q \in 1 .. n PROVE l[q] = s[WasAt(from, to, q)]
  <2>1. CASE q = i
    <3>1. WasAt(from, to, q) = from
      BY <1>1, <1>6, <2>1 DEF WasAt, b
    <3> QED BY <1>7, <2>1, <3>1
  <2>2. CASE q < i
    <3>1. q \in 1 .. i - 1 /\ l[q] = without[q]
      BY SMTT(30), <1>6, <1>7, <2>2
    <3>2. CASE q < from
      <4>1. q \in 1 .. from - 1 /\ WasAt(from, to, q) = q
        BY <1>1, <1>6, <2>2, <3>2 DEF WasAt, b
      <4> QED BY <1>2, <3>1, <4>1
    <3>3. CASE ~(q < from)
      <4>1. q \in from .. n - 1 /\ WasAt(from, to, q) = q + 1
        BY <1>1, <1>6, <2>2, <3>3 DEF WasAt, b
      <4> QED BY <1>2, <3>1, <4>1
    <3> QED BY <3>2, <3>3
  <2>3. CASE q > i
    <3>1. q \in i + 1 .. n /\ l[q] = without[q - 1]
      BY SMTT(30), <1>1, <1>6, <1>7, <2>3
    <3>2. CASE q <= from
      <4>1. q - 1 \in 1 .. from - 1 /\ WasAt(from, to, q) = q - 1
        BY <1>1, <1>6, <2>3, <3>2 DEF WasAt, b
      <4> QED BY <1>2, <3>1, <4>1
    <3>3. CASE q > from
      <4>1. q - 1 \in from .. n - 1 /\ WasAt(from, to, q) = q /\ q - 1 + 1 = q
        BY <1>1, <1>6, <2>3, <3>3 DEF WasAt, b
      <4> QED BY <1>2, <3>1, <4>1
    <3> QED BY <1>1, <3>2, <3>3
  <2> QED BY <1>6, <2>1, <2>2, <2>3
<1> QED BY <1>7, <1>8 DEF l, n, x, i, behind, without

(* elfx_movscn() of a section that is not the first. *)
LEMMA MovscnSound ==
    ASSUME NEW e, Sound(e), NEW p \in 2 .. Len(e.scns), NEW r \in 1 .. Len(e.scns)
    PROVE  LET f == Movscn(e, e.scns[p], e.scns[r])
           IN  Sound(f) /\ DOMAIN f.scn = DOMAIN e.scn /\ Held(f) = Held(e)
<1> DEFINE n == Len(e.scns)
           id == e.scns[p]
           after == e.scns[r]
           from == Place(e, id)
           to == Place(e, after)
           Off(q) == (IF to < q THEN 1 ELSE 0) - (IF from < q THEN 1 ELSE 0)
           moved == [s \in DOMAIN e.scn |->
                       IF s \in Range(e.scns) THEN [e.scn[s] EXCEPT !.index = @ + Off(Place(e, s))]
                       ELSE e.scn[s]]
           without == RemoveAt(e.scns, from)
           behind == CHOOSE q \in 1 .. Len(without) : without[q] = after
           l == InsertAt(without, behind + 1, id)
           t == [moved EXCEPT ![id].index = moved[after].index + 1]
           end == IF e.last = id THEN e.scns[from - 1] ELSE IF e.last = after THEN id ELSE e.last
           f == [e EXCEPT !.scns = l, !.scn = t, !.last = end]
<1>1. /\ e \in Elfs /\ n \in Nat /\ DOMAIN e.scns = 1 .. n /\ e.scns \in Seq(Nat)
      /\ e.scn \in [DOMAIN e.scn -> SectionRecords]
      /\ p \in 1 .. n /\ p \in 2 .. n /\ r \in 1 .. n /\ e.scns # <<>>
  <2>1. e \in Elfs
    BY DEF Sound
  <2>2. /\ n \in Nat /\ DOMAIN e.scns = 1 .. n /\ e.scns \in Seq(Nat)
        /\ e.scn \in [DOMAIN e.scn -> SectionRecords]
    BY <2>1, ElfType DEF Elfs
  <2>3. p \in 1 .. n /\ p \in 2 .. n /\ r \in 1 .. n /\ n # 0
    BY <2>2
  <2> QED BY <2>1, <2>2, <2>3
<1>2. Movscn(e, id, after) = IF id = after \/ from = to + 1 THEN e ELSE f
  BY <1>1 DEF Movscn, Elfs
<1>3. from = p /\ to = r
  BY <1>1, PlaceIs
<1>4. \A q \in 1 .. n : Place(e, e.scns[q]) = q
  BY PlaceIs
<1>5. SUFFICES ASSUME p # r, p # r + 1
               PROVE  Sound(f) /\ DOMAIN f.scn = DOMAIN e.scn /\ Held(f) = Held(e)
  <2> HIDE DEF id, after, from, to, f
  <2>1. id = after => p = r
    BY <1>3 DEF from, to
  <2>2. CASE p # r /\ p # r + 1
    BY <1>2, <1>3, <1>5, <2>1, <2>2 DEF id, after
  <2>3. CASE ~(p # r /\ p # r + 1)
    <3>1. id = after \/ from = to + 1
      BY <1>3, <2>3 DEF id, after
    <3> QED BY <1>2, <3>1 DEF id, after
  <2> QED BY <2>2, <2>3
<1>6. /\ \A q \in 1 .. n : e.scns[q] \in DOMAIN e.scn /\ e.scn[e.scns[q]].index = q - 1
      /\ \A q, x \in 1 .. n : e.scns[q] = e.scns[x] => q = x
      /\ e.last = e.scns[n] /\ e.scns[1] = 0
  BY <1>1 DEF Sound
<1> HIDE DEF from, to
<1>7. /\ l \in Seq(Nat) /\ Len(l) = n
      /\ \A q \in 1 .. n : l[q] = e.scns[WasAt(p, r, q)]
  <2>1. l = LET w == RemoveAt(e.scns, p)
                b == CHOOSE q \in 1 .. Len(w) : w[q] = e.scns[r]
            IN  InsertAt(w, b + 1, e.scns[p])
    BY <1>3
  <2>2. PICK s : s = e.scns
    OBVIOUS
  <2>3. /\ s \in Seq(Nat) /\ p \in 1 .. Len(s) /\ r \in 1 .. Len(s)
        /\ \A q, x \in 1 .. Len(s) : s[q] = s[x] => q = x
    BY <1>1, <1>6, <2>2
  <2> DEFINE w == RemoveAt(s, p)
             b == CHOOSE q \in 1 .. Len(w) : w[q] = s[r]
             k == InsertAt(w, b + 1, s[p])
  <2>4. k \in Seq(Nat) /\ Len(k) = Len(s) /\ \A q \in 1 .. Len(s) : k[q] = s[WasAt(p, r, q)]
    BY ZenonT(30), <1>5, <2>3, MovedList
  <2>5. l = k
    BY <2>1, <2>2
  <2> HIDE DEF l, k
  <2> QED BY <2>2, <2>4, <2>5
<1> HIDE DEF l
<1>8. /\ \A q \in 1 .. n : WasAt(p, r, q) \in 1 .. n /\ IsAt(p, r, WasAt(p, r, q)) = q
      /\ \A x \in 1 .. n : IsAt(p, r, x) \in 1 .. n /\ WasAt(p, r, IsAt(p, r, x)) = x
  <2>1. r \in 1 .. n
    OBVIOUS
  <2> HIDE DEF n
  <2> QED BY ZenonT(30), <1>1, <1>5, <2>1, MovedPlaces
<1>9. /\ moved \in [DOMAIN e.scn -> SectionRecords]
      /\ \A s \in DOMAIN e.scn : moved[s].new = e.scn[s].new /\ moved[s].data = e.scn[s].data
      /\ \A q \in 1 .. n : q # p => moved[e.scns[q]].index = IsAt(p, r, q) - 1
  <2>0. ASSUME NEW q
        PROVE  Off(q) = (IF r < q THEN 1 ELSE 0) - (IF p < q THEN 1 ELSE 0)
    BY <1>3
  <2> HIDE DEF Off, n
  <2>1. ASSUME NEW q \in 1 .. n, q # p
        PROVE  q - 1 + Off(q) = IsAt(p, r, q) - 1 /\ IsAt(p, r, q) \in 1 .. n
    <3>1. IsAt(p, r, q) = q + (IF r < q THEN 1 ELSE 0) - (IF p < q THEN 1 ELSE 0)
      BY <2>1 DEF IsAt
    <3>2. IsAt(p, r, q) \in 1 .. n
      BY <1>8
    <3> DEFINE up == IF r < q THEN 1 ELSE 0
               down == IF p < q THEN 1 ELSE 0
    <3>3. Off(q) = up - down /\ IsAt(p, r, q) = q + up - down
      BY <2>0, <3>1
    <3>4. up \in Int /\ down \in Int /\ q \in Int
      OBVIOUS
    <3> HIDE DEF up, down
    <3>5. q - 1 + (up - down) = (q + up - down) - 1
      BY <3>4
    <3> QED BY <3>2, <3>3, <3>5
  <2>2. p - 1 + Off(p) \in Nat
    BY <1>1, <2>0
  <2>3. \A q \in 1 .. n : q - 1 + Off(q) \in Nat
    <3> SUFFICES ASSUME NEW q \in 1 .. n PROVE q - 1 + Off(q) \in Nat
      OBVIOUS
    <3>1. CASE q = p
      BY <2>2, <3>1
    <3>2. CASE q # p
      <4>1. q - 1 + Off(q) = IsAt(p, r, q) - 1 /\ IsAt(p, r, q) \in 1 .. n
        BY <2>1, <3>2
      <4>2. IsAt(p, r, q) - 1 \in Nat
        BY <4>1
      <4> QED BY <4>1, <4>2
    <3> QED BY <3>1, <3>2
  <2>4. ASSUME NEW s \in DOMAIN e.scn
        PROVE  /\ moved[s] \in SectionRecords
               /\ moved[s].new = e.scn[s].new /\ moved[s].data = e.scn[s].data
    <3>1. CASE s \in Range(e.scns)
      <4>1. PICK q \in 1 .. n : s = e.scns[q]
        BY <1>1, <3>1 DEF Range
      <4>2. Place(e, s) = q /\ e.scn[s].index = q - 1
        BY <1>4, <1>6, <4>1
      <4>3. e.scn[s].index + Off(Place(e, s)) \in Nat
        BY <2>3, <4>2
      <4> QED BY ZenonT(30), <1>1, <2>4, <3>1, <4>3 DEF SectionRecords
    <3>2. CASE s \notin Range(e.scns)
      BY <1>1, <2>4, <3>2
    <3> QED BY <3>1, <3>2
  <2>5. ASSUME NEW q \in 1 .. n, q # p
        PROVE  moved[e.scns[q]].index = IsAt(p, r, q) - 1
    <3>1. /\ e.scns[q] \in Range(e.scns) /\ Place(e, e.scns[q]) = q
          /\ e.scns[q] \in DOMAIN e.scn /\ e.scn[e.scns[q]].index = q - 1
      BY <1>1, <1>4, <1>6 DEF Range
    <3>2. e.scn[e.scns[q]] \in SectionRecords
      BY <1>1, <3>1
    <3>3. moved[e.scns[q]].index = q - 1 + Off(q)
      BY <3>1, <3>2 DEF SectionRecords
    <3> QED BY <2>1, <2>5, <3>3
  <2> HIDE DEF moved
  <2>6. moved = [s \in DOMAIN e.scn |-> moved[s]] /\ DOMAIN moved = DOMAIN e.scn
    BY DEF moved
  <2> QED BY <2>4, <2>5, <2>6
<1> HIDE DEF moved, Off
<1>10. id \in DOMAIN e.scn /\ after \in DOMAIN e.scn /\ id # after
  BY <1>1, <1>5, <1>6
<1>11. moved[after].index + 1 = IsAt(p, r, p) - 1 /\ IsAt(p, r, p) - 1 \in Nat
  <2>1. moved[after].index = IsAt(p, r, r) - 1
    BY <1>5, <1>9
  <2>2. IsAt(p, r, r) + 1 = IsAt(p, r, p) /\ IsAt(p, r, r) \in 1 .. n
    <3> HIDE DEF n
    <3> QED BY <1>1, <1>5, <1>8 DEF IsAt
  <2> HIDE DEF n, after
  <2> QED BY <1>1, <2>1, <2>2
<1>12. /\ t \in [DOMAIN e.scn -> SectionRecords] /\ DOMAIN t = DOMAIN e.scn
       /\ \A s \in DOMAIN e.scn : t[s].new = e.scn[s].new /\ t[s].data = e.scn[s].data
       /\ \A q \in 1 .. n : t[e.scns[q]].index = IsAt(p, r, q) - 1
  <2> DEFINE x == [moved[id] EXCEPT !.index = moved[after].index + 1]
  <2>1. moved[id] \in SectionRecords
    BY <1>9, <1>10
  <2> HIDE DEF id, after, n
  <2>2. x \in SectionRecords /\ x.index = IsAt(p, r, p) - 1 /\ x.new = moved[id].new /\ x.data = moved[id].data
    BY <1>11, <2>1 DEF SectionRecords
  <2>3. t = [moved EXCEPT ![id] = x]
    BY <1>9, <2>1 DEF SectionRecords
  <2> HIDE DEF x
  <2>4. /\ t \in [DOMAIN e.scn -> SectionRecords] /\ t[id] = x
        /\ \A s \in DOMAIN e.scn : s # id => t[s] = moved[s]
    BY <1>9, <1>10, <2>2, <2>3
  <2> HIDE DEF t
  <2>5. \A s \in DOMAIN e.scn : t[s].new = e.scn[s].new /\ t[s].data = e.scn[s].data
    BY <1>9, <1>10, <2>2, <2>4
  <2>6. ASSUME NEW q \in 1 .. n PROVE t[e.scns[q]].index = IsAt(p, r, q) - 1
    <3>1. CASE q = p
      BY <2>2, <2>4, <3>1 DEF id
    <3>2. CASE q # p
      <4>1. e.scns[q] # id /\ e.scns[q] \in DOMAIN e.scn
        BY <1>1, <1>6, <3>2 DEF id, n
      <4> QED BY <1>9, <2>4, <3>2, <4>1
    <3> QED BY <3>1, <3>2
  <2> QED BY <2>4, <2>5, <2>6
<1> HIDE DEF t
<1>13. end = l[n] /\ end \in Int /\ l[1] = 0
  <2>1. e.scns[n] = id <=> n = p
    BY SMTT(30), <1>1, <1>6
  <2>2. e.scns[n] = after <=> n = r
    BY SMTT(30), <1>1, <1>6
  <2>3. 1 \in 1 .. n /\ n \in 1 .. n /\ p - 1 \in 1 .. n
    BY <1>1
  <2>4. end = e.scns[WasAt(p, r, n)]
    <3> HIDE DEF id, after
    <3>1. end = IF n = p THEN e.scns[p - 1] ELSE IF n = r THEN id ELSE e.scns[n]
      BY <1>3, <1>6, <2>1, <2>2
    <3>2. WasAt(p, r, n) = IF n = p THEN p - 1 ELSE IF n = r THEN p ELSE n
      <4> HIDE DEF n
      <4> QED BY <1>1, <1>5 DEF WasAt
    <3> HIDE DEF end
    <3> QED BY <3>1, <3>2 DEF id
  <2>5. WasAt(p, r, 1) = 1
    BY <1>1, <1>5 DEF WasAt
  <2>6. l[n] = end /\ l[1] = 0
    BY <1>6, <1>7, <2>3, <2>4, <2>5
  <2>7. l[n] \in Nat
    BY <1>7, <2>3, ElementOf
  <2> QED BY <2>6, <2>7
<1> HIDE DEF end
<1>14. f \in Elfs /\ f.scns = l /\ f.last = end /\ f.scn = t
  <2>1. t \in Tables
    <3>1. e.scn \in Tables
      BY <1>1 DEF Elfs
    <3> QED BY <1>12, <3>1, TableKept
  <2> QED BY <1>1, <1>7, <1>13, <2>1 DEF Elfs
<1> HIDE DEF f
<1>15. \A q \in 1 .. n : \E y \in 1 .. n : l[q] = e.scns[y] /\ f.scn[e.scns[y]].index = q - 1
  <2> SUFFICES ASSUME NEW q \in 1 .. n
               PROVE  \E y \in 1 .. n : l[q] = e.scns[y] /\ f.scn[e.scns[y]].index = q - 1
    OBVIOUS
  <2>1. LET y == WasAt(p, r, q) IN y \in 1 .. n /\ l[q] = e.scns[y] /\ t[e.scns[y]].index = q - 1
    BY <1>7, <1>8, <1>12
  <2> QED BY <1>14, <2>1
<1>16. \A y \in 1 .. n : \E q \in 1 .. n : l[q] = e.scns[y]
  BY <1>7, <1>8
<1>17. Sound(f) /\ Held(f) = Held(e)
  <2>1. /\ f \in Elfs /\ l \in Seq(Nat) /\ f.scns = l /\ Len(l) = Len(e.scns) /\ l[1] = 0
        /\ f.last = l[Len(l)] /\ DOMAIN f.scn = DOMAIN e.scn
        /\ \A s \in DOMAIN e.scn : f.scn[s].new = e.scn[s].new /\ f.scn[s].data = e.scn[s].data
    BY <1>7, <1>12, <1>13, <1>14
  <2> QED BY <1>1, <1>15, <1>16, <2>1, Reordered
<1> QED BY <1>12, <1>14, <1>17

-----------------------------------------------------------------------------
(* Buffers of a section that was loaded or laid out: the same ones, elsewhere. *)
SameBuffers(data, other) ==
    /\ data \in Seq(Datas) /\ Len(data) = Len(other)
    /\ \A k \in 1 .. Len(other) : data[k].new = other[k].new

LEMMA PartType ==
    ASSUME NEW image \in SUBSET Pieces, NEW off \in Int, NEW size \in Nat
    PROVE  Part(image, off, size) \in SUBSET Pieces
<1> DEFINE t == {p \in image : p.at >= off /\ p.at + p.size <= off + size}
<1>1. ASSUME NEW p \in t PROVE [p EXCEPT !.at = @ + (-off)] \in Pieces
  <2>1. p \in Pieces
    OBVIOUS
  <2> QED BY <2>1 DEF Pieces
<1>2. Part(image, off, size) = {[p EXCEPT !.at = @ + (-off)] : p \in t}
  BY DEF Part, Shifted
<1> HIDE DEF t
<1> QED BY <1>1, <1>2

LEMMA LoadedType ==
    ASSUME NEW e \in Elfs, NEW s \in SectionRecords
    PROVE  LoadData(e, s).ok \in BOOLEAN /\ SameBuffers(LoadData(e, s).data, s.data)
<1>1. s.data \in Seq(Datas)
  BY DEF SectionRecords
<1>2. CASE s.data = <<>>
  BY <1>2 DEF LoadData, SameBuffers
<1>3. CASE s.data # <<>>
  <2> DEFINE d == s.data[1]
             Is(y) == [ok |-> TRUE, data |-> [s.data EXCEPT ![1] = y]]
             buf == Part(e.image, s.s_offset, d.size)
             full == [d EXCEPT !.loaded = TRUE, !.null = FALSE, !.buf = buf]
  <2>1. d \in Datas /\ Len(s.data) \in Nat /\ 1 \in 1 .. Len(s.data)
    BY <1>1, <1>3
  <2>2. buf \in SUBSET Pieces
    <3>1. e.image \in SUBSET Pieces /\ s.s_offset \in Int /\ d.size \in Nat
      <4>1. e.image \in SUBSET Pieces
        BY DEF Elfs
      <4>2. s.s_offset \in Int
        BY DEF SectionRecords
      <4> HIDE DEF d
      <4>3. d.size \in Nat
        BY <2>1 DEF Datas
      <4> QED BY <4>1, <4>2, <4>3
    <3> HIDE DEF d
    <3> QED BY <3>1, PartType
  <2>3. /\ LoadData(e, s).ok \in BOOLEAN
        /\ \/ LoadData(e, s).data = s.data
           \/ LoadData(e, s).data = [s.data EXCEPT ![1] = d]
           \/ LoadData(e, s).data = [s.data EXCEPT ![1] = full]
    BY <1>3 DEF LoadData, GetData
  <2> HIDE DEF buf
  <2>4. full \in Datas /\ full.new = d.new
    BY <2>1, <2>2 DEF Datas
  <2>5. ASSUME NEW y \in Datas, y.new = d.new
        PROVE  SameBuffers([s.data EXCEPT ![1] = y], s.data)
    <3> DEFINE t == [s.data EXCEPT ![1] = y]
    <3>1. t \in Seq(Datas) /\ Len(t) = Len(s.data)
      BY <1>1, <2>1, <2>5
    <3>2. \A k \in 1 .. Len(s.data) : t[k] = IF k = 1 THEN y ELSE s.data[k]
      BY <1>1
    <3> HIDE DEF t
    <3> QED BY <2>5, <3>1, <3>2 DEF SameBuffers, t
  <2> HIDE DEF full, d
  <2>6. SameBuffers(s.data, s.data)
    BY <1>1 DEF SameBuffers
  <2> QED BY <2>1, <2>3, <2>4, <2>5, <2>6
<1> QED BY <1>2, <1>3

LEMMA AlignIs ==
    ASSUME NEW n \in Nat, NEW a \in Nat
    PROVE  Align(n, a) \in Nat /\ Align(n, a) >= n
<1>1. CASE a > 1
  <2>1. (n + (a - 1)) % a \in 0 .. a - 1
    BY <1>1
  <2> QED BY <1>1, <2>1 DEF Align
<1>2. CASE ~(a > 1)
  BY <1>2 DEF Align
<1> QED BY <1>1, <1>2

(* scn_data_layout() so far: the buffers are one behind the other, at places their
   d_align allows, or, with ELF_F_LAYOUT, where they were; all are inside. *)
Laid(e, seq, k, acc) ==
    /\ acc.len \in Nat /\ acc.align \in Alignments \ {0}
    /\ acc.data \in Seq(Datas) /\ Len(acc.data) = k
    /\ \A j \in 1 .. k :
           LET d == acc.data[j]
           IN  /\ d.new = seq[j].new /\ d.size = seq[j].size /\ d.align = seq[j].align
               /\ d.off + d.size <= acc.len
               /\ ~Keeps(e) => d.off % Higher(1, d.align) = 0 /\ d.align <= acc.align
               /\ ~Keeps(e) /\ j > 1 => acc.data[j - 1].off + acc.data[j - 1].size <= d.off
    /\ acc.align = 1 \/ \E j \in 1 .. k : acc.align = seq[j].align

D == INSTANCE FoldProofs WITH Op <- PutData, Inv <- Laid

LEMMA AlignDivides ==
    ASSUME NEW n \in Nat, NEW a \in Nat
    PROVE  Align(n, a) % Higher(1, a) = 0
<1>1. CASE a > 1
  <2> DEFINE m == n + (a - 1)
  <2>1. m \in Nat /\ Higher(1, a) = a /\ Align(n, a) = m - (m % a)
    BY <1>1 DEF Align, Higher
  <2> HIDE DEF m
  <2>2. m = a * (m \div a) + (m % a) /\ m \div a \in Nat
    BY <1>1, <2>1
  <2>3. PICK q \in Nat : m - (m % a) = a * q
    BY <1>1, <2>1, <2>2
  <2>4. (a * q) % a = 0
    BY <1>1
  <2> QED BY <2>1, <2>3, <2>4
<1>2. CASE ~(a > 1)
  <2>1. Higher(1, a) = 1
    BY <1>2 DEF Higher
  <2>2. Align(n, a) \in Int
    BY AlignIs
  <2> QED BY <2>1, <2>2
<1> QED BY <1>1, <1>2

LEMMA PutDataLaid ==
    ASSUME NEW e, NEW seq \in Seq(Datas), NEW k \in 1 .. Len(seq), NEW acc, Laid(e, seq, k - 1, acc)
    PROVE  Laid(e, seq, k, PutData(e, acc, seq[k]))
<1> DEFINE d == seq[k]
           at == IF Keeps(e) THEN d.off ELSE Align(acc.len, d.align)
           put == [d EXCEPT !.off = at, !.dirty = @ \/ at # d.off]
           len == IF Keeps(e) THEN Higher(acc.len, at + d.size) ELSE at + d.size
           align == IF Keeps(e) THEN acc.align ELSE Higher(acc.align, d.align)
           r == PutData(e, acc, d)
<1>1. r = [len |-> len, align |-> align, data |-> Append(acc.data, put)]
  BY DEF PutData
<1>2. d \in Datas /\ k \in Nat \ {0} /\ k - 1 \in Nat
  <2>1. Len(seq) \in Nat
    OBVIOUS
  <2> QED BY <2>1
<1> HIDE DEF d
<1>3. /\ d.size \in Nat /\ d.align \in Nat /\ d.off \in Nat /\ acc.len \in Nat
      /\ acc.align \in Nat \ {0} /\ acc.data \in Seq(Datas) /\ Len(acc.data) = k - 1
      /\ d.align \in Alignments /\ acc.align \in Alignments
  BY <1>2, Numbers DEF Laid, Datas
<1>4. /\ at \in Nat
      /\ ~Keeps(e) => at >= acc.len /\ at % Higher(1, d.align) = 0
  BY <1>3, AlignIs, AlignDivides
<1> HIDE DEF at
<1>5. put \in Datas /\ put.off = at /\ put.size = d.size /\ put.align = d.align /\ put.new = d.new
  BY <1>2, <1>4 DEF Datas
<1> HIDE DEF put
<1>6. /\ len \in Nat /\ align \in Nat /\ align \in Alignments \ {0} /\ len >= acc.len /\ at + d.size <= len
      /\ ~Keeps(e) => d.align <= align /\ acc.align <= align
      /\ align = acc.align \/ align = d.align
  <2>1. CASE Keeps(e)
    BY SMTT(30), <1>3, <1>4, <2>1 DEF Higher
  <2>2. CASE ~Keeps(e)
    <3>1. len = at + d.size /\ align = Higher(acc.align, d.align)
      BY <2>2
    <3> HIDE DEF len, align
    <3>2. Higher(acc.align, d.align) \in {acc.align, d.align}
      BY DEF Higher
    <3>3. d.align <= align /\ acc.align <= align /\ align \in Nat \ {0}
      BY <1>3, <3>1 DEF Higher
    <3>4. align \in Alignments
      BY <1>3, <3>1, <3>2
    <3> QED BY SMTT(30), <1>3, <1>4, <2>2, <3>1, <3>2, <3>3, <3>4
  <2> QED BY <2>1, <2>2
<1> HIDE DEF len, align
<1> DEFINE l == Append(acc.data, put)
<1>7. /\ l \in Seq(Datas) /\ Len(l) = k /\ l[k] = put
      /\ \A j \in 1 .. k - 1 : l[j] = acc.data[j]
  <2>1. PICK b : b = acc.data
    OBVIOUS
  <2>2. /\ Append(b, put) \in Seq(Datas) /\ Len(Append(b, put)) = Len(b) + 1
        /\ Append(b, put)[Len(b) + 1] = put /\ \A j \in 1 .. Len(b) : Append(b, put)[j] = b[j]
    BY <1>3, <1>5, <2>1, DataAppended
  <2>3. Len(b) = k - 1 /\ Len(b) + 1 = k
    BY <1>2, <1>3, <2>1
  <2> QED BY <2>1, <2>2, <2>3
<1> HIDE DEF l
<1>8. r.len = len /\ r.align = align /\ r.data = l
  BY <1>1 DEF l
<1> HIDE DEF r
<1>9. ASSUME NEW j \in 1 .. k
      PROVE  /\ l[j].new = seq[j].new /\ l[j].size = seq[j].size /\ l[j].align = seq[j].align
             /\ l[j].off + l[j].size <= len
             /\ ~Keeps(e) => l[j].off % Higher(1, l[j].align) = 0 /\ l[j].align <= align
             /\ ~Keeps(e) /\ j > 1 => l[j - 1].off + l[j - 1].size <= l[j].off
  <2>1. CASE j = k
    <3>1. /\ l[j].new = seq[j].new /\ l[j].size = seq[j].size /\ l[j].align = seq[j].align
          /\ l[j].off + l[j].size <= len
          /\ ~Keeps(e) => l[j].off % Higher(1, l[j].align) = 0 /\ l[j].align <= align
      BY <1>4, <1>5, <1>6, <1>7, <2>1 DEF d
    <3>2. ASSUME ~Keeps(e), j > 1 PROVE l[j - 1].off + l[j - 1].size <= l[j].off
      <4>1. j - 1 \in 1 .. k - 1
        BY <1>2, <2>1, <3>2
      <4>2. PICK b \in Datas : b = acc.data[j - 1] /\ b = l[j - 1] /\ b.off + b.size <= acc.len
        <5>1. acc.data[j - 1] \in Datas
          BY <1>3, <4>1, ElementOf
        <5> QED BY <1>7, <4>1, <5>1 DEF Laid
      <4>3. b.off \in Nat /\ b.size \in Nat
        BY DEF Datas
      <4> QED BY SMTT(30), <1>3, <1>4, <1>5, <1>7, <2>1, <3>2, <4>2, <4>3
    <3> QED BY <3>1, <3>2
  <2>2. CASE j # k
    <3>1. j \in 1 .. k - 1
      BY <1>2, <2>2
    <3>2. PICK b \in Datas : b = acc.data[j] /\ b = l[j]
      BY <1>3, <1>7, <3>1, ElementOf
    <3>3. b.off \in Nat /\ b.size \in Nat /\ b.align \in Nat
      BY Numbers DEF Datas
    <3>4. /\ b.new = seq[j].new /\ b.size = seq[j].size /\ b.align = seq[j].align
          /\ b.off + b.size <= acc.len
          /\ ~Keeps(e) => b.off % Higher(1, b.align) = 0 /\ b.align <= acc.align
      BY <3>1, <3>2 DEF Laid
    <3>5. ASSUME ~Keeps(e), j > 1 PROVE l[j - 1].off + l[j - 1].size <= l[j].off
      <4>1. j - 1 \in 1 .. k - 1
        BY <3>1, <3>5
      <4>2. l[j - 1] = acc.data[j - 1]
        BY <1>7, <4>1
      <4> QED BY <3>1, <3>2, <3>5, <4>2 DEF Laid
    <3>6. b.off + b.size <= len
      <4>1. b.off + b.size <= acc.len
        BY <3>4
      <4> QED BY <1>3, <1>6, <3>3, <4>1
    <3>7. ~Keeps(e) => b.align <= align
      <4>1. ~Keeps(e) => b.align <= acc.align
        BY <3>4
      <4> QED BY <1>3, <1>6, <3>3, <4>1
    <3> QED BY <3>2, <3>4, <3>5, <3>6, <3>7
  <2> QED BY <2>1, <2>2
<1>10. align = 1 \/ \E j \in 1 .. k : align = seq[j].align
  <2>1. CASE align = d.align
    <3>1. k \in 1 .. k
      BY <1>2
    <3> QED BY <2>1, <3>1 DEF d
  <2>2. CASE align = acc.align
    <3>1. \A j \in 1 .. k - 1 : j \in 1 .. k
      BY <1>2
    <3> QED BY <2>2, <3>1 DEF Laid
  <2> QED BY <1>6, <2>1, <2>2
<1>11. Laid(e, seq, k, r)
  BY <1>6, <1>7, <1>8, <1>9, <1>10 DEF Laid
<1> QED BY <1>11 DEF r, d

(* What scn_data_layout() comes to. *)
LEMMA DataLaid ==
    ASSUME NEW e \in Elfs, NEW s \in SectionRecords
    PROVE  /\ Laid(e, LoadData(e, s).data, Len(s.data), DataLayout(e, s))
           /\ SameBuffers(DataLayout(e, s).data, s.data)
<1> DEFINE base == [len |-> 0, align |-> 1, data |-> <<>>]
           seq == LoadData(e, s).data
           n == Len(s.data)
<1>1. DataLayout(e, s) = D!Fold(e, base, seq)
  BY DEF DataLayout, D!Fold, FoldLeft, MapThenFoldSet, Max, D!FoldLeft, D!MapThenFoldSet, D!Max
<1>2. /\ seq \in Seq(Datas) /\ Len(seq) = n /\ n \in Nat /\ DOMAIN seq = 1 .. n
      /\ \A k \in 1 .. n : seq[k].new = s.data[k].new
  <2>1. SameBuffers(seq, s.data) /\ s.data \in Seq(Datas)
    BY LoadedType DEF SectionRecords
  <2> HIDE DEF seq
  <2> QED BY <2>1 DEF SameBuffers
<1> HIDE DEF seq, n
<1>3. Laid(e, seq, 0, base)
  BY Numbers DEF Laid
<1> HIDE DEF base
<1>4. ASSUME NEW k \in 1 .. n, NEW acc, Laid(e, seq, k - 1, acc)
      PROVE  Laid(e, seq, k, PutData(e, acc, seq[k]))
  BY <1>2, <1>4, PutDataLaid
<1>5. Laid(e, seq, n, D!Fold(e, base, seq))
  BY <1>2, <1>3, <1>4, D!FoldInvariant
<1> DEFINE r == DataLayout(e, s)
<1>6. Laid(e, seq, n, r)
  BY <1>1, <1>5
<1> HIDE DEF r
<1>7. SameBuffers(r.data, s.data)
  BY <1>2, <1>6 DEF Laid, SameBuffers, n
<1> QED BY <1>6, <1>7 DEF r, seq, n

-----------------------------------------------------------------------------
(* A section that was laid out is the same section. *)
SameScn(t, s) ==
    /\ t \in SectionRecords
    /\ t.index = s.index /\ t.new = s.new /\ t.type = s.type
    /\ SameBuffers(t.data, s.data)

(* The sections so far: what was laid out of them has a place, and they are the same. *)
Seen(e, seq, k, acc) ==
    /\ acc \in [ok : BOOLEAN, off : Nat, scn : [DOMAIN e.scn -> SectionRecords]]
    /\ \A id \in DOMAIN e.scn : SameScn(acc.scn[id], e.scn[id])

S == INSTANCE FoldProofs WITH Op <- LayoutScn, Inv <- Seen

LEMMA SameScnTwice ==
    ASSUME NEW s, NEW t, NEW u, SameScn(t, s), SameScn(u, t)
    PROVE  SameScn(u, s)
  BY DEF SameScn, SameBuffers

LEMMA SameScnSelf ==
    ASSUME NEW s \in SectionRecords
    PROVE  SameScn(s, s)
<1>1. s.data \in Seq(Datas)
  BY DEF SectionRecords
<1> QED BY <1>1 DEF SameScn, SameBuffers

(* What becomes of one section. *)
LEMMA ScnLaid ==
    ASSUME NEW e \in Elfs, NEW s \in SectionRecords, NEW at \in Nat
    PROVE  LET d == DataLayout(e, s)
           IN  /\ d.len \in Nat /\ d.align \in Nat /\ d.align \in Alignments
               /\ SameScn([s EXCEPT !.data = d.data], s)
               /\ SameScn(Placed(s, at, d), s)
<1> DEFINE d == DataLayout(e, s)
<1>1. /\ d.len \in Nat /\ d.align \in Nat /\ d.align \in Alignments
      /\ d.data \in Seq(Datas) /\ SameBuffers(d.data, s.data)
  <2>1. Laid(e, LoadData(e, s).data, Len(s.data), d) /\ SameBuffers(d.data, s.data)
    BY DataLaid
  <2> QED BY <2>1, Numbers DEF Laid
<1> HIDE DEF d
<1>2. SameScn([s EXCEPT !.data = d.data], s)
  <2> DEFINE t == [s EXCEPT !.data = d.data]
  <2>1. t \in SectionRecords /\ t.index = s.index /\ t.new = s.new /\ t.type = s.type /\ t.data = d.data
    BY <1>1 DEF SectionRecords
  <2> HIDE DEF t
  <2> QED BY <1>1, <2>1 DEF SameScn, t
<1>3. SameScn(Placed(s, at, d), s)
  <2> DEFINE t == Placed(s, at, d)
  <2>1. t \in SectionRecords /\ t.index = s.index /\ t.new = s.new /\ t.type = s.type /\ t.data = d.data
    BY <1>1 DEF SectionRecords, Placed
  <2> HIDE DEF t
  <2> QED BY <1>1, <2>1 DEF SameScn, t
<1> QED BY <1>1, <1>2, <1>3 DEF d

LEMMA SeenStep ==
    ASSUME NEW e, Sound(e), NEW seq, NEW p \in 1 .. Len(e.scns), NEW acc, Seen(e, seq, p - 1, acc)
    PROVE  Seen(e, seq, p, LayoutScn(e, acc, p))
<1> DEFINE id == e.scns[p]
           s == acc.scn[id]
           d == DataLayout(e, s)
           r == LayoutScn(e, acc, p)
           at == Align(acc.off, d.align)
<1>1. e \in Elfs /\ id \in DOMAIN e.scn /\ s \in SectionRecords
      /\ acc.ok \in BOOLEAN /\ acc.off \in Nat /\ acc.scn \in [DOMAIN e.scn -> SectionRecords]
  <2>1. e \in Elfs /\ p \in DOMAIN e.scns
    BY ElfType DEF Sound
  <2>2. id \in DOMAIN e.scn
    BY <2>1 DEF Sound
  <2> QED BY <2>1, <2>2 DEF Seen
<1>2. \/ r = acc \/ r = [acc EXCEPT !.ok = FALSE]
      \/ r = CheckKept(e, acc, p, d) \/ r = PlaceNext(acc, id, at, d)
  BY DEF LayoutScn
<1> HIDE DEF r, d, s
<1>3. /\ d.len \in Nat /\ d.align \in Nat
      /\ SameScn([s EXCEPT !.data = d.data], s)
      /\ \A x \in Nat : SameScn(Placed(s, x, d), s)
  BY <1>1, ScnLaid DEF d
<1>4. ASSUME NEW t, SameScn(t, s), NEW off \in Nat, NEW ok \in BOOLEAN,
             r = [ok |-> ok, off |-> off, scn |-> [acc.scn EXCEPT ![id] = t]]
      PROVE  Seen(e, seq, p, r)
  <2> DEFINE scn == [acc.scn EXCEPT ![id] = t]
  <2> HIDE DEF id
  <2>1. scn \in [DOMAIN e.scn -> SectionRecords] /\ scn[id] = t
        /\ \A other \in DOMAIN e.scn : other # id => scn[other] = acc.scn[other]
    BY <1>1, <1>4 DEF SameScn
  <2> HIDE DEF scn
  <2>2. SameScn(s, e.scn[id]) /\ \A other \in DOMAIN e.scn : SameScn(acc.scn[other], e.scn[other])
    BY <1>1 DEF Seen, s
  <2>3. SameScn(t, e.scn[id])
    BY <1>4, <2>2, SameScnTwice
  <2>4. \A other \in DOMAIN e.scn : SameScn(scn[other], e.scn[other])
    BY <2>1, <2>2, <2>3
  <2>5. r = [ok |-> ok, off |-> off, scn |-> scn]
    BY <1>4 DEF scn
  <2>6. r \in [ok : BOOLEAN, off : Nat, scn : [DOMAIN e.scn -> SectionRecords]] /\ r.scn = scn
    <3> DEFINE T == [DOMAIN e.scn -> SectionRecords]
    <3>1. ok \in BOOLEAN /\ off \in Nat /\ scn \in T
      BY <1>4, <2>1
    <3> HIDE DEF T
    <3>2. r \in [ok : BOOLEAN, off : Nat, scn : T] /\ r.scn = scn
      BY <2>5, <3>1
    <3> QED BY <3>2 DEF T
  <2> QED BY <2>4, <2>6 DEF Seen
<1>5. CASE r = acc \/ r = [acc EXCEPT !.ok = FALSE]
  <2>1. r \in [ok : BOOLEAN, off : Nat, scn : [DOMAIN e.scn -> SectionRecords]] /\ r.scn = acc.scn
    BY <1>5 DEF Seen
  <2> QED BY <2>1 DEF Seen, r
<1>6. CASE r = CheckKept(e, acc, p, d)
  <2> DEFINE ok == d.len <= s.size /\ ~Overlaps(e, acc.scn, p, acc.off)
             off == IF ok THEN Higher(acc.off, End(s)) ELSE acc.off
             t == [s EXCEPT !.data = d.data]
  <2>1. r = [ok |-> ok, off |-> off, scn |-> [acc.scn EXCEPT ![id] = t]]
    BY <1>1, <1>6 DEF CheckKept, s
  <2>2. End(s) \in Nat
    <3>1. s.offset \in Nat /\ s.size \in Nat
      BY <1>1 DEF SectionRecords
    <3> QED BY <3>1 DEF End
  <2>3. off \in Nat
    BY <1>1, <2>2 DEF Higher
  <2>4. ok \in BOOLEAN
    BY DEF Overlaps
  <2> HIDE DEF off, ok, t, id
  <2>5. SameScn(t, s)
    BY <1>3 DEF t
  <2> QED BY <1>4, <2>1, <2>3, <2>4, <2>5 DEF r
<1>7. CASE r = PlaceNext(acc, id, at, d)
  <2> DEFINE off == IF acc.scn[id].type = SHT_NOBITS THEN at ELSE at + d.len
             t == Placed(s, at, d)
  <2>1. r = [ok |-> TRUE, off |-> off, scn |-> [acc.scn EXCEPT ![id] = t]]
    BY <1>1, <1>7 DEF PlaceNext, s
  <2>2. at \in Nat
    BY <1>1, <1>3, AlignIs
  <2> HIDE DEF at
  <2>3. off \in Nat
    BY <1>3, <2>2
  <2> HIDE DEF off, t, id
  <2>5. SameScn(t, s)
    BY <1>3, <2>2 DEF t
  <2> QED BY <1>4, <2>1, <2>3, <2>5 DEF r
<1> QED BY <1>2, <1>5, <1>6, <1>7 DEF r

LEMMA LayoutFirstIs ==
    ASSUME NEW e \in Elfs, NEW s0 \in SectionRecords
    PROVE  SameScn(LayoutFirst(e, s0), s0)
<1> DEFINE ext == e.phnum >= PN_XNUM
           s1 == IF ~ext THEN s0
                 ELSE IF e.class = 32 THEN [s0 EXCEPT !.info = e.phnum]
                 ELSE [s0 EXCEPT !.offset = e.phnum * HighWord + (@ % HighWord)]
           s2 == IF Keeps(e) THEN s1
                 ELSE [s1 EXCEPT !.offset = 0, !.size = 0, !.addralign = 0]
           t == [s2 EXCEPT !.dirty = @ \/ s1 # s0 \/ s2 # s1]
           Same(s) == /\ s \in SectionRecords /\ s.index = s0.index /\ s.new = s0.new
                      /\ s.type = s0.type /\ s.data = s0.data
<1>1. e.phnum \in Nat /\ HighWord \in Nat \ {0}
  BY Numbers DEF Elfs
<1>2. Same(s1)
  <2> DEFINE off == e.phnum * HighWord + (s0.offset % HighWord)
  <2>1. off \in Nat
    <3>1. s0.offset \in Nat
      BY DEF SectionRecords
    <3>2. s0.offset % HighWord \in Nat
      BY <1>1, <3>1
    <3>3. e.phnum * HighWord \in Nat
      BY <1>1
    <3> QED BY <3>2, <3>3
  <2>2. s1 = IF ~ext THEN s0 ELSE IF e.class = 32 THEN [s0 EXCEPT !.info = e.phnum]
             ELSE [s0 EXCEPT !.offset = off]
    OBVIOUS
  <2> HIDE DEF off, s1, ext
  <2> QED BY <1>1, <2>1, <2>2 DEF SectionRecords
<1> HIDE DEF s1
<1>3. Same(s2)
  BY <1>2, Numbers DEF SectionRecords
<1> HIDE DEF s2
<1>5. Same(t)
  BY <1>3 DEF SectionRecords
<1>6. LayoutFirst(e, s0) = t
  BY DEF LayoutFirst, s1, s2
<1> HIDE DEF t
<1>7. s0.data \in Seq(Datas)
  BY DEF SectionRecords
<1> QED BY <1>5, <1>6, <1>7 DEF SameScn, SameBuffers

(* The table the layout begins with. *)
First(e) ==
    IF e.scns = <<>> THEN e.scn ELSE [e.scn EXCEPT ![e.scns[1]] = LayoutFirst(e, e.scn[e.scns[1]])]

Places(e) == [p \in 1 .. Len(e.scns) |-> p]

(* Where the sections may begin. *)
Base(e) ==
    Higher(FileSize(e.class, "ehdr"),
           IF e.phnum = 0 THEN 0 ELSE Phoff(e) + e.phnum * FileSize(e.class, "phdr"))

LEMMA SizesAre ==
    ASSUME NEW class \in {32, 64}
    PROVE  /\ FileSize(class, "ehdr") \in Nat \ {0} /\ FileSize(class, "phdr") \in Nat \ {0}
           /\ FileSize(class, "shdr") \in Nat \ {0} /\ FileSize(class, "addr") \in Nat \ {0}
<1>1. CASE class = 32
  BY <1>1 DEF FileSize
<1>2. CASE class = 64
  BY <1>2 DEF FileSize
<1> QED BY <1>1, <1>2

LEMMA BaseIs ==
    ASSUME NEW e \in Elfs
    PROVE  /\ Phoff(e) \in Nat /\ Base(e) \in Nat /\ FileSize(e.class, "ehdr") <= Base(e)
           /\ e.phnum # 0 => Phoff(e) + e.phnum * FileSize(e.class, "phdr") <= Base(e)
           /\ e.phnum * FileSize(e.class, "phdr") \in Nat
<1> DEFINE eh == FileSize(e.class, "ehdr")
           ph == FileSize(e.class, "phdr")
           ad == FileSize(e.class, "addr")
<1>1. e.class \in {32, 64} /\ e.phnum \in Nat /\ e.e_phoff \in Nat
  BY DEF Elfs
<1>2. eh \in Nat /\ ph \in Nat /\ ad \in Nat
  BY <1>1, SizesAre
<1> HIDE DEF eh, ph, ad
<1>3. Align(eh, ad) \in Nat
  BY <1>2, AlignIs
<1>4. Phoff(e) \in Nat
  BY <1>1, <1>3 DEF Phoff, eh, ad
<1> DEFINE table == e.phnum * ph
<1>5. table \in Nat
  BY <1>1, <1>2
<1> HIDE DEF table
<1>6. Base(e) = Higher(eh, IF e.phnum = 0 THEN 0 ELSE Phoff(e) + table)
  BY DEF Base, eh, ph, table
<1>7. Base(e) \in Nat /\ eh <= Base(e) /\ (e.phnum # 0 => Phoff(e) + table <= Base(e))
  BY <1>2, <1>4, <1>5, <1>6 DEF Higher
<1> QED BY <1>4, <1>5, <1>7 DEF eh, table, ph

LEMMA LayoutScnsAre ==
    ASSUME NEW e, Sound(e)
    PROVE  /\ LayoutScns(e) = S!Fold(e, [ok |-> TRUE, off |-> Base(e), scn |-> First(e)], Places(e))
           /\ Seen(e, Places(e), Len(e.scns), LayoutScns(e))
           /\ Seen(e, Places(e), 0, [ok |-> TRUE, off |-> Base(e), scn |-> First(e)])
<1> DEFINE base == [ok |-> TRUE, off |-> Base(e), scn |-> First(e)]
           n == Len(e.scns)
           r == LayoutScns(e)
<1>1. e \in Elfs /\ n \in Nat /\ e.scn \in [DOMAIN e.scn -> SectionRecords]
  BY ElfType DEF Sound
<1>2. r = S!Fold(e, base, Places(e))
  BY DEF LayoutScns, Places, Base, First, S!Fold, FoldLeft, MapThenFoldSet, Max,
         S!FoldLeft, S!MapThenFoldSet, S!Max
<1>3. Seen(e, Places(e), 0, base)
  <2>1. Base(e) \in Nat
    BY <1>1, BaseIs
  <2>2. First(e) \in [DOMAIN e.scn -> SectionRecords]
        /\ \A id \in DOMAIN e.scn : SameScn(First(e)[id], e.scn[id])
    <3>1. \A id \in DOMAIN e.scn : SameScn(e.scn[id], e.scn[id])
      BY <1>1, SameScnSelf
    <3>2. CASE e.scns = <<>>
      BY <1>1, <3>1, <3>2 DEF First
    <3>3. CASE e.scns # <<>>
      <4> DEFINE s == e.scn[0]
                 t == LayoutFirst(e, s)
      <4>1. e.scns[1] = 0 /\ 0 \in DOMAIN e.scn /\ s \in SectionRecords
        BY <3>3, NotEmpty
      <4>2. SameScn(t, s)
        BY <1>1, <4>1, LayoutFirstIs
      <4>3. First(e) = [e.scn EXCEPT ![0] = t]
        BY <3>3, <4>1 DEF First
      <4> HIDE DEF t
      <4>4. t \in SectionRecords
        BY <4>2 DEF SameScn
      <4> QED BY <1>1, <3>1, <4>1, <4>2, <4>3, <4>4
    <3> QED BY <3>2, <3>3
  <2> DEFINE T == [DOMAIN e.scn -> SectionRecords]
  <2>3. First(e) \in T /\ base.scn = First(e)
    BY <2>2
  <2> HIDE DEF T
  <2>4. base \in [ok : BOOLEAN, off : Nat, scn : T]
    BY <2>1, <2>3
  <2> QED BY <2>2, <2>3, <2>4 DEF Seen, T
<1> HIDE DEF base
<1>4. DOMAIN Places(e) = 1 .. n
  BY DEF Places
<1>5. ASSUME NEW k \in 1 .. n, NEW acc, Seen(e, Places(e), k - 1, acc)
      PROVE  Seen(e, Places(e), k, LayoutScn(e, acc, Places(e)[k]))
  <2>1. Places(e)[k] = k
    BY DEF Places
  <2> QED BY <1>5, <2>1, SeenStep
<1> HIDE DEF n
<1>6. Seen(e, Places(e), n, S!Fold(e, base, Places(e)))
  BY <1>1, <1>3, <1>4, <1>5, S!FoldInvariant
<1> HIDE DEF r
<1>7. Seen(e, Places(e), n, r)
  BY <1>2, <1>6
<1> QED BY <1>2, <1>3, <1>7 DEF base, n, r

(* The number of sections changes section 0 only, and nothing but its size. *)
LEMMA NumberedIs ==
    ASSUME NEW e, Sound(e), NEW all, all = LayoutScns(e)
    PROVE  /\ Numbered(e, all) \in [DOMAIN e.scn -> SectionRecords]
           /\ \A id \in DOMAIN e.scn :
                  /\ SameScn(Numbered(e, all)[id], e.scn[id])
                  /\ id # e.scns[1] => Numbered(e, all)[id] = all.scn[id]
<1> DEFINE num == Len(e.scns)
           s == all.scn[0]
           dirty == s.dirty \/ s.size # num
           t == [s EXCEPT !.size = num, !.dirty = dirty]
<1>1. /\ all.scn \in [DOMAIN e.scn -> SectionRecords]
      /\ \A id \in DOMAIN e.scn : SameScn(all.scn[id], e.scn[id])
  BY LayoutScnsAre DEF Seen
<1>2. CASE ~all.ok \/ num < SHN_LORESERVE
  BY <1>1, <1>2 DEF Numbered
<1>3. CASE ~(~all.ok \/ num < SHN_LORESERVE)
  <2>1. num \in Nat
    BY ElfType DEF Sound
  <2>2. e.scns # <<>>
    <3>1. e.scns = <<>> => num = 0
      OBVIOUS
    <3> HIDE DEF num
    <3> QED BY <1>3, <2>1, <3>1, Numbers
  <2>3. e.scns[1] = 0 /\ 0 \in DOMAIN e.scn
    BY <2>2, NotEmpty
  <2>4. s \in SectionRecords /\ SameScn(s, e.scn[0])
    BY <1>1, <2>3
  <2>5. Numbered(e, all) = [all.scn EXCEPT ![0] = t]
    BY <1>1, <1>3, <2>3 DEF Numbered
  <2> HIDE DEF num, s
  <2>6. t \in SectionRecords /\ t.index = s.index /\ t.new = s.new /\ t.type = s.type
        /\ t.data = s.data
    <3>1. dirty \in BOOLEAN
      BY <2>4 DEF SectionRecords
    <3> HIDE DEF dirty
    <3> QED BY <2>1, <2>4, <3>1 DEF SectionRecords
  <2>7. SameScn(t, e.scn[0])
    BY <2>4, <2>6 DEF SameScn
  <2> HIDE DEF t
  <2> QED BY <1>1, <2>3, <2>5, <2>6, <2>7
<1> QED BY <1>2, <1>3

(* Laying out leaves the list and the allocations, also when it fails. *)
LEMMA LayoutSound ==
    ASSUME NEW e, Sound(e)
    PROVE  /\ Layout(e).elf \in Elfs /\ Alike(e, Layout(e).elf)
           /\ Layout(e).len \in Nat /\ Layout(e).ok \in BOOLEAN
<1> DEFINE all == LayoutScns(e)
           scn == Numbered(e, all)
           num == Len(e.scns)
           x == [e EXCEPT
                   !.scn = scn, !.e_phoff = Phoff(e),
                   !.e_phnum = IF e.phnum >= PN_XNUM THEN PN_XNUM ELSE e.phnum,
                   !.e_shoff = IF all.ok THEN Shoff(e, all.off) ELSE @,
                   !.e_shnum = IF ~all.ok THEN @ ELSE IF num >= SHN_LORESERVE THEN 0 ELSE num]
           dirty == x.dirty \/ x # [e EXCEPT !.scn = x.scn]
           f == [x EXCEPT !.dirty = dirty]
<1>1. e \in Elfs /\ num \in Nat
  BY ElfType DEF Sound
<1>2. /\ all \in [ok : BOOLEAN, off : Nat, scn : [DOMAIN e.scn -> SectionRecords]]
      /\ scn \in [DOMAIN e.scn -> SectionRecords]
      /\ \A id \in DOMAIN e.scn : SameScn(scn[id], e.scn[id])
  BY LayoutScnsAre, NumberedIs DEF Seen
<1>3. Layout(e) = [ok |-> all.ok, elf |-> LayoutHeader(e, all),
                   len |-> Higher(all.off, TableEnd(e, Shoff(e, all.off)))]
  BY DEF Layout
<1>4. LayoutHeader(e, all) = f
  BY DEF LayoutHeader
<1> HIDE DEF scn, all
<1>5. all.ok \in BOOLEAN /\ all.off \in Nat /\ scn \in [DOMAIN e.scn -> SectionRecords]
  BY <1>2
<1>6. Shoff(e, all.off) \in Nat
  <2>1. e.class \in {32, 64} /\ e.e_shoff \in Nat
    BY <1>1 DEF Elfs
  <2>2. FileSize(e.class, "addr") \in Nat
    BY <2>1, SizesAre
  <2>3. Align(all.off, FileSize(e.class, "addr")) \in Nat
    BY <1>5, <2>2, AlignIs
  <2> QED BY <2>1, <2>3 DEF Shoff
<1>7. TableEnd(e, Shoff(e, all.off)) \in Nat
  <2> DEFINE at == Shoff(e, all.off)
             size == FileSize(e.class, "shdr")
  <2>1. e.class \in {32, 64}
    BY <1>1 DEF Elfs
  <2>2. size \in Nat
    BY <2>1, SizesAre
  <2>3. at \in Nat
    BY <1>6
  <2>4. TableEnd(e, at) = IF e.scns = <<>> THEN 0 ELSE at + num * size
    BY DEF TableEnd
  <2> HIDE DEF at, size, num
  <2>5. num * size \in Nat
    BY <1>1, <2>2
  <2> QED BY <2>3, <2>4, <2>5 DEF at
<1>8. Higher(all.off, TableEnd(e, Shoff(e, all.off))) \in Nat
  BY <1>5, <1>7 DEF Higher
<1>9. x \in Elfs /\ x.scns = e.scns /\ x.last = e.last /\ x.scn = scn
  <2>1. scn \in Tables
    <3>1. e.scn \in Tables
      BY <1>1 DEF Elfs
    <3> QED BY <1>5, <3>1, TableKept
  <2>2. Phoff(e) \in Nat
    BY <1>1, BaseIs
  <2> DEFINE phnum == IF e.phnum >= PN_XNUM THEN PN_XNUM ELSE e.phnum
             shoff == IF all.ok THEN Shoff(e, all.off) ELSE e.e_shoff
             shnum == IF ~all.ok THEN e.e_shnum ELSE IF num >= SHN_LORESERVE THEN 0 ELSE num
  <2>3. phnum \in Nat /\ shoff \in Nat /\ shnum \in Nat
    <3>1. e.phnum \in Nat /\ e.e_shoff \in Nat /\ e.e_shnum \in Nat
      BY <1>1 DEF Elfs
    <3> QED BY <1>1, <1>6, <3>1, Numbers
  <2>4. x = [e EXCEPT !.scn = scn, !.e_phoff = Phoff(e), !.e_phnum = phnum,
                      !.e_shoff = shoff, !.e_shnum = shnum]
    BY <1>1 DEF Elfs
  <2> HIDE DEF phnum, shoff, shnum, x
  <2> QED BY <1>1, <2>1, <2>2, <2>3, <2>4 DEF Elfs
<1>10. dirty \in BOOLEAN
  <2>1. x.dirty \in BOOLEAN
    BY <1>9 DEF Elfs
  <2> HIDE DEF x
  <2> QED BY <2>1
<1> HIDE DEF x, dirty
<1>11. f \in Elfs /\ f.scns = e.scns /\ f.last = e.last /\ f.scn = scn
  BY <1>9, <1>10 DEF Elfs
<1> HIDE DEF f
<1>12. Alike(e, f)
  <2>1. \A id \in DOMAIN e.scn :
            /\ scn[id].index = e.scn[id].index /\ scn[id].new = e.scn[id].new
            /\ Len(scn[id].data) = Len(e.scn[id].data)
            /\ \A k \in 1 .. Len(e.scn[id].data) :
                   scn[id].data[k].new = e.scn[id].data[k].new
    BY <1>2 DEF SameScn, SameBuffers
  <2>2. DOMAIN scn = DOMAIN e.scn
    BY <1>5
  <2> QED BY <1>11, <2>1, <2>2 DEF Alike
<1> QED BY <1>3, <1>4, <1>5, <1>8, <1>11, <1>12

(* elf_update() marks what was written as clean. *)
LEMMA CleanAlike ==
    ASSUME NEW e, Sound(e), NEW len \in Nat
    PROVE  Clean(e, len) \in Elfs /\ Alike(e, Clean(e, len))
<1> DEFINE t == [id \in DOMAIN e.scn |->
                    IF id \in Range(e.scns) THEN Cleaned(e, e.scn[id]) ELSE e.scn[id]]
           g == [e EXCEPT !.scn = t]
           f == [g EXCEPT !.size = len, !.dirty = FALSE, !.flags = @ \ {"dirty"}]
<1>1. e \in Elfs /\ e.scn \in [DOMAIN e.scn -> SectionRecords]
  BY ElfType DEF Sound
<1>2. Clean(e, len) = f
  BY <1>1 DEF Clean, Elfs
<1>3. ASSUME NEW s \in SectionRecords
      PROVE  LET t1 == Cleaned(e, s)
             IN  /\ t1 \in SectionRecords /\ t1.index = s.index /\ t1.new = s.new
                 /\ SameBuffers(t1.data, s.data)
  <2> DEFINE u == IF e.readable
                  THEN [s EXCEPT !.s_type = s.type, !.s_size = s.size, !.s_offset = s.offset]
                  ELSE s
             data == [k \in DOMAIN s.data |-> [s.data[k] EXCEPT !.dirty = FALSE]]
  <2>1. Cleaned(e, s) = [u EXCEPT !.dirty = FALSE, !.data = data]
    BY DEF Cleaned
  <2>2. u \in SectionRecords /\ u.index = s.index /\ u.new = s.new
    BY <1>3 DEF SectionRecords
  <2>3. s.data \in Seq(Datas)
    BY <1>3 DEF SectionRecords
  <2>4. \A k \in 1 .. Len(s.data) :
            LET d == [s.data[k] EXCEPT !.dirty = FALSE] IN d \in Datas /\ d.new = s.data[k].new
    <3> SUFFICES ASSUME NEW k \in 1 .. Len(s.data)
                 PROVE  LET d == [s.data[k] EXCEPT !.dirty = FALSE]
                        IN  d \in Datas /\ d.new = s.data[k].new
      OBVIOUS
    <3>1. s.data[k] \in Datas
      BY <2>3, ElementOf
    <3> QED BY <3>1 DEF Datas
  <2>5. Len(s.data) \in Nat /\ DOMAIN s.data = 1 .. Len(s.data)
    BY <2>3
  <2>6. /\ data \in Seq(Datas) /\ Len(data) = Len(s.data)
        /\ \A k \in 1 .. Len(s.data) : data[k].new = s.data[k].new
    <3>1. data = [k \in 1 .. Len(s.data) |-> [s.data[k] EXCEPT !.dirty = FALSE]]
      BY <2>5
    <3> QED BY <2>4, <2>5, <3>1
  <2> HIDE DEF u, data
  <2>7. /\ [u EXCEPT !.dirty = FALSE, !.data = data] \in SectionRecords
        /\ [u EXCEPT !.dirty = FALSE, !.data = data].index = s.index
        /\ [u EXCEPT !.dirty = FALSE, !.data = data].new = s.new
        /\ [u EXCEPT !.dirty = FALSE, !.data = data].data = data
    BY <2>2, <2>6 DEF SectionRecords
  <2> QED BY <2>1, <2>6, <2>7 DEF SameBuffers
<1>4. /\ t \in [DOMAIN e.scn -> SectionRecords] /\ DOMAIN t = DOMAIN e.scn
      /\ \A id \in DOMAIN e.scn :
             /\ t[id].index = e.scn[id].index /\ t[id].new = e.scn[id].new
             /\ SameBuffers(t[id].data, e.scn[id].data)
  <2>1. ASSUME NEW id \in DOMAIN e.scn
        PROVE  /\ t[id] \in SectionRecords
               /\ t[id].index = e.scn[id].index /\ t[id].new = e.scn[id].new
               /\ SameBuffers(t[id].data, e.scn[id].data)
    <3>1. e.scn[id] \in SectionRecords
      BY <1>1
    <3>2. SameBuffers(e.scn[id].data, e.scn[id].data)
      BY <3>1, SameScnSelf DEF SameScn
    <3> QED BY <1>3, <3>1, <3>2
  <2>2. t = [id \in DOMAIN e.scn |-> t[id]] /\ DOMAIN t = DOMAIN e.scn
    OBVIOUS
  <2> HIDE DEF t
  <2> QED BY <2>1, <2>2
<1> HIDE DEF t
<1>5. g \in Elfs /\ g.scn = t /\ g.scns = e.scns /\ g.last = e.last
  BY <1>1, <1>4, ScnChanged DEF Elfs
<1> HIDE DEF g
<1>6. f \in Elfs /\ f.scn = t /\ f.scns = e.scns /\ f.last = e.last
  BY <1>5 DEF Elfs
<1> HIDE DEF f
<1> QED BY <1>2, <1>4, <1>6 DEF Alike, SameBuffers

LEMMA ShiftedType ==
    ASSUME NEW pieces \in SUBSET Pieces, NEW by \in Int
    PROVE  Shifted(pieces, by) \in SUBSET Pieces
<1>1. ASSUME NEW p \in pieces PROVE [p EXCEPT !.at = @ + by] \in Pieces
  <2>1. p \in Pieces
    OBVIOUS
  <2> QED BY <2>1 DEF Pieces
<1> QED BY <1>1 DEF Shifted

(* What is written is a file. *)
LEMMA ImageType ==
    ASSUME NEW e, Sound(e), NEW len \in Nat
    PROVE  Image(e, len) \in FileRecords /\ Image(e, len).len = len
<1> DEFINE n == Len(e.scns)
           h == [phoff |-> e.e_phoff, phnum |-> e.e_phnum, shoff |-> e.e_shoff,
                 shnum |-> e.e_shnum, shstrndx |-> e.e_shstrndx]
           Shdr(s) == [type |-> s.type, link |-> s.link, info |-> s.info, offset |-> s.offset,
                       size |-> s.size, addralign |-> s.addralign]
           shdrs == [p \in 1 .. n |-> Shdr(e.scn[e.scns[p]])]
           data == UNION {Shifted(Contents(e.scn[id]), e.scn[id].offset) : id \in Written(e)}
           Shdrs == [type : SectionTypes, link : Nat, info : Nat, offset : Nat, size : Nat,
                     addralign : Alignments]
<1>1. /\ e \in Elfs /\ n \in Nat /\ DOMAIN e.scns = 1 .. n
      /\ \A p \in 1 .. n : e.scns[p] \in DOMAIN e.scn
      /\ \A id \in DOMAIN e.scn : e.scn[id] \in SectionRecords
  <2>1. e \in Elfs
    BY DEF Sound
  <2> QED BY <2>1, ElfType DEF Sound
<1>2. h \in [phoff : Nat, phnum : Nat, shoff : Nat, shnum : Nat, shstrndx : Nat]
  BY <1>1 DEF Elfs
<1>3. \A s \in SectionRecords : Shdr(s) \in Shdrs
  BY DEF SectionRecords
<1> HIDE DEF Shdr, Shdrs, n
<1>4. shdrs \in Seq(Shdrs)
  <2>1. \A p \in 1 .. n : Shdr(e.scn[e.scns[p]]) \in Shdrs
    BY <1>1, <1>3
  <2> QED BY <1>1, <2>1
<1>5. ASSUME NEW s \in SectionRecords PROVE Contents(s) \in SUBSET Pieces
  <2>1. ASSUME NEW k \in Filled(s) PROVE Shifted(s.data[k].buf, s.data[k].off) \in SUBSET Pieces
    <3>1. s.data \in Seq(Datas)
      BY DEF SectionRecords
    <3>2. s.data[k] \in Datas
      BY <3>1, ElementOf DEF Filled
    <3>3. PICK d \in Datas : d = s.data[k]
      BY <3>2
    <3>4. d.buf \in SUBSET Pieces /\ d.off \in Int
      BY DEF Datas
    <3> QED BY <3>3, <3>4, ShiftedType
  <2> QED BY <2>1 DEF Contents
<1>6. data \in SUBSET Pieces
  <2>1. ASSUME NEW id \in Written(e)
        PROVE  Shifted(Contents(e.scn[id]), e.scn[id].offset) \in SUBSET Pieces
    <3>1. id \in DOMAIN e.scn
      BY <1>1 DEF Written, Range
    <3>2. e.scn[id] \in SectionRecords /\ e.scn[id].offset \in Int
      BY <1>1, <3>1 DEF SectionRecords
    <3> QED BY <1>5, <3>2, ShiftedType
  <2> QED BY <2>1
<1>7. e.class \in {32, 64}
  BY <1>1 DEF Elfs
<1>8. Image(e, len) = [len |-> len, class |-> e.class, torn |-> FALSE, ehdr |-> h,
                       shdrs |-> shdrs, data |-> data]
  BY DEF Image, Shdr, n
<1> HIDE DEF h, shdrs, data
<1>9. FileRecords = [len : Nat, class : {32, 64}, torn : BOOLEAN, data : SUBSET Pieces,
                     ehdr : [phoff : Nat, phnum : Nat, shoff : Nat, shnum : Nat, shstrndx : Nat],
                     shdrs : Seq(Shdrs)]
  BY DEF FileRecords, Shdrs
<1> QED BY <1>2, <1>4, <1>6, <1>7, <1>8, <1>9

LEMMA OutputType ==
    ASSUME file \in FileRecords, NEW image \in FileRecords
    PROVE  Output(image) \in FileRecords /\ [file EXCEPT !.torn = TRUE] \in FileRecords
<1> DEFINE len == Higher(image.len, file.len)
           data == image.data \cup {p \in file.data : p.at >= image.len}
           torn == (image.shdrs = <<>> /\ image.ehdr.shoff # 0)
<1>1. len \in Nat
  BY DEF Higher, FileRecords
<1>2. data \in SUBSET Pieces
  BY DEF FileRecords
<1>3. torn \in BOOLEAN
  OBVIOUS
<1>4. Output(image) = [image EXCEPT !.torn = torn, !.len = len, !.data = data]
  BY DEF Output, FileRecords
<1> HIDE DEF len, data, torn
<1> QED BY ZenonT(30), <1>1, <1>2, <1>3, <1>4 DEF FileRecords

-----------------------------------------------------------------------------
(* _elf_free_scns() so far: what is left is what the sections still to come hold, and
   the last section that was malloc'ed, which has not been freed yet. *)
Ahead(e, k) == UNION {OfScn(e, e.scns[q]) : q \in k + 1 .. Len(e.scns)}

(* Sections that were made are behind those that were read, except section 0. *)
MadeBehind(e) ==
    \A p \in 2 .. Len(e.scns) :
        e.scn[e.scns[p]].new => \A q \in p + 1 .. Len(e.scns) : e.scn[e.scns[q]].new

Freed(e, seq, k, acc) ==
    /\ acc.heap = Ahead(e, k) \cup acc.freescn
    /\ IF k = 0 THEN acc.freescn = {}
       ELSE \E j \in 1 .. k : e.scn[e.scns[j]].new /\ acc.freescn = {<<e.scns[j], 0>>}
    /\ MadeBehind(e) => acc.faults = FALSE

F == INSTANCE FoldProofs WITH Op <- FreeScn, Inv <- Freed

(* What belongs to section id: its buffers, and itself when it was malloc'ed. *)
LEMMA OfScnIs ==
    ASSUME NEW e, NEW id
    PROVE  /\ OfScn(e, id) = {a \in OfScn(e, id) : a[2] > 0}
                             \cup (IF e.scn[id].new THEN {<<id, 0>>} ELSE {})
           /\ <<id, 0>> \notin {a \in OfScn(e, id) : a[2] > 0}
           /\ \A a \in OfScn(e, id) : a[1] = id
<1> DEFINE own == {<<id, n>> : n \in {m \in 1 .. Len(e.scn[id].data) : e.scn[id].data[m].new}}
<1>1. \A a \in own : a[1] = id /\ a[2] > 0 /\ a[2] \in Int
  OBVIOUS
<1>2. OfScn(e, id) = own \cup (IF e.scn[id].new THEN {<<id, 0>>} ELSE {})
  BY DEF OfScn
<1> HIDE DEF own
<1> QED BY <1>1, <1>2

LEMMA FreedStep ==
    ASSUME NEW e, Sound(e), NEW seq, NEW k \in 1 .. Len(e.scns), NEW acc, Freed(e, seq, k - 1, acc)
    PROVE  Freed(e, seq, k, FreeScn(e, acc, e.scns[k]))
<1> DEFINE n == Len(e.scns)
           id == e.scns[k]
           own == {a \in OfScn(e, id) : a[2] > 0}
           due == IF e.scn[id].new THEN acc.freescn ELSE {}
           r == FreeScn(e, acc, id)
           block == <<id, 0>>
<1>1. /\ e \in Elfs /\ n \in Nat /\ DOMAIN e.scns = 1 .. n /\ k \in Nat \ {0} /\ k \in 1 .. n
      /\ e.scns # <<>>
  <2>1. e \in Elfs
    BY DEF Sound
  <2>2. n \in Nat /\ DOMAIN e.scns = 1 .. n
    BY <2>1, ElfType
  <2>3. n # 0
    BY <2>2
  <2> QED BY <2>1, <2>2, <2>3
<1>2. /\ e.scns[1] = 0 /\ e.scn[0].new
      /\ \A p, q \in 1 .. n : e.scns[p] = e.scns[q] => p = q
  BY <1>1 DEF Sound
<1>3. /\ r.heap = acc.heap \ (own \cup due)
      /\ r.freescn = IF e.scn[id].new THEN {block} ELSE acc.freescn
      /\ r.faults = (acc.faults \/ StoredIn(e, id) \notin acc.heap \/ ~(own \cup due \subseteq acc.heap))
  BY DEF FreeScn
<1> HIDE DEF r, n
<1>4. Ahead(e, k - 1) = OfScn(e, id) \cup Ahead(e, k)
  <2> DEFINE Of(q) == OfScn(e, e.scns[q])
  <2>1. k .. n = {k} \cup (k + 1 .. n) /\ k - 1 + 1 = k
    BY <1>1
  <2>2. Ahead(e, k - 1) = UNION {Of(q) : q \in k .. n} /\ Ahead(e, k) = UNION {Of(q) : q \in k + 1 .. n}
    BY <2>1 DEF Ahead, n
  <2> HIDE DEF Of
  <2>3. UNION {Of(q) : q \in {k} \cup (k + 1 .. n)} = Of(k) \cup UNION {Of(q) : q \in k + 1 .. n}
    OBVIOUS
  <2> QED BY <2>1, <2>2, <2>3 DEF Of
<1>5. OfScn(e, id) \cap Ahead(e, k) = {}
  <2>1. ASSUME NEW q \in k + 1 .. n PROVE OfScn(e, id) \cap OfScn(e, e.scns[q]) = {}
    <3>1. q \in 1 .. n /\ q # k
      BY <1>1
    <3>2. e.scns[q] # id
      BY <1>1, <1>2, <3>1
    <3> QED BY <3>2, OwnStorage
  <2> QED BY <2>1 DEF Ahead, n
<1>6. OfScn(e, id) = own \cup (IF e.scn[id].new THEN {block} ELSE {}) /\ block \notin own
  BY OfScnIs
<1>7. /\ acc.freescn \cap OfScn(e, id) = {} /\ acc.freescn \cap Ahead(e, k) = {}
      /\ k = 1 => acc.freescn = {}
      /\ k # 1 => \E j \in 1 .. k - 1 : e.scn[e.scns[j]].new /\ acc.freescn = {<<e.scns[j], 0>>}
  <2>1. CASE k = 1
    BY <2>1 DEF Freed
  <2>2. CASE k # 1
    <3>1. PICK j \in 1 .. k - 1 : e.scn[e.scns[j]].new /\ acc.freescn = {<<e.scns[j], 0>>}
      BY <1>1, <2>2 DEF Freed
    <3>2. ASSUME NEW q \in k .. n PROVE <<e.scns[j], 0>> \notin OfScn(e, e.scns[q])
      <4>1. q \in 1 .. n /\ j \in 1 .. n /\ q # j
        BY <1>1
      <4>2. e.scns[j] # e.scns[q]
        BY <1>2, <4>1
      <4>3. PICK a : a = <<e.scns[j], 0>>
        OBVIOUS
      <4>4. a[1] = e.scns[j]
        BY <4>3
      <4>5. a \notin OfScn(e, e.scns[q])
        BY <4>2, <4>4, OfScnIs
      <4> QED BY <4>3, <4>5
    <3>3. k \in k .. n /\ \A q \in k + 1 .. n : q \in k .. n
      BY <1>1
    <3> QED BY <2>2, <3>1, <3>2, <3>3 DEF Ahead, n
  <2> QED BY <2>1, <2>2
<1> HIDE DEF own, block, id
<1>8. acc.heap = OfScn(e, id) \cup Ahead(e, k) \cup acc.freescn
  BY <1>4 DEF Freed
<1>9. r.heap = Ahead(e, k) \cup r.freescn
  <2>1. CASE e.scn[id].new
    BY <1>3, <1>5, <1>6, <1>7, <1>8, <2>1
  <2>2. CASE ~e.scn[id].new
    BY <1>3, <1>5, <1>6, <1>7, <1>8, <2>2
  <2> QED BY <2>1, <2>2
<1>10. \E j \in 1 .. k : e.scn[e.scns[j]].new /\ r.freescn = {<<e.scns[j], 0>>}
  <2>1. CASE e.scn[id].new
    <3>1. r.freescn = {<<e.scns[k], 0>>} /\ k \in 1 .. k
      BY <1>1, <1>3, <2>1 DEF block, id
    <3> QED BY <2>1, <3>1 DEF id
  <2>2. CASE ~e.scn[id].new
    <3>1. k # 1
      BY <1>2, <2>2 DEF id
    <3>2. \A j \in 1 .. k - 1 : j \in 1 .. k
      BY <1>1
    <3> QED BY <1>3, <1>7, <2>2, <3>1, <3>2
  <2> QED BY <2>1, <2>2
<1>11. MadeBehind(e) => r.faults = FALSE
  <2> SUFFICES ASSUME MadeBehind(e) PROVE r.faults = FALSE
    OBVIOUS
  <2>1. acc.faults = FALSE /\ own \cup due \subseteq acc.heap
    BY <1>6, <1>8 DEF Freed
  <2>2. StoredIn(e, id) \in acc.heap
    <3>1. CASE e.scn[id].new
      BY <1>6, <1>8, <3>1 DEF StoredIn, block
    <3>2. CASE ~e.scn[id].new
      <4>1. k # 1
        BY <1>2, <3>2 DEF id
      <4>2. PICK j \in 1 .. k - 1 : e.scn[e.scns[j]].new /\ acc.freescn = {<<e.scns[j], 0>>}
        BY <1>7, <4>1
      <4>3. j = 1
        <5>1. j # 1 => j \in 2 .. Len(e.scns) /\ k \in j + 1 .. Len(e.scns)
          BY <1>1 DEF n
        <5> QED BY <3>2, <4>2, <5>1 DEF MadeBehind, id
      <4> QED BY <1>2, <1>8, <3>2, <4>2, <4>3 DEF StoredIn
    <3> QED BY <3>1, <3>2
  <2> QED BY <1>3, <2>1, <2>2
<1> QED BY <1>1, <1>9, <1>10, <1>11 DEF Freed, r, id

(* elf_end() frees everything; it touches nothing freed when MadeBehind holds. *)
LEMMA FreeScnsIs ==
    ASSUME NEW e, Sound(e)
    PROVE  /\ FreeScns(e, Held(e)).heap = {}
           /\ MadeBehind(e) => FreeScns(e, Held(e)) = [heap |-> {}, faults |-> FALSE]
<1> DEFINE base == [heap |-> Held(e), freescn |-> {}, faults |-> FALSE]
           n == Len(e.scns)
           all == F!Fold(e, base, e.scns)
<1>1. e \in Elfs /\ n \in Nat /\ DOMAIN e.scns = 1 .. n
  BY ElfType DEF Sound
<1>2. FreeScns(e, Held(e)) = [heap |-> all.heap \ all.freescn,
                              faults |-> all.faults \/ ~(all.freescn \subseteq all.heap)]
  BY DEF FreeScns, F!Fold, FoldLeft, MapThenFoldSet, Max, F!FoldLeft, F!MapThenFoldSet, F!Max
<1>3. Freed(e, e.scns, 0, base)
  <2>1. Ahead(e, 0) = Held(e)
    BY <1>1 DEF Ahead, Held
  <2> QED BY <2>1 DEF Freed
<1> HIDE DEF base
<1>4. ASSUME NEW k \in 1 .. n, NEW acc, Freed(e, e.scns, k - 1, acc)
      PROVE  Freed(e, e.scns, k, FreeScn(e, acc, e.scns[k]))
  BY <1>4, FreedStep
<1>5. Freed(e, e.scns, n, all)
  <2> HIDE DEF n
  <2> QED BY <1>1, <1>3, <1>4, F!FoldInvariant
<1> HIDE DEF all
<1>6. Ahead(e, n) = {}
  <2>1. n + 1 .. n = {}
    BY <1>1
  <2> QED BY <2>1 DEF Ahead
<1> HIDE DEF n
<1>7. all.heap = all.freescn /\ (MadeBehind(e) => all.faults = FALSE)
  BY <1>5, <1>6 DEF Freed
<1>8. all.heap \ all.freescn = {} /\ all.freescn \subseteq all.heap
  BY <1>7
<1>9. FreeScns(e, Held(e)).heap = {}
  BY <1>2, <1>8
<1>10. ASSUME all.faults = FALSE
       PROVE  FreeScns(e, Held(e)) = [heap |-> {}, faults |-> FALSE]
  <2>1. (all.faults \/ ~(all.freescn \subseteq all.heap)) = FALSE
    BY <1>8, <1>10, Zenon
  <2> QED BY <1>2, <1>8, <2>1, Zenon
<1> QED BY <1>7, <1>9, <1>10

-----------------------------------------------------------------------------
(* The strengthening of the invariants that is inductive: what a descriptor that is
   open has allocated is what the sections of its list hold, no more and no less. *)
Kept == Sound(elf) /\ heap = Held(elf)

ElfInv ==
    /\ state \in {"none", "open", "undefined"}
    /\ IF Open THEN Kept ELSE elf = InitElf(32) /\ heap = {}
    /\ file \in FileRecords
    /\ owed \in BOOLEAN /\ plan \in Seq(SUBSET Calls)

LEMMA AlikeKept ==
    ASSUME Kept, NEW f, f \in Elfs, Alike(elf, f)
    PROVE  Sound(f) /\ heap = Held(f)
  BY AlikeSound DEF Kept

LEMMA GrownKept ==
    ASSUME Kept, NEW f, Grown(elf, f)
    PROVE  Sound(f) /\ heap \cup Made(elf, f) = Held(f)
  BY DEF Kept, Grown

(* A section of the list has a place in it. *)
LEMMA InList ==
    ASSUME NEW e, Sound(e), NEW id \in Range(e.scns)
    PROVE  /\ \E p \in 1 .. Len(e.scns) : e.scns[p] = id
           /\ id # e.scns[1] => \E p \in 2 .. Len(e.scns) : e.scns[p] = id
           /\ id \in DOMAIN e.scn /\ e.scn[id] \in SectionRecords /\ e.scns # <<>>
<1>1. /\ e \in Elfs /\ Len(e.scns) \in Nat /\ DOMAIN e.scns = 1 .. Len(e.scns)
      /\ e.scn \in [DOMAIN e.scn -> SectionRecords]
  BY ElfType DEF Sound
<1>2. PICK p \in DOMAIN e.scns : e.scns[p] = id
  BY DEF Range
<1>3. id \in DOMAIN e.scn
  BY <1>2 DEF Sound
<1>4. p \in 1 .. Len(e.scns) /\ (p = 1 \/ p \in 2 .. Len(e.scns))
  BY <1>1
<1>5. e.scns # <<>>
  <2>1. e.scns = <<>> => Len(e.scns) = 0
    OBVIOUS
  <2> QED BY <1>1, <1>4, <2>1
<1> QED BY <1>1, <1>2, <1>3, <1>4, <1>5

LEMMA CallIs ==
    ASSUME NEW op, NEW ok, Call(op, ok), plan \in Seq(SUBSET Calls)
    PROVE  plan' \in Seq(SUBSET Calls)
  BY DEF Call

LEMMA InitHolds ==
    Init => ElfInv
<1> SUFFICES ASSUME Init PROVE ElfInv
  OBVIOUS
<1>1. file \in FileRecords /\ plan \in Seq(SUBSET Calls)
  BY InputsAssumption, BoundsAssumption DEF Init
<1> QED BY <1>1 DEF Init, ElfInv, Open

(* The calls that open the file, and the one that ends the descriptor. *)
LEMMA OpensAndEnds ==
    ASSUME ElfInv, BeginRdwr \/ ElfCook \/ (\E class \in {32, 64} : BeginWrite(class)) \/ ElfEnd
    PROVE  ElfInv'
<1>1. file' = file /\ owed' \in BOOLEAN /\ plan' \in Seq(SUBSET Calls)
  BY CallIs DEF ElfInv, BeginRdwr, ElfCook, BeginWrite, ElfEnd
<1>2. CASE ElfCook
  <2>1. PICK f \in FileRecords : f = file
    BY DEF ElfInv
  <2>2. /\ Sound(Cook(f).e)
        /\ Held(Cook(f).e) = IF Cook(f).e.scns = <<>> THEN {} ELSE {<<0, 0>>}
    BY CookSound
  <2> DEFINE e == Cook(f).e
             x == [e EXCEPT !.flags = elf.flags]
  <2>3. elf' = x /\ state' = "open" /\ heap' = IF elf'.scns = <<>> THEN {} ELSE {<<0, 0>>}
    BY <1>2, <2>1 DEF ElfCook, Open
  <2> HIDE DEF e
  <2>4. Sound(e) /\ Held(e) = IF e.scns = <<>> THEN {} ELSE {<<0, 0>>}
    BY <2>2 DEF e
  <2>5. e \in Elfs /\ elf \in Elfs
    BY <1>2, <2>4 DEF Sound, ElfCook, ElfInv, Kept
  <2>6. x \in Elfs /\ x.scns = e.scns /\ Alike(e, x)
    BY <2>5 DEF Elfs, Alike
  <2> HIDE DEF x
  <2>7. Sound(x) /\ Held(x) = Held(e)
    BY <2>4, <2>6, AlikeSound
  <2> QED BY <1>1, <2>3, <2>4, <2>6, <2>7 DEF ElfInv, Kept, Open
<1>5. CASE BeginRdwr
  <2> DEFINE e == InitElf(file.class)
             x == [e EXCEPT !.readable = TRUE, !.size = file.len, !.image = file.data]
  <2>1. elf' = x /\ state' = "open" /\ heap' = {}
    BY <1>5 DEF BeginRdwr
  <2>2. file.class \in {32, 64} /\ file.len \in Nat /\ file.data \in SUBSET Pieces
    BY DEF ElfInv, FileRecords
  <2>3. Sound(e) /\ Held(e) = {} /\ e \in Elfs
    BY <2>2, InitSound DEF Sound
  <2> HIDE DEF e
  <2>4. x \in Elfs /\ Alike(e, x)
    BY <2>2, <2>3 DEF Elfs, Alike
  <2> HIDE DEF x
  <2>5. Sound(x) /\ Held(x) = {}
    BY <2>3, <2>4, AlikeSound
  <2> QED BY <1>1, <2>1, <2>5 DEF ElfInv, Kept, Open
<1>3. ASSUME NEW class \in {32, 64}, BeginWrite(class) PROVE ElfInv'
  <2>1. elf' = InitElf(class) /\ state' = "open" /\ heap' = {}
    BY <1>3 DEF BeginWrite
  <2>2. Sound(InitElf(class)) /\ Held(InitElf(class)) = {}
    BY InitSound
  <2> QED BY <1>1, <2>1, <2>2 DEF ElfInv, Kept, Open
<1>4. CASE ElfEnd
  <2>1. /\ elf' = InitElf(32) /\ heap' = FreeScns(elf, heap).heap /\ state' \in {"undefined", "none"}
        /\ Open
    BY <1>4 DEF ElfEnd
  <2>2. heap' = {}
    BY <2>1, FreeScnsIs DEF ElfInv, Kept
  <2> QED BY <1>1, <2>1, <2>2 DEF ElfInv, Open
<1> QED BY <1>2, <1>3, <1>4, <1>5

(* The calls that make something. *)
LEMMA Makes ==
    ASSUME ElfInv, \/ Newehdr \/ Newscn
                   \/ \E count \in PhdrCounts : Newphdr(count)
                   \/ \E id \in Scns : ShstrndxTo(id) \/ (\E d \in Buffers : Newdata(id, d))
    PROVE  ElfInv'
<1>1. /\ file' = file /\ owed' = owed /\ plan' \in Seq(SUBSET Calls) /\ state' = "open" /\ Kept
      /\ file \in FileRecords /\ owed \in BOOLEAN
  BY CallIs DEF ElfInv, Newehdr, Newscn, Newphdr, ShstrndxTo, Newdata, Open
<1>2. SUFFICES Sound(elf') /\ heap' = Held(elf')
  BY <1>1 DEF ElfInv, Kept, Open
<1>3. Sound(elf) /\ elf \in Elfs
  BY <1>1 DEF Kept, Sound
<1>4. CASE Newehdr
  <2> DEFINE f == [elf EXCEPT !.ehdr = TRUE, !.dirty = TRUE]
  <2>1. f \in Elfs /\ f.scns = elf.scns /\ f.last = elf.last /\ f.scn = elf.scn
    BY <1>3 DEF Elfs
  <2>2. elf' = f /\ heap' = heap
    BY <1>4 DEF Newehdr
  <2> HIDE DEF f
  <2>3. Alike(elf, f)
    BY <2>1 DEF Alike
  <2> QED BY <1>1, <2>1, <2>2, <2>3, AlikeKept
<1>5. CASE Newscn
  <2>1. CASE elf.ehdr
    <3>1. elf' = BuildScn(elf) /\ heap' = heap \cup Made(elf, elf')
      BY <1>5, <2>1 DEF Newscn, Grows, Made
    <3> QED BY <1>1, <1>3, <3>1, BuildScnGrown, GrownKept
  <2>2. CASE ~elf.ehdr
    <3>1. elf' = elf /\ heap' = heap
      BY <1>5, <2>2 DEF Newscn, Grows
    <3> QED BY <1>1, <3>1 DEF Kept
  <2> QED BY <2>1, <2>2
<1>6. ASSUME NEW count \in PhdrCounts, Newphdr(count) PROVE Sound(elf') /\ heap' = Held(elf')
  <2>1. elf' = NewPhdr(elf, count) /\ heap' = heap \cup Made(elf, elf') /\ count \in Nat
    BY <1>6, InputsAssumption DEF Newphdr, Grows, Made
  <2> QED BY <1>1, <1>3, <2>1, NewPhdrGrown, GrownKept
<1>7. ASSUME NEW id \in Scns, ShstrndxTo(id) PROVE Sound(elf') /\ heap' = Held(elf')
  <2> DEFINE value == elf.scn[id].index
  <2>1. elf' = UpdateShstrndx(elf, value) /\ heap' = heap
    BY <1>7 DEF ShstrndxTo
  <2>2. value \in Nat /\ elf.scns # <<>>
    <3>1. elf.scn[id] \in SectionRecords /\ elf.scns # <<>>
      BY <1>3, InList DEF Scns
    <3> QED BY <3>1 DEF SectionRecords
  <2> HIDE DEF value
  <2>3. Grown(elf, elf') /\ DOMAIN elf'.scn = DOMAIN elf.scn
    BY <1>3, <2>1, <2>2, UpdateShstrndxGrown
  <2>4. Made(elf, elf') = {}
    BY <2>3 DEF Made
  <2> QED BY <1>1, <2>1, <2>3, <2>4, GrownKept
<1>8. ASSUME NEW id \in Scns, NEW d \in Buffers, Newdata(id, d)
      PROVE  Sound(elf') /\ heap' = Held(elf')
  <2>1. PICK p \in 1 .. Len(elf.scns) : elf.scns[p] = id
    BY <1>3, InList DEF Scns
  <2>2. p \in DOMAIN elf.scns
    BY <1>3, ElfType
  <2>3. CASE elf.scn[id].index # 0
    <3>1. elf' = NewData(elf, id, d) /\ heap' = heap \cup {<<id, Len(elf.scn[id].data) + 1>>}
      BY <1>8, <2>3 DEF Newdata
    <3>2. /\ Sound(NewData(elf, id, d))
          /\ Held(NewData(elf, id, d)) = Held(elf) \cup {<<id, Len(elf.scn[id].data) + 1>>}
      BY <1>3, <2>1, <2>2, NewDataSound
    <3> QED BY <1>1, <3>1, <3>2 DEF Kept
  <2>4. CASE ~(elf.scn[id].index # 0)
    <3>1. elf' = elf /\ heap' = heap
      BY <1>8, <2>4 DEF Newdata
    <3> QED BY <1>1, <3>1 DEF Kept
  <2> QED BY <2>3, <2>4
<1> QED BY <1>4, <1>5, <1>6, <1>7, <1>8

(* The calls that change headers, and those that delete and move sections. *)
LEMMA Edits ==
    ASSUME ElfInv, \/ \E op \in FlagOps : Flagelf(op[1], op[2])
                   \/ \E id \in Scns :
                          \/ ElfDelscn(id) \/ ElfxRemscn(id)
                          \/ \E h \in Headers : UpdateShdr(id, h)
                          \/ \E after \in Scns : ElfxMovscn(id, after)
    PROVE  ElfInv'
<1>0. /\ \E op, ok : Call(op, ok)
      /\ file' = file /\ state' = state /\ Open
      /\ owed' \in BOOLEAN
  <2>1. ASSUME NEW op \in FlagOps, Flagelf(op[1], op[2])
        PROVE  (\E c, ok : Call(c, ok)) /\ file' = file /\ state' = state /\ Open /\ owed' \in BOOLEAN
    BY <2>1 DEF Flagelf, ElfInv
  <2>2. ASSUME NEW id \in Scns, ElfDelscn(id)
        PROVE  (\E c, ok : Call(c, ok)) /\ file' = file /\ state' = state /\ Open /\ owed' \in BOOLEAN
    BY <2>2 DEF ElfDelscn, ElfInv
  <2>3. ASSUME NEW id \in Scns, ElfxRemscn(id)
        PROVE  (\E c, ok : Call(c, ok)) /\ file' = file /\ state' = state /\ Open /\ owed' \in BOOLEAN
    BY <2>3 DEF ElfxRemscn, ElfInv
  <2>4. ASSUME NEW id \in Scns, NEW hd \in Headers, UpdateShdr(id, hd)
        PROVE  (\E c, ok : Call(c, ok)) /\ file' = file /\ state' = state /\ Open /\ owed' \in BOOLEAN
    BY <2>4 DEF UpdateShdr, ElfInv
  <2>5. ASSUME NEW id \in Scns, NEW after \in Scns, ElfxMovscn(id, after)
        PROVE  (\E c, ok : Call(c, ok)) /\ file' = file /\ state' = state /\ Open /\ owed' \in BOOLEAN
    BY <2>5 DEF ElfxMovscn, ElfInv
  <2> QED BY <2>1, <2>2, <2>3, <2>4, <2>5
<1>1. /\ file' = file /\ plan' \in Seq(SUBSET Calls) /\ state' = "open" /\ Kept
      /\ file \in FileRecords
  BY <1>0, CallIs DEF ElfInv, Open
<1>2. owed' \in BOOLEAN
  BY <1>0 DEF ElfInv
<1>3. SUFFICES Sound(elf') /\ heap' = Held(elf')
  BY <1>1, <1>2 DEF ElfInv, Kept, Open
<1>4. Sound(elf) /\ elf \in Elfs /\ heap = Held(elf)
  BY <1>1 DEF Kept, Sound
<1>5. ASSUME NEW op \in FlagOps, Flagelf(op[1], op[2]) PROVE Sound(elf') /\ heap' = Held(elf')
  <2>1. PICK cmd \in {"set", "clr"}, flag \in {"layout", "overlap", "dirty"} : op = <<cmd, flag>>
    BY InputsAssumption
  <2> DEFINE flags == IF cmd = "set" THEN elf.flags \cup {flag} ELSE elf.flags \ {flag}
             f == [elf EXCEPT !.flags = flags]
  <2>2. op[1] = cmd /\ op[2] = flag
    BY <2>1
  <2>3. elf' = f /\ heap' = heap
    BY <1>4, <1>5, <2>2 DEF Flagelf, Elfs
  <2>4. flags \in SUBSET Flags
    BY <1>4 DEF Elfs, Flags
  <2> HIDE DEF flags
  <2>5. f \in Elfs /\ f.scns = elf.scns /\ f.last = elf.last /\ f.scn = elf.scn
    BY <1>4, <2>4 DEF Elfs
  <2> HIDE DEF f
  <2>6. Alike(elf, f)
    BY <2>5 DEF Alike
  <2> QED BY <1>1, <2>3, <2>5, <2>6, AlikeKept
<1>6. ASSUME NEW id \in Scns, NEW h \in Headers, UpdateShdr(id, h)
      PROVE  Sound(elf') /\ heap' = Held(elf')
  <2>1. elf' = UpdatedShdr(elf, id, h) /\ heap' = heap
    BY <1>6 DEF UpdateShdr, UpdatedShdr
  <2>2. id \in DOMAIN elf.scn
    BY <1>4, InList DEF Scns
  <2> QED BY <1>1, <1>4, <2>1, <2>2, UpdateShdrAlike, AlikeKept
<1>7. ASSUME NEW id \in Scns, ElfDelscn(id) \/ ElfxRemscn(id)
      PROVE  Sound(elf') /\ heap' = Held(elf')
  <2>1. CASE id = elf.scns[1]
    <3>1. elf' = elf /\ heap' = heap
      BY <1>7, <2>1 DEF ElfDelscn, ElfxRemscn
    <3> QED BY <1>4, <3>1
  <2>2. CASE id # elf.scns[1]
    <3>1. PICK p \in 2 .. Len(elf.scns) : elf.scns[p] = id
      BY <1>4, <2>2, InList DEF Scns
    <3>2. heap' = heap \ OfScn(elf, id) /\ (elf' = Delscn(elf, id) \/ elf' = Remscn(elf, id))
      BY <1>7, <2>2 DEF ElfDelscn, ElfxRemscn
    <3> QED BY <1>4, <3>1, <3>2, DelscnSound, RemscnSound
  <2> QED BY <2>1, <2>2
<1>8. ASSUME NEW id \in Scns, NEW after \in Scns, ElfxMovscn(id, after)
      PROVE  Sound(elf') /\ heap' = Held(elf')
  <2>1. CASE id = elf.scns[1]
    <3>1. elf' = elf /\ heap' = heap
      BY <1>8, <2>1 DEF ElfxMovscn
    <3> QED BY <1>4, <3>1
  <2>2. CASE id # elf.scns[1]
    <3>1. PICK p \in 2 .. Len(elf.scns) : elf.scns[p] = id
      BY <1>4, <2>2, InList DEF Scns
    <3>2. PICK r \in 1 .. Len(elf.scns) : elf.scns[r] = after
      BY <1>4, InList DEF Scns
    <3>3. heap' = heap /\ elf' = Movscn(elf, id, after)
      BY <1>8, <2>2 DEF ElfxMovscn
    <3> QED BY <1>4, <3>1, <3>2, <3>3, MovscnSound
  <2> QED BY <2>1, <2>2
<1> QED BY <1>5, <1>6, <1>7, <1>8

(* elf_update() *)
LEMMA Updates ==
    ASSUME ElfInv, UpdateNull \/ UpdateWrite
    PROVE  ElfInv'
<1>1. /\ plan' \in Seq(SUBSET Calls) /\ state' = "open" /\ Kept /\ heap' = heap
      /\ file \in FileRecords /\ owed \in BOOLEAN
  BY CallIs DEF ElfInv, UpdateNull, UpdateWrite, Open
<1> DEFINE laid == Layout(elf)
<1>2. Sound(elf) /\ elf \in Elfs
  BY <1>1 DEF Kept, Sound
<1>3. laid.elf \in Elfs /\ Alike(elf, laid.elf) /\ laid.len \in Nat
  BY <1>2, LayoutSound
<1>4. Sound(laid.elf) /\ heap = Held(laid.elf)
  BY <1>1, <1>3, AlikeKept
<1>5. Sound(Clean(laid.elf, laid.len)) /\ Held(Clean(laid.elf, laid.len)) = heap
  BY <1>3, <1>4, CleanAlike, AlikeSound
<1>6. Image(laid.elf, laid.len) \in FileRecords
  BY <1>3, <1>4, ImageType
<1>7. Output(Image(laid.elf, laid.len)) \in FileRecords /\ [file EXCEPT !.torn = TRUE] \in FileRecords
  BY <1>1, <1>6, OutputType
<1>8. elf' \in {elf, laid.elf, Clean(laid.elf, laid.len)}
  BY DEF UpdateNull, UpdateWrite
<1>9. file' \in FileRecords /\ owed' \in BOOLEAN
  BY <1>1, <1>7 DEF UpdateNull, UpdateWrite
<1>10. Sound(elf') /\ heap' = Held(elf')
  BY <1>1, <1>2, <1>4, <1>5, <1>8 DEF Kept
<1> QED BY <1>1, <1>9, <1>10 DEF ElfInv, Kept, Open

LEMMA NextHolds ==
    ElfInv /\ [Next]_vars => ElfInv'
<1> SUFFICES ASSUME ElfInv, [Next]_vars PROVE ElfInv'
  OBVIOUS
<1>1. CASE UNCHANGED vars
  BY <1>1 DEF ElfInv, Kept, Open, vars
<1>2. CASE Next
  BY <1>2, OpensAndEnds, Makes, Edits, Updates DEF Next
<1> QED BY <1>1, <1>2

LEMMA Invariant == Spec => []ElfInv
  BY InitHolds, NextHolds, PTL DEF Spec

(* The invariant of the list: after any calls, whichever sections are made, deleted and
   moved, the numbers are the places, e_scn_n is the end of the list, and all of its
   sections are allocated (newscn.c:50-94, opt.delscn.c:83-103, x.movscn.c:82-110). *)
THEOREM ListStaysSound == Spec => []ListSound
<1>1. ElfInv => ListSound
  <2> SUFFICES ASSUME ElfInv, Open PROVE ListSound
    BY DEF ListSound
  <2>1. Sound(elf) /\ heap = Held(elf) /\ elf \in Elfs
    BY DEF ElfInv, Kept, Sound
  <2>2. Len(elf.scns) \in Nat /\ DOMAIN elf.scns = 1 .. Len(elf.scns)
    BY <2>1, ElfType
  <2>3. IsInjective(elf.scns)
    BY <2>1 DEF IsInjective, Sound
  <2>4. ASSUME NEW p \in 1 .. Len(elf.scns)
        PROVE  /\ elf.scn[elf.scns[p]].index = p - 1
               /\ OfScn(elf, elf.scns[p]) \cup {StoredIn(elf, elf.scns[p])} \subseteq heap
    <3>1. elf.scn[elf.scns[p]].index = p - 1
      BY <2>1, <2>2 DEF Sound
    <3>2. \A q \in 1 .. Len(elf.scns) : OfScn(elf, elf.scns[q]) \subseteq heap
      BY <2>1, <2>2 DEF Held
    <3>3. elf.scns # <<>>
      BY <2>2
    <3>4. elf.scns[1] = 0 /\ elf.scn[0].new /\ 1 \in 1 .. Len(elf.scns)
      BY <2>1, <2>2, <3>3 DEF Sound
    <3>5. \A id : elf.scn[id].new => <<id, 0>> \in OfScn(elf, id)
      BY OfScnIs
    <3>6. StoredIn(elf, elf.scns[p]) \in heap
      <4>1. CASE elf.scn[elf.scns[p]].new
        BY <3>2, <3>5, <4>1 DEF StoredIn
      <4>2. CASE ~elf.scn[elf.scns[p]].new
        <5>1. <<0, 0>> \in OfScn(elf, elf.scns[1])
          BY <3>4, <3>5
        <5> QED BY <3>2, <3>4, <4>2, <5>1 DEF StoredIn
      <4> QED BY <4>1, <4>2
    <3> QED BY <3>1, <3>2, <3>6
  <2>5. elf.last = IF elf.scns = <<>> THEN Null ELSE Last(elf.scns)
    BY <2>1 DEF Sound, Last
  <2> QED BY <2>3, <2>4, <2>5 DEF ListSound
<1> QED BY <1>1, Invariant, PTL

(* Type correctness: whatever is called, the descriptor, its sections and buffers, the
   file and the allocations keep the shapes of ext_types.h and private.h. *)
THEOREM ElfTypeCorrect == Spec => []ElfTypeOK
<1>1. ElfInv => ElfTypeOK
  <2> SUFFICES ASSUME ElfInv PROVE ElfTypeOK
    OBVIOUS
  <2>1. Sound(elf) /\ heap = Held(elf) /\ elf \in Elfs
    <3>1. 32 \in {32, 64}
      OBVIOUS
    <3>2. Sound(InitElf(32)) /\ Held(InitElf(32)) = {}
      BY <3>1, InitSound
    <3> QED BY ZenonT(30), <3>2 DEF ElfInv, Kept, Sound
  <2>2. /\ DOMAIN elf.scn = 0 .. Fresh(elf) - 1 /\ DOMAIN elf.scns = 1 .. Len(elf.scns)
        /\ \A id \in DOMAIN elf.scn : elf.scn[id] \in SectionRecords
    BY <2>1, ElfType
  <2>3. elf.class \in {32, 64} /\ elf.flags \subseteq {"layout", "overlap", "dirty"}
    BY <2>1 DEF Elfs, Flags
  <2>4. Range(elf.scns) \subseteq DOMAIN elf.scn
    BY <2>1 DEF Sound, Range
  <2>5. elf.last \in {Null} \cup DOMAIN elf.scn
    BY <2>1, NotEmpty DEF Sound
  <2>6. heap \subseteq (DOMAIN elf.scn) \X Nat
    <3>1. ASSUME NEW id \in DOMAIN elf.scn PROVE OfScn(elf, id) \subseteq (DOMAIN elf.scn) \X Nat
      <4>1. elf.scn[id] \in SectionRecords
        BY <2>2
      <4>2. Len(elf.scn[id].data) \in Nat
        BY <4>1, ScnType
      <4> QED BY <4>2 DEF OfScn
    <3>2. \A p \in DOMAIN elf.scns : elf.scns[p] \in DOMAIN elf.scn
      BY <2>1 DEF Sound
    <3> QED BY <2>1, <3>1, <3>2 DEF Held
  <2> QED BY <2>2, <2>3, <2>4, <2>5, <2>6 DEF ElfTypeOK, ElfInv
<1> QED BY <1>1, Invariant, PTL

(* elf_end() gives back all that was allocated, each once, and looks at nothing it has
   given back, unless a section that was made stands before one that was read
   (end.c:37-72). *)
THEOREM NothingLost == Spec => []EndsClean
<1>1. ElfInv => EndsClean
  <2>1. MadeLast <=> MadeBehind(elf)
    BY DEF MadeLast, MadeBehind
  <2> QED BY <2>1, FreeScnsIs DEF ElfInv, Kept, EndsClean
<1> QED BY <1>1, Invariant, PTL

-----------------------------------------------------------------------------
(***************************************************************************)
(* Where the layout puts things.  A section that is stored takes its place *)
(* in the file.  Fits: its buffers are inside of it.  Clear: two sections  *)
(* have no byte in common.                                                 *)
(***************************************************************************)
Stored(s) == s.type \notin {SHT_NULL, SHT_NOBITS}

Fits(e, s) ==
    /\ \A k \in 1 .. Len(s.data) : s.data[k].off + s.data[k].size <= s.size
    /\ ~Keeps(e) => BuffersInside(s)

Clear(s, t) == s.offset + s.size <= t.offset \/ t.offset + t.size <= s.offset

(* The layout after k sections: each of those that are stored fits, ends before the place
   reached, and begins behind the tables if the library has chosen its place; unless
   overlapping is allowed they are clear of one another. *)
Apart(e, seq, k, acc) ==
    /\ Seen(e, seq, k, acc)
    /\ Base(e) <= acc.off
    /\ acc.ok =>
        /\ \A p \in 2 .. k :
               LET s == acc.scn[e.scns[p]]
               IN  Stored(s) => /\ Fits(e, s) /\ s.offset + s.size <= acc.off
                                /\ ~Keeps(e) => Base(e) <= s.offset
        /\ ~Keeps(e) \/ "overlap" \notin e.flags =>
               \A p, q \in 2 .. k :
                   LET s == acc.scn[e.scns[p]] t == acc.scn[e.scns[q]]
                   IN  p < q /\ Stored(s) /\ Stored(t) => Clear(s, t)

A == INSTANCE FoldProofs WITH Op <- LayoutScn, Inv <- Apart

(* One more section is laid out, as t. *)
LEMMA ApartMore ==
    ASSUME NEW e, Sound(e), NEW seq, NEW p \in 2 .. Len(e.scns), NEW acc, Apart(e, seq, p - 1, acc),
           acc.ok, NEW t, NEW off \in Nat, acc.off <= off,
           NEW r, r.scn = [acc.scn EXCEPT ![e.scns[p]] = t], r.off = off, Seen(e, seq, p, r),
           Stored(t) => /\ Fits(e, t) /\ t.offset + t.size <= off
                        /\ ~Keeps(e) => Base(e) <= t.offset,
           ~Keeps(e) \/ "overlap" \notin e.flags =>
               \A q \in 2 .. p - 1 :
                   Stored(acc.scn[e.scns[q]]) /\ Stored(t) => Clear(acc.scn[e.scns[q]], t)
    PROVE  Apart(e, seq, p, r)
<1> DEFINE n == Len(e.scns)
           At(q) == acc.scn[e.scns[q]]
<1>1. /\ e \in Elfs /\ n \in Nat /\ DOMAIN e.scns = 1 .. n /\ p \in Nat /\ p <= n
      /\ Base(e) \in Nat /\ acc.off \in Nat /\ acc.scn \in [DOMAIN e.scn -> SectionRecords]
      /\ Base(e) <= acc.off
  <2>1. e \in Elfs
    BY DEF Sound
  <2>2. acc.off \in Nat /\ acc.scn \in [DOMAIN e.scn -> SectionRecords]
    BY DEF Apart, Seen
  <2> QED BY <2>1, <2>2, ElfType, BaseIs DEF Apart
<1> HIDE DEF n
<1>2. /\ r.scn[e.scns[p]] = t
      /\ \A q \in 1 .. n : q # p => r.scn[e.scns[q]] = At(q)
  <2>1. \A q \in 1 .. n : e.scns[q] \in DOMAIN acc.scn
    BY <1>1 DEF Sound
  <2>2. \A q \in 1 .. n : q # p => e.scns[q] # e.scns[p]
    BY SMTT(30), <1>1 DEF Sound
  <2> QED BY <1>1, <2>1, <2>2
<1>3. ASSUME NEW q \in 2 .. p, Stored(r.scn[e.scns[q]])
      PROVE  LET s == r.scn[e.scns[q]]
             IN  /\ Fits(e, s) /\ s.offset + s.size <= r.off
                 /\ ~Keeps(e) => Base(e) <= s.offset
  <2>1. CASE q = p
    BY <1>2, <1>3, <2>1
  <2>2. CASE q # p
    <3>1. q \in 2 .. p - 1 /\ q \in 1 .. n
      BY <1>1, <2>2
    <3>2. PICK s : s = At(q) /\ s = r.scn[e.scns[q]]
      BY <1>2, <2>2, <3>1
    <3>3. Fits(e, s) /\ s.offset + s.size <= acc.off /\ (~Keeps(e) => Base(e) <= s.offset)
      BY <1>3, <3>1, <3>2 DEF Apart
    <3>4. s.offset \in Nat /\ s.size \in Nat
      <4>1. e.scns[q] \in DOMAIN e.scn
        BY <1>1, <3>1 DEF Sound
      <4>2. s = acc.scn[e.scns[q]]
        BY <3>2
      <4>3. acc.scn[e.scns[q]] \in SectionRecords
        BY <1>1, <4>1
      <4>4. s \in SectionRecords
        BY <4>2, <4>3
      <4> QED BY <4>4 DEF SectionRecords
    <3>5. s.offset + s.size <= r.off
      BY <1>1, <3>3, <3>4
    <3> QED BY <3>2, <3>3, <3>5
  <2> QED BY <2>1, <2>2
<1>4. ASSUME ~Keeps(e) \/ "overlap" \notin e.flags, NEW a \in 2 .. p, NEW b \in 2 .. p, a < b,
             Stored(r.scn[e.scns[a]]), Stored(r.scn[e.scns[b]])
      PROVE  Clear(r.scn[e.scns[a]], r.scn[e.scns[b]])
  <2>1. a \in 2 .. p - 1 /\ a \in 1 .. n /\ a # p
    BY <1>1, <1>4
  <2>2. r.scn[e.scns[a]] = At(a)
    BY <1>2, <2>1
  <2>3. CASE b = p
    BY <1>2, <1>4, <2>1, <2>2, <2>3
  <2>4. CASE b # p
    <3>1. b \in 2 .. p - 1 /\ b \in 1 .. n
      BY <1>1, <2>4
    <3>2. r.scn[e.scns[b]] = At(b)
      BY <1>2, <2>4, <3>1
    <3> QED BY <1>4, <2>1, <2>2, <3>1, <3>2 DEF Apart
  <2> QED BY <2>3, <2>4
<1>5. Base(e) <= r.off
  BY <1>1
<1> QED BY <1>3, <1>4, <1>5 DEF Apart

(* The buffers of one section, after scn_data_layout(). *)
LEMMA BuffersLaid ==
    ASSUME NEW e \in Elfs, NEW s \in SectionRecords, NEW d, d = DataLayout(e, s)
    PROVE  /\ d.len \in Nat /\ d.align \in Alignments \ {0}
           /\ d.data \in Seq(Datas) /\ Len(d.data) \in Nat
           /\ \A k \in 1 .. Len(d.data) :
                  /\ d.data[k].off \in Nat /\ d.data[k].size \in Nat
                  /\ d.data[k].align \in Alignments
                  /\ d.data[k].off + d.data[k].size <= d.len
                  /\ ~Keeps(e) =>
                        /\ d.data[k].off % Higher(1, d.data[k].align) = 0
                        /\ d.data[k].align <= d.align
                        /\ k > 1 => d.data[k - 1].off + d.data[k - 1].size <= d.data[k].off
<1>1. Laid(e, LoadData(e, s).data, Len(s.data), d)
  BY DataLaid
<1>2. d.data \in Seq(Datas) /\ Len(d.data) = Len(s.data) /\ Len(d.data) \in Nat
  BY <1>1 DEF Laid
<1>3. ASSUME NEW k \in 1 .. Len(d.data)
      PROVE  d.data[k].off \in Nat /\ d.data[k].size \in Nat /\ d.data[k].align \in Alignments
  <2>1. d.data[k] \in Datas
    BY <1>2, ElementOf
  <2> QED BY <2>1 DEF Datas
<1> QED BY <1>1, <1>2, <1>3 DEF Laid

LEMMA MultipleIs ==
    ASSUME NEW m \in Nat, m > 0, NEW q \in Nat, NEW x, x = m * q
    PROVE  x % m = 0
<1>1. (m * q) % m = 0
  OBVIOUS
<1> QED BY <1>1

LEMMA Divides ==
    ASSUME NEW a \in Alignments, NEW b \in Alignments \ {0}, a <= b,
           NEW x \in Nat, x % b = 0, NEW y \in Nat, y % Higher(1, a) = 0
    PROVE  (x + y) % Higher(1, a) = 0
<1> DEFINE m == Higher(1, a)
           i == x \div b
           j == b \div m
           l == y \div m
<1>1. a \in Nat /\ b \in Nat \ {0}
  BY Numbers
<1>2. m \in Nat \ {0}
  BY <1>1 DEF Higher
<1>3. b % m = 0
  BY AlignmentsDivide
<1>4. y % m = 0
  OBVIOUS
<1> HIDE DEF m
<1>5. x = b * i /\ i \in Nat
  BY <1>1
<1>6. b = m * j /\ j \in Nat
  BY <1>1, <1>2, <1>3
<1>7. y = m * l /\ l \in Nat
  BY <1>2, <1>4
<1> HIDE DEF i, j, l
<1>8. x + y = m * (j * i + l)
  BY <1>2, <1>5, <1>6, <1>7
<1>9. j * i + l \in Nat
  BY <1>5, <1>6, <1>7
<1> DEFINE q == j * i + l
<1>10. q \in Nat /\ x + y = m * q
  BY <1>8, <1>9
<1> HIDE DEF q
<1>11. m \in Nat /\ m > 0
  BY <1>2
<1>12. (x + y) % m = 0
  BY <1>10, <1>11, MultipleIs
<1> QED BY <1>12 DEF m

(* A section at a place of its own. *)
LEMMA PlacedFits ==
    ASSUME NEW e \in Elfs, ~Keeps(e), NEW s \in SectionRecords, NEW off \in Nat,
           NEW d, d = DataLayout(e, s), NEW at, at = Align(off, d.align)
    PROVE  Fits(e, Placed(s, at, d)) /\ at \in Nat /\ off <= at /\ d.len \in Nat
<1> DEFINE t == Placed(s, at, d)
<1>1. /\ d.len \in Nat /\ d.align \in Alignments \ {0} /\ d.align \in Nat \ {0}
      /\ d.data \in Seq(Datas) /\ Len(d.data) \in Nat
  BY BuffersLaid, Numbers
<1>2. at \in Nat /\ off <= at /\ at % d.align = 0
  <2>1. at \in Nat /\ off <= at /\ at % Higher(1, d.align) = 0
    BY <1>1, AlignIs, AlignDivides
  <2>2. Higher(1, d.align) = d.align
    BY <1>1 DEF Higher
  <2> QED BY <2>1, <2>2
<1>3. t.data = d.data /\ t.offset = at /\ t.size = d.len
  BY DEF Placed, SectionRecords
<1> HIDE DEF t
<1>4. ASSUME NEW k \in 1 .. Len(d.data)
      PROVE  (at + d.data[k].off) % Higher(1, d.data[k].align) = 0
  <2>1. PICK b : b = d.data[k]
    OBVIOUS
  <2>2. /\ b.off \in Nat /\ b.align \in Alignments
        /\ b.off % Higher(1, b.align) = 0 /\ b.align <= d.align
    BY <2>1, BuffersLaid
  <2>3. (at + b.off) % Higher(1, b.align) = 0
    BY <1>1, <1>2, <2>2, Divides
  <2> QED BY <2>1, <2>3
<1>5. /\ \A k \in 1 .. Len(d.data) : d.data[k].off + d.data[k].size <= d.len
      /\ \A k \in 1 .. Len(d.data) :
            k > 1 => d.data[k - 1].off + d.data[k - 1].size <= d.data[k].off
  BY BuffersLaid
<1>6. BuffersInside(t)
  <2> SUFFICES ASSUME NEW k \in 1 .. Len(d.data)
               PROVE  /\ (at + d.data[k].off) % Higher(1, d.data[k].align) = 0
                      /\ k > 1 => d.data[k - 1].off + d.data[k - 1].size <= d.data[k].off
                      /\ d.data[k].off + d.data[k].size <= d.len
    BY <1>3 DEF BuffersInside, Filled
  <2> QED BY <1>4, <1>5
<1>7. Fits(e, t)
  BY <1>3, <1>5, <1>6 DEF Fits
<1> QED BY <1>1, <1>2, <1>7 DEF t

LEMMA ApartStep ==
    ASSUME NEW e, Sound(e), NEW seq, NEW p \in 1 .. Len(e.scns), NEW acc, Apart(e, seq, p - 1, acc)
    PROVE  Apart(e, seq, p, LayoutScn(e, acc, p))
<1> DEFINE id == e.scns[p]
           s == acc.scn[id]
           d == DataLayout(e, s)
           r == LayoutScn(e, acc, p)
           at == Align(acc.off, d.align)
<1>1. /\ e \in Elfs /\ id \in DOMAIN e.scn /\ s \in SectionRecords
      /\ acc.ok \in BOOLEAN /\ acc.off \in Nat /\ acc.scn \in [DOMAIN e.scn -> SectionRecords]
      /\ Base(e) \in Nat /\ Base(e) <= acc.off /\ p \in Nat /\ Len(e.scns) \in Nat
      /\ acc = [ok |-> acc.ok, off |-> acc.off, scn |-> acc.scn]
  <2>1. e \in Elfs /\ p \in DOMAIN e.scns /\ Len(e.scns) \in Nat
    BY ElfType DEF Sound
  <2>2. id \in DOMAIN e.scn
    BY <2>1 DEF Sound
  <2>3. Seen(e, seq, p - 1, acc) /\ Base(e) <= acc.off
    BY DEF Apart
  <2> QED BY <2>1, <2>2, <2>3, BaseIs DEF Seen
<1>2. Seen(e, seq, p, r)
  <2>1. Seen(e, seq, p - 1, acc)
    BY DEF Apart
  <2> QED BY <2>1, SeenStep
<1>3. \/ r = acc /\ (~acc.ok \/ p = 1 \/ s.type = SHT_NULL)
      \/ r = [acc EXCEPT !.ok = FALSE]
      \/ r = CheckKept(e, acc, p, d) /\ Keeps(e) /\ acc.ok /\ p # 1
      \/ r = PlaceNext(acc, id, at, d) /\ ~Keeps(e) /\ acc.ok /\ p # 1
  BY DEF LayoutScn
<1>4. CASE r.off = acc.off /\ ~r.ok
  BY <1>1, <1>2, <1>4 DEF Apart, r
<1>5. CASE r = acc /\ acc.ok /\ (p = 1 \/ s.type = SHT_NULL)
  <2> HIDE DEF r
  <2>1. CASE p = 1
    <3>1. \A q : q \notin 2 .. p
      BY <2>1
    <3> QED BY <1>1, <1>2, <1>5, <3>1 DEF Apart, r
  <2>2. CASE p # 1 /\ s.type = SHT_NULL
    <3>1. ~Stored(s)
      BY <2>2 DEF Stored
    <3>2. \A q \in 2 .. p : q # p => q \in 2 .. p - 1
      BY <1>1
    <3>3. \A q \in 2 .. p : Stored(acc.scn[e.scns[q]]) => q \in 2 .. p - 1
      BY <3>1, <3>2
    <3> QED BY <1>1, <1>2, <1>5, <3>3 DEF Apart, r
  <2> QED BY <1>5, <2>1, <2>2
<1>6. CASE r = CheckKept(e, acc, p, d) /\ Keeps(e) /\ acc.ok /\ p # 1 /\ r.ok
  <2> DEFINE t == [s EXCEPT !.data = d.data]
             off == Higher(acc.off, End(s))
  <2>1. /\ d.len <= s.size /\ ~Overlaps(e, acc.scn, p, acc.off)
        /\ r.off = off /\ r.scn = [acc.scn EXCEPT ![id] = t]
    <3> DEFINE ok == d.len <= s.size /\ ~Overlaps(e, acc.scn, p, acc.off)
    <3>1. r = [ok |-> ok, off |-> IF ok THEN Higher(acc.off, End(s)) ELSE acc.off,
               scn |-> [acc.scn EXCEPT ![id] = t]]
      BY <1>1, <1>6 DEF CheckKept
    <3> HIDE DEF r, t, off, ok
    <3>2. r.ok = ok
      BY <3>1
    <3>3. ok
      BY <1>6, <3>2
    <3>4. r.off = Higher(acc.off, End(s)) /\ r.scn = [acc.scn EXCEPT ![id] = t]
      BY <3>1, <3>3
    <3> QED BY <3>3, <3>4 DEF ok, off
  <2> HIDE DEF r
  <2>2. s.offset \in Nat /\ s.size \in Nat
    BY <1>1 DEF SectionRecords
  <2>3. /\ d.len \in Nat /\ d.data \in Seq(Datas) /\ Len(d.data) \in Nat
        /\ \A k \in 1 .. Len(d.data) :
               /\ d.data[k].off \in Nat /\ d.data[k].size \in Nat
               /\ d.data[k].off + d.data[k].size <= d.len
    BY <1>1, BuffersLaid
  <2>4. /\ t.type = s.type /\ t.offset = s.offset /\ t.size = s.size /\ t.data = d.data
    BY <1>1 DEF SectionRecords
  <2> HIDE DEF t
  <2>5. Fits(e, t)
    <3>1. ASSUME NEW k \in 1 .. Len(t.data) PROVE t.data[k].off + t.data[k].size <= t.size
      <4>1. PICK b : b = d.data[k]
        OBVIOUS
      <4>2. b.off \in Nat /\ b.size \in Nat /\ b.off + b.size <= d.len
        BY <2>3, <2>4, <4>1
      <4>3. b.off + b.size <= s.size
        <5> HIDE DEF s, d
        <5> QED BY <2>1, <2>2, <2>3, <4>2
      <4> QED BY <2>4, <4>1, <4>3
    <3> QED BY <1>6, <3>1 DEF Fits
  <2>6. End(s) \in Nat /\ (Stored(s) => End(s) = s.offset + s.size)
    BY SMTT(30), <2>2 DEF End, Stored
  <2>7. off \in Nat /\ acc.off <= off /\ End(s) <= off
    BY <1>1, <2>6 DEF Higher
  <2> HIDE DEF off
  <2>8. ASSUME "overlap" \notin e.flags, NEW q \in 2 .. p - 1,
               Stored(acc.scn[e.scns[q]]), Stored(t)
        PROVE  Clear(acc.scn[e.scns[q]], t)
    <3> DEFINE u == acc.scn[e.scns[q]]
    <3>1. u \in SectionRecords
      <4>1. q \in DOMAIN e.scns
        BY <1>1, ElfType
      <4>2. e.scns[q] \in DOMAIN e.scn
        BY <4>1 DEF Sound
      <4> QED BY <1>1, <4>2
    <3>2. Stored(u) /\ u.offset + u.size <= acc.off
      BY <1>6, <2>8 DEF Apart
    <3>3. s.offset < acc.off => ~(End(s) > u.offset /\ End(u) > s.offset)
      <4>1. q \in 1 .. p - 1
        BY <1>1
      <4> QED BY <2>1, <2>8, <4>1 DEF Overlaps
    <3> HIDE DEF u
    <3>4. u.offset \in Nat /\ u.size \in Nat
      BY <3>1 DEF SectionRecords
    <3>5. End(u) = u.offset + u.size
      BY <3>2 DEF End, Stored
    <3>6. End(s) = s.offset + s.size
      BY <2>4, <2>6, <2>8 DEF Stored
    <3>7. s.offset + s.size <= u.offset \/ u.offset + u.size <= s.offset
      <4> HIDE DEF s
      <4>1. CASE s.offset < acc.off
        <5>1. ~(s.offset + s.size > u.offset /\ u.offset + u.size > s.offset)
          BY <3>3, <3>5, <3>6, <4>1
        <5> QED BY <2>2, <3>4, <5>1
      <4>2. CASE ~(s.offset < acc.off)
        <5>1. acc.off \in Nat /\ u.offset + u.size <= acc.off
          BY <1>1, <3>2
        <5> QED BY <2>2, <3>4, <4>2, <5>1
      <4> QED BY <4>1, <4>2
    <3>8. Clear(u, t)
      BY <2>4, <3>7 DEF Clear
    <3> QED BY <3>8 DEF u
  <2>9. Stored(t) => t.offset + t.size <= off
    BY <2>2, <2>4, <2>6, <2>7 DEF Stored
  <2>10. p \in 2 .. Len(e.scns)
    BY <1>1, <1>6
  <2> HIDE DEF id, s, d
  <2>11. Apart(e, seq, p, r)
    BY <1>2, <1>6, <2>1, <2>5, <2>7, <2>8, <2>9, <2>10, ApartMore DEF id
  <2> QED BY <2>11 DEF r
<1>7. CASE r = PlaceNext(acc, id, at, d) /\ ~Keeps(e) /\ acc.ok /\ p # 1
  <2> DEFINE t == Placed(s, at, d)
             off == IF s.type = SHT_NOBITS THEN at ELSE at + d.len
  <2>1. r.off = off /\ r.scn = [acc.scn EXCEPT ![id] = t]
    BY <1>1, <1>7 DEF PlaceNext
  <2> HIDE DEF r
  <2>2. Fits(e, t) /\ at \in Nat /\ acc.off <= at /\ d.len \in Nat
    <3> HIDE DEF s, d, at, t
    <3>1. d = DataLayout(e, s) /\ at = Align(acc.off, d.align) /\ t = Placed(s, at, d)
      BY DEF d, at, t
    <3> QED BY <1>1, <1>7, <3>1, PlacedFits
  <2>3. t.type = s.type /\ t.offset = at /\ t.size = d.len
    BY <1>1 DEF Placed, SectionRecords
  <2> HIDE DEF t, at
  <2>4. off \in Nat /\ acc.off <= off
    BY <1>1, <2>2
  <2>5. Stored(t) => t.offset + t.size <= off /\ Base(e) <= t.offset
    BY <1>1, <2>2, <2>3 DEF Stored
  <2> HIDE DEF off
  <2>6. ASSUME NEW q \in 2 .. p - 1, Stored(acc.scn[e.scns[q]]), Stored(t)
        PROVE  Clear(acc.scn[e.scns[q]], t)
    <3> DEFINE u == acc.scn[e.scns[q]]
    <3>1. u \in SectionRecords
      <4>1. q \in DOMAIN e.scns
        BY <1>1, ElfType
      <4>2. e.scns[q] \in DOMAIN e.scn
        BY <4>1 DEF Sound
      <4> QED BY <1>1, <4>2
    <3>2. u.offset + u.size <= acc.off
      BY <1>7, <2>6 DEF Apart
    <3> HIDE DEF u
    <3>3. u.offset \in Nat /\ u.size \in Nat
      BY <3>1 DEF SectionRecords
    <3>4. u.offset + u.size <= t.offset
      BY <1>1, <2>2, <2>3, <3>2, <3>3
    <3> QED BY <3>4 DEF Clear, u
  <2>7. p \in 2 .. Len(e.scns)
    BY <1>1, <1>7
  <2> HIDE DEF id, s, d
  <2>8. Apart(e, seq, p, r)
    BY <1>2, <1>7, <2>1, <2>2, <2>4, <2>5, <2>6, <2>7, ApartMore DEF id
  <2> QED BY <2>8 DEF r
<1> QED
  <2>1. r.ok \in BOOLEAN
    BY <1>2 DEF Seen
  <2>2. CASE r = [acc EXCEPT !.ok = FALSE]
    <3>1. r.off = acc.off /\ ~r.ok
      BY <1>1, <2>2
    <3> QED BY <1>4, <3>1
  <2>3. CASE r = acc /\ (~acc.ok \/ p = 1 \/ s.type = SHT_NULL)
    BY <1>4, <1>5, <2>3
  <2>4. CASE r = CheckKept(e, acc, p, d) /\ Keeps(e) /\ acc.ok /\ p # 1
    <3>1. CASE r.ok
      BY <1>6, <2>4, <3>1
    <3>2. CASE ~r.ok
      <4> DEFINE ok == d.len <= s.size /\ ~Overlaps(e, acc.scn, p, acc.off)
                 scn == [acc.scn EXCEPT ![id].data = d.data]
      <4>0. r = [ok |-> ok, off |-> IF ok THEN Higher(acc.off, End(s)) ELSE acc.off,
                 scn |-> scn]
        BY <2>4 DEF CheckKept
      <4> HIDE DEF r, ok, scn, s
      <4>1. r.off = acc.off
        BY <3>2, <4>0
      <4> QED BY <1>4, <3>2, <4>1
    <3> QED BY <3>1, <3>2
  <2> QED BY <1>3, <1>7, <2>2, <2>3, <2>4

(* What the layout of all sections comes to. *)
LEMMA LayoutApart ==
    ASSUME NEW e, Sound(e)
    PROVE  Apart(e, Places(e), Len(e.scns), LayoutScns(e))
<1> DEFINE base == [ok |-> TRUE, off |-> Base(e), scn |-> First(e)]
           n == Len(e.scns)
           r == LayoutScns(e)
<1>1. e \in Elfs /\ n \in Nat /\ Base(e) \in Nat
  BY ElfType, BaseIs DEF Sound
<1>2. r = A!Fold(e, base, Places(e))
  BY DEF LayoutScns, Places, Base, First, A!Fold, FoldLeft, MapThenFoldSet, Max,
         A!FoldLeft, A!MapThenFoldSet, A!Max
<1>3. Apart(e, Places(e), 0, base)
  <2>1. Seen(e, Places(e), 0, base)
    BY LayoutScnsAre
  <2>2. \A q : q \notin 2 .. 0
    OBVIOUS
  <2>3. base.off = Base(e)
    OBVIOUS
  <2> HIDE DEF base
  <2> QED BY <1>1, <2>1, <2>2, <2>3 DEF Apart
<1> HIDE DEF base
<1>4. DOMAIN Places(e) = 1 .. n
  BY DEF Places
<1>5. ASSUME NEW k \in 1 .. n, NEW acc, Apart(e, Places(e), k - 1, acc)
      PROVE  Apart(e, Places(e), k, LayoutScn(e, acc, Places(e)[k]))
  <2>1. Places(e)[k] = k
    BY DEF Places
  <2> QED BY <1>5, <2>1, ApartStep
<1> HIDE DEF n
<1>6. Apart(e, Places(e), n, A!Fold(e, base, Places(e)))
  BY <1>1, <1>3, <1>4, <1>5, A!FoldInvariant
<1> HIDE DEF r
<1>7. Apart(e, Places(e), n, r)
  BY <1>2, <1>6
<1> QED BY <1>7 DEF n, r

(* What a layout that succeeds leaves in the descriptor. *)
LEMMA LaidOut ==
    ASSUME NEW e, Sound(e), NEW l, l = Layout(e), l.ok, NEW f, f = l.elf,
           NEW all, all = LayoutScns(e)
    PROVE  /\ all.ok /\ f.scn = Numbered(e, all) /\ f.scns = e.scns /\ f.flags = e.flags
           /\ f.class = e.class /\ f.phnum = e.phnum
           /\ f.e_phoff = Phoff(e) /\ f.e_shoff = Shoff(e, all.off)
           /\ l.len = Higher(all.off, TableEnd(e, f.e_shoff))
<1> DEFINE num == Len(e.scns)
           phnum == IF e.phnum >= PN_XNUM THEN PN_XNUM ELSE e.phnum
           shoff == IF all.ok THEN Shoff(e, all.off) ELSE e.e_shoff
           shnum == IF ~all.ok THEN e.e_shnum ELSE IF num >= SHN_LORESERVE THEN 0 ELSE num
           x == [e EXCEPT !.scn = Numbered(e, all), !.e_phoff = Phoff(e), !.e_phnum = phnum,
                          !.e_shoff = shoff, !.e_shnum = shnum]
           dirty == x.dirty \/ x # [e EXCEPT !.scn = x.scn]
<1>1. e \in Elfs
  BY DEF Sound
<1>2. l = [ok |-> all.ok, elf |-> LayoutHeader(e, all),
           len |-> Higher(all.off, TableEnd(e, Shoff(e, all.off)))]
  BY DEF Layout
<1>3. all.ok /\ f = LayoutHeader(e, all)
  BY <1>2
<1>4. LayoutHeader(e, all) = [x EXCEPT !.dirty = dirty]
  BY <1>1 DEF LayoutHeader, Elfs
<1> HIDE DEF dirty, phnum, shoff, shnum
<1>5. /\ f.scn = Numbered(e, all) /\ f.scns = e.scns /\ f.flags = e.flags /\ f.class = e.class
      /\ f.phnum = e.phnum /\ f.e_phoff = Phoff(e) /\ f.e_shoff = shoff
  BY <1>1, <1>3, <1>4 DEF Elfs
<1>6. shoff = Shoff(e, all.off)
  BY <1>3 DEF shoff
<1> QED BY <1>2, <1>3, <1>5, <1>6

(* The sections that are written are stored, where they were laid out, and are not
   section 0. *)
LEMMA WrittenAre ==
    ASSUME NEW e, Sound(e), NEW all, all = LayoutScns(e), NEW f, f.scn = Numbered(e, all),
           f.scns = e.scns, NEW id \in Written(f)
    PROVE  /\ \E p \in 2 .. Len(e.scns) : id = e.scns[p] /\ Stored(f.scn[id])
           /\ f.scn[id] = all.scn[id]
<1>1. e \in Elfs /\ DOMAIN e.scns = 1 .. Len(e.scns) /\ Len(e.scns) \in Nat
  BY ElfType DEF Sound
<1>2. id \in Range(e.scns) /\ f.scn[id].index # 0 /\ Stored(f.scn[id])
  BY DEF Written, Stored
<1>3. PICK p \in 1 .. Len(e.scns) : id = e.scns[p]
  BY <1>1, <1>2 DEF Range
<1>4. id \in DOMAIN e.scn /\ e.scn[id].index = p - 1
  BY <1>1, <1>3 DEF Sound
<1>5. f.scn[id].index = e.scn[id].index
  <2>1. SameScn(f.scn[id], e.scn[id])
    BY <1>4, NumberedIs
  <2> QED BY <2>1 DEF SameScn
<1>6. p # 1 /\ p \in 2 .. Len(e.scns)
  BY <1>1, <1>2, <1>3, <1>4, <1>5
<1>7. id # e.scns[1]
  BY <1>1, <1>3, <1>6 DEF Sound
<1>8. f.scn[id] = all.scn[id]
  BY <1>4, <1>7, NumberedIs
<1> QED BY <1>2, <1>3, <1>6, <1>8

(* A section that is written, after a layout that has succeeded. *)
LEMMA WrittenFits ==
    ASSUME NEW e, Sound(e), NEW l, l = Layout(e), l.ok, NEW f, f = l.elf, NEW id \in Written(f)
    PROVE  LET s == f.scn[id]
           IN  /\ s.offset \in Nat /\ s.size \in Nat
               /\ s.data \in Seq(Datas) /\ Len(s.data) \in Nat /\ Fits(e, s)
               /\ s.offset + s.size <= LayoutScns(e).off /\ LayoutScns(e).off \in Nat
               /\ ~Keeps(e) => Base(e) <= s.offset
<1> DEFINE all == LayoutScns(e)
           s == f.scn[id]
<1>1. all.ok /\ f.scn = Numbered(e, all) /\ f.scns = e.scns
  BY LaidOut
<1>2. Apart(e, Places(e), Len(e.scns), all) /\ Seen(e, Places(e), Len(e.scns), all)
  BY LayoutApart, LayoutScnsAre
<1>3. PICK p \in 2 .. Len(e.scns) : id = e.scns[p] /\ Stored(s)
  BY <1>1, WrittenAre
<1>0. s = all.scn[id]
  BY <1>1, WrittenAre
<1> HIDE DEF all
<1>4. Fits(e, s) /\ s.offset + s.size <= all.off /\ (~Keeps(e) => Base(e) <= s.offset)
  BY <1>0, <1>1, <1>2, <1>3 DEF Apart
<1>5. all.off \in Nat
  BY <1>2 DEF Seen
<1>6. s \in SectionRecords
  <2>1. e \in Elfs /\ DOMAIN e.scns = 1 .. Len(e.scns) /\ Len(e.scns) \in Nat
    BY ElfType DEF Sound
  <2>2. p \in DOMAIN e.scns
    BY <2>1
  <2>3. id \in DOMAIN e.scn
    BY <1>3, <2>2 DEF Sound
  <2> QED BY <1>0, <1>2, <2>3 DEF Seen
<1>7. s.offset \in Nat /\ s.size \in Nat /\ s.data \in Seq(Datas) /\ Len(s.data) \in Nat
  <2> HIDE DEF s
  <2>1. s.data \in Seq(Datas) /\ s.offset \in Nat /\ s.size \in Nat
    BY <1>6 DEF SectionRecords
  <2> QED BY <2>1
<1> QED BY <1>4, <1>5, <1>7 DEF all

LEMMA WrittenClear ==
    ASSUME NEW e, Sound(e), NEW l, l = Layout(e), l.ok, NEW f, f = l.elf,
           NEW id \in Written(f), NEW other \in Written(f), id # other,
           ~Keeps(e) \/ "overlap" \notin e.flags
    PROVE  Clear(f.scn[id], f.scn[other])
<1> DEFINE all == LayoutScns(e)
<1>1. all.ok /\ f.scn = Numbered(e, all) /\ f.scns = e.scns
  BY LaidOut
<1>2. Apart(e, Places(e), Len(e.scns), all)
  BY LayoutApart
<1>3. PICK p \in 2 .. Len(e.scns) : id = e.scns[p] /\ Stored(f.scn[id])
  BY <1>1, WrittenAre
<1>4. PICK q \in 2 .. Len(e.scns) : other = e.scns[q] /\ Stored(f.scn[other])
  BY <1>1, WrittenAre
<1>0. f.scn[id] = all.scn[id] /\ f.scn[other] = all.scn[other]
  BY <1>1, WrittenAre
<1>5. Len(e.scns) \in Nat
  BY ElfType DEF Sound
<1> HIDE DEF all
<1>6. p < q => Clear(f.scn[id], f.scn[other])
  BY <1>0, <1>1, <1>2, <1>3, <1>4 DEF Apart
<1>7. q < p => Clear(f.scn[other], f.scn[id])
  BY <1>0, <1>1, <1>2, <1>3, <1>4 DEF Apart
<1>8. p < q \/ q < p
  BY <1>3, <1>4, <1>5
<1> QED BY <1>6, <1>7, <1>8 DEF Clear

(* The header and the tables, and how far the output goes. *)
LEMMA TablesFit ==
    ASSUME NEW e, Sound(e), NEW l, l = Layout(e), l.ok, NEW f, f = l.elf, NEW off,
           off = LayoutScns(e).off
    PROVE  LET eh == FileSize(f.class, "ehdr")
               ph == f.phnum * FileSize(f.class, "phdr")
               sh == Len(f.scns) * FileSize(f.class, "shdr")
           IN  /\ eh \in Nat /\ ph \in Nat /\ sh \in Nat /\ off \in Nat /\ l.len \in Nat
               /\ f.e_phoff \in Nat /\ f.e_shoff \in Nat
               /\ eh <= Base(e) /\ Base(e) \in Nat /\ Base(e) <= off /\ off <= l.len
               /\ ph = 0 \/ f.e_phoff + ph <= Base(e)
               /\ sh = 0 \/ f.e_shoff + sh <= l.len
               /\ ~Keeps(e) => /\ ph = 0 \/ eh <= f.e_phoff
                               /\ sh = 0 \/ off <= f.e_shoff
<1> DEFINE eh == FileSize(e.class, "ehdr")
           phdr == FileSize(e.class, "phdr")
           shdr == FileSize(e.class, "shdr")
           ad == FileSize(e.class, "addr")
           ph == e.phnum * phdr
           n == Len(e.scns)
           sh == n * shdr
<1>1. /\ f.scns = e.scns /\ f.class = e.class /\ f.phnum = e.phnum
      /\ f.e_phoff = Phoff(e) /\ f.e_shoff = Shoff(e, off)
      /\ l.len = Higher(off, TableEnd(e, f.e_shoff))
  BY LaidOut
<1>2. e \in Elfs /\ n \in Nat /\ e.class \in {32, 64} /\ e.phnum \in Nat /\ e.e_shoff \in Nat
      /\ (e.scns = <<>> <=> n = 0)
  <2>1. e \in Elfs
    BY DEF Sound
  <2>2. n \in Nat /\ (e.scns = <<>> <=> n = 0)
    <3>1. e.scns \in Seq(Nat)
      BY <2>1 DEF Elfs
    <3> QED BY <3>1
  <2> QED BY <2>1, <2>2 DEF Elfs
<1>3. eh \in Nat /\ phdr \in Nat /\ shdr \in Nat /\ ad \in Nat
  BY <1>2, SizesAre
<1>4. off \in Nat /\ Base(e) <= off
  <2>1. Apart(e, Places(e), Len(e.scns), LayoutScns(e))
    BY LayoutApart
  <2> QED BY <2>1 DEF Apart, Seen
<1>5. /\ Phoff(e) \in Nat /\ Base(e) \in Nat /\ eh <= Base(e)
      /\ e.phnum # 0 => Phoff(e) + ph <= Base(e)
      /\ ph \in Nat
  BY <1>2, BaseIs
<1>6. Align(eh, ad) >= eh /\ Align(off, ad) >= off /\ Align(off, ad) \in Nat
  BY <1>3, <1>4, AlignIs
<1>7. sh \in Nat /\ (n = 0 => sh = 0)
  BY <1>2, <1>3
<1>8. e.phnum = 0 => ph = 0
  BY <1>3
<1>9. ~Keeps(e) /\ e.phnum # 0 => eh <= Phoff(e)
  BY <1>6 DEF Phoff
<1>10. /\ Shoff(e, off) \in Nat
       /\ ~Keeps(e) /\ n # 0 => off <= Shoff(e, off)
  BY <1>2, <1>6 DEF Shoff
<1>11. n # 0 => TableEnd(e, f.e_shoff) = f.e_shoff + sh
  BY <1>2 DEF TableEnd
<1>12. n = 0 => TableEnd(e, f.e_shoff) = 0
  BY <1>2 DEF TableEnd
<1> HIDE DEF eh, ph, sh, n, ad, phdr, shdr
<1>13. l.len \in Nat /\ off <= l.len /\ (sh = 0 \/ f.e_shoff + sh <= l.len)
  BY <1>1, <1>4, <1>7, <1>10, <1>11, <1>12 DEF Higher
<1>14. /\ eh = FileSize(f.class, "ehdr") /\ ph = f.phnum * FileSize(f.class, "phdr")
       /\ sh = Len(f.scns) * FileSize(f.class, "shdr")
  BY <1>1 DEF eh, ph, sh, phdr, shdr, n
<1>15. /\ ph = 0 \/ f.e_phoff + ph <= Base(e)
       /\ ~Keeps(e) => (ph = 0 \/ eh <= f.e_phoff) /\ (sh = 0 \/ off <= f.e_shoff)
  BY <1>1, <1>5, <1>7, <1>8, <1>9, <1>10
<1> QED BY <1>1, <1>3, <1>4, <1>5, <1>7, <1>10, <1>13, <1>14, <1>15

(* A region of the buffers is that of a filled buffer of a section written. *)
LEMMA BufferRegionsAre ==
    ASSUME NEW f, NEW r \in BufferRegions(f)
    PROVE  \E id \in Written(f) : \E k \in Filled(f.scn[id]) :
               r = Region(f.scn[id].offset + f.scn[id].data[k].off, f.scn[id].data[k].size)
  BY DEF BufferRegions

(* All that is written is inside the output. *)
LEMMA AllInside ==
    ASSUME NEW e, Sound(e), NEW l, l = Layout(e), l.ok, NEW f, f = l.elf,
           NEW r \in HeaderRegions(f) \cup BufferRegions(f)
    PROVE  Inside(r, l.len)
<1> DEFINE off == LayoutScns(e).off
           eh == FileSize(f.class, "ehdr")
           ph == f.phnum * FileSize(f.class, "phdr")
           sh == Len(f.scns) * FileSize(f.class, "shdr")
<1>1. /\ eh \in Nat /\ ph \in Nat /\ sh \in Nat /\ off \in Nat /\ l.len \in Nat
      /\ f.e_phoff \in Nat /\ f.e_shoff \in Nat
      /\ eh <= Base(e) /\ Base(e) \in Nat /\ Base(e) <= off /\ off <= l.len
      /\ ph = 0 \/ f.e_phoff + ph <= Base(e)
      /\ sh = 0 \/ f.e_shoff + sh <= l.len
  BY TablesFit
<1>2. CASE r \in HeaderRegions(f)
  <2>1. r \in {Region(0, eh), Region(f.e_phoff, ph), Region(f.e_shoff, sh)}
    BY <1>2 DEF HeaderRegions
  <2> HIDE DEF eh, ph, sh, off
  <2> QED BY <1>1, <2>1 DEF Region, Inside
<1>3. CASE r \in BufferRegions(f)
  <2>1. PICK id \in Written(f) : \E k \in Filled(f.scn[id]) :
            r = Region(f.scn[id].offset + f.scn[id].data[k].off, f.scn[id].data[k].size)
    BY <1>3, BufferRegionsAre
  <2>2. PICK s : s = f.scn[id]
    OBVIOUS
  <2>3. PICK k \in 1 .. Len(s.data) : r = Region(s.offset + s.data[k].off, s.data[k].size)
    BY <2>1, <2>2 DEF Filled
  <2>4. /\ s.offset \in Nat /\ s.size \in Nat /\ s.data \in Seq(Datas) /\ Fits(e, s)
        /\ s.offset + s.size <= off
    BY <2>2, WrittenFits
  <2>5. PICK d \in Datas : d = s.data[k]
    BY <2>4, ElementOf
  <2>6. d.off \in Nat /\ d.size \in Nat
    BY DEF Datas
  <2>7. d.off + d.size <= s.size
    BY <2>4, <2>5 DEF Fits
  <2>8. r.to = s.offset + d.off + d.size
    BY <2>3, <2>5 DEF Region
  <2> HIDE DEF off, eh, ph, sh
  <2>9. r.to <= l.len
    <3>1. off \in Nat /\ l.len \in Nat /\ off <= l.len
      BY <1>1
    <3> QED BY <2>4, <2>6, <2>7, <2>8, <3>1
  <2> QED BY <2>9 DEF Inside
<1> QED BY <1>2, <1>3

(* No byte is used twice, when the library lays the file out. *)
LEMMA AllDisjoint ==
    ASSUME NEW e, Sound(e), ~Keeps(e), NEW l, l = Layout(e), l.ok, NEW f, f = l.elf,
           NEW extents, extents = [id \in Written(f) |-> Region(f.scn[id].offset, f.scn[id].size)]
    PROVE  Disjoint(HeaderRegions(f) \cup {extents[id] : id \in Written(f)})
<1> DEFINE off == LayoutScns(e).off
           eh == FileSize(f.class, "ehdr")
           ph == f.phnum * FileSize(f.class, "phdr")
           sh == Len(f.scns) * FileSize(f.class, "shdr")
           Sections == {extents[id] : id \in Written(f)}
           Away(r, t) == r = t \/ r.from = r.to \/ t.from = t.to \/ r.to <= t.from \/ t.to <= r.from
<1>1. /\ eh \in Nat /\ ph \in Nat /\ sh \in Nat /\ off \in Nat
      /\ f.e_phoff \in Nat /\ f.e_shoff \in Nat
      /\ eh <= Base(e) /\ Base(e) \in Nat /\ Base(e) <= off
      /\ ph = 0 \/ f.e_phoff + ph <= Base(e)
      /\ ph = 0 \/ eh <= f.e_phoff
      /\ sh = 0 \/ off <= f.e_shoff
  BY TablesFit
<1>2. HeaderRegions(f) = {Region(0, eh), Region(f.e_phoff, ph), Region(f.e_shoff, sh)}
  BY DEF HeaderRegions
<1>3. ASSUME NEW id \in Written(f)
      PROVE  /\ extents[id] = Region(f.scn[id].offset, f.scn[id].size)
             /\ f.scn[id].offset \in Nat /\ f.scn[id].size \in Nat
             /\ f.scn[id].offset + f.scn[id].size <= off /\ Base(e) <= f.scn[id].offset
  BY WrittenFits
<1> HIDE DEF eh, ph, sh, off
<1>4. ASSUME NEW r \in HeaderRegions(f), NEW t \in HeaderRegions(f) PROVE Away(r, t)
  <2>1. /\ r \in {Region(0, eh), Region(f.e_phoff, ph), Region(f.e_shoff, sh)}
        /\ t \in {Region(0, eh), Region(f.e_phoff, ph), Region(f.e_shoff, sh)}
    BY <1>2
  <2> QED BY <1>1, <2>1 DEF Region
<1>5. ASSUME NEW r \in HeaderRegions(f), NEW t \in Sections PROVE Away(r, t) /\ Away(t, r)
  <2>1. r \in {Region(0, eh), Region(f.e_phoff, ph), Region(f.e_shoff, sh)}
    BY <1>2
  <2>2. PICK id \in Written(f) : t = extents[id]
    OBVIOUS
  <2>3. PICK at \in Nat, size \in Nat : t = Region(at, size) /\ at + size <= off /\ Base(e) <= at
    BY <1>3, <2>2
  <2> QED BY <1>1, <2>1, <2>3 DEF Region
<1>6. ASSUME NEW r \in Sections, NEW t \in Sections PROVE Away(r, t)
  <2>1. PICK id \in Written(f) : r = extents[id]
    OBVIOUS
  <2>2. PICK other \in Written(f) : t = extents[other]
    OBVIOUS
  <2>3. CASE id = other
    BY <2>1, <2>2, <2>3
  <2>4. CASE id # other
    <3>1. Clear(f.scn[id], f.scn[other])
      BY <2>4, WrittenClear
    <3>2. r = Region(f.scn[id].offset, f.scn[id].size)
          /\ t = Region(f.scn[other].offset, f.scn[other].size)
      BY <1>3, <2>1, <2>2
    <3> QED BY <3>1, <3>2 DEF Region, Clear
  <2> QED BY <2>3, <2>4
<1> HIDE DEF Sections
<1>7. \A r, t \in HeaderRegions(f) \cup Sections : Away(r, t)
  BY <1>4, <1>5, <1>6
<1>8. Disjoint(HeaderRegions(f) \cup Sections)
  BY <1>7 DEF Disjoint
<1> QED BY <1>8 DEF Sections

(* Nothing that elf_update() writes is outside of its output or on top of anything else:
   whatever calls have been made, for files, sections and buffers of every number and
   size, and for all alignments of which the larger is a multiple of the smaller. *)
THEOREM RegionsStayApart == Spec => []RegionsApart
<1>1. ElfInv => RegionsApart
  <2> SUFFICES ASSUME ElfInv, Open, elf.ehdr, Layout(elf).ok PROVE RegionsApart
    BY DEF RegionsApart
  <2> DEFINE l == Layout(elf)
             e == l.elf
             extents == [id \in Written(e) |-> Region(e.scn[id].offset, e.scn[id].size)]
  <2>1. Sound(elf)
    BY DEF ElfInv, Kept
  <2>2. e.flags = elf.flags /\ (Keeps(e) <=> Keeps(elf))
    BY <2>1, LaidOut DEF Keeps
  <2>3. \A r \in HeaderRegions(e) \cup BufferRegions(e) : Inside(r, l.len)
    BY <2>1, AllInside
  <2>4. ASSUME "overlap" \notin e.flags PROVE SectionsDisjoint(e, extents)
    <3> SUFFICES ASSUME NEW id \in Written(e), NEW other \in Written(e), id # other
                 PROVE  /\ Disjoint({extents[id], extents[other]})
                        /\ extents[id] # extents[other] \/ e.scn[id].size = 0
      BY DEF SectionsDisjoint
    <3>1. Clear(e.scn[id], e.scn[other])
      BY <2>1, <2>2, <2>4, WrittenClear
    <3>2. PICK s, t : s = e.scn[id] /\ t = e.scn[other]
      OBVIOUS
    <3>3. s.offset \in Nat /\ s.size \in Nat /\ t.offset \in Nat /\ t.size \in Nat
      BY <2>1, <3>2, WrittenFits
    <3>4. extents[id] = Region(s.offset, s.size) /\ extents[other] = Region(t.offset, t.size)
      BY <3>2
    <3>5. s.offset + s.size <= t.offset \/ t.offset + t.size <= s.offset
      BY <3>1, <3>2 DEF Clear
    <3> HIDE DEF extents, e, l
    <3>6. Disjoint({extents[id], extents[other]})
      BY <3>3, <3>4, <3>5 DEF Disjoint, Region
    <3>7. extents[id] # extents[other] \/ s.size = 0
      <4> SUFFICES ASSUME extents[id] = extents[other] PROVE s.size = 0
        OBVIOUS
      <4>0. Region(s.offset, s.size) = Region(t.offset, t.size)
        BY <3>4
      <4>1. /\ Region(s.offset, s.size).from = s.offset
            /\ Region(s.offset, s.size).to = s.offset + s.size
            /\ Region(t.offset, t.size).from = t.offset
            /\ Region(t.offset, t.size).to = t.offset + t.size
        BY DEF Region
      <4> QED BY <3>3, <3>5, <4>0, <4>1
    <3> QED BY <3>2, <3>6, <3>7
  <2>5. ASSUME ~Keeps(e)
        PROVE  /\ Disjoint(HeaderRegions(e) \cup {extents[id] : id \in Written(e)})
               /\ \A id \in Written(e) : BuffersInside(e.scn[id])
    <3>1. ~Keeps(elf)
      BY <2>2, <2>5
    <3>2. Disjoint(HeaderRegions(e) \cup {extents[id] : id \in Written(e)})
      BY ZenonT(30), <2>1, <3>1, AllDisjoint
    <3>3. \A id \in Written(e) : BuffersInside(e.scn[id])
      BY <2>1, <3>1, WrittenFits DEF Fits
    <3> QED BY <3>2, <3>3
  <2> QED BY <2>3, <2>4, <2>5 DEF RegionsApart
<1> QED BY <1>1, Invariant, PTL

-----------------------------------------------------------------------------
(* elf_delscn(): what stays is in the order it had, with its links renumbered. *)
LEMMA DelscnIs ==
    ASSUME NEW e, Sound(e), NEW p \in 2 .. Len(e.scns), NEW f, f = Delscn(e, e.scns[p])
    PROVE  /\ f.scns = RemoveAt(e.scns, p)
           /\ \A id \in Range(f.scns) :
                  /\ e.scn[id].type \in {SHT_REL, SHT_SYMTAB} =>
                        f.scn[id].link = NewIndex(e.scn[id].link, p - 1)
                  /\ e.scn[id].type = SHT_REL =>
                        f.scn[id].info = NewIndex(e.scn[id].info, p - 1)
<1> DEFINE u == Unlink(e, e.scns[p])
           index == e.scn[e.scns[p]].index
           Linked(s) == IF s.type \in {SHT_REL, SHT_SYMTAB}
                        THEN [s EXCEPT !.link = NewIndex(@, index)] ELSE s
           Applied(s) == IF s.type = SHT_REL THEN [s EXCEPT !.info = NewIndex(@, index)] ELSE s
           t == [id \in DOMAIN u.scn |->
                    IF id \in Range(u.scns) THEN Applied(Linked(u.scn[id])) ELSE u.scn[id]]
           num == u.scn[u.last].index + 1
<1>1. /\ e \in Elfs /\ p \in 1 .. Len(e.scns) /\ e.scn \in [DOMAIN e.scn -> SectionRecords]
      /\ Place(e, e.scns[p]) = p /\ index = p - 1
  <2>1. e \in Elfs /\ DOMAIN e.scns = 1 .. Len(e.scns) /\ Len(e.scns) \in Nat
        /\ e.scn \in [DOMAIN e.scn -> SectionRecords]
    BY ElfType DEF Sound
  <2>2. p \in 1 .. Len(e.scns)
    BY <2>1
  <2> QED BY <2>1, <2>2, PlaceIs DEF Sound
<1>2. Sound(u) /\ u.scns # <<>> /\ DOMAIN u.scn = DOMAIN e.scn
  BY UnlinkSound
<1>3. u \in Elfs /\ u.scn \in [DOMAIN u.scn -> SectionRecords]
  BY <1>2, ElfType DEF Sound
<1>4. u.scns = RemoveAt(e.scns, p)
  BY <1>1 DEF Unlink, Elfs
<1>5. ASSUME NEW id \in DOMAIN e.scn
      PROVE  /\ u.scn[id].type = e.scn[id].type /\ u.scn[id].link = e.scn[id].link
             /\ u.scn[id].info = e.scn[id].info
  <2> DEFINE rest == {e.scns[q] : q \in p + 1 .. Len(e.scns)}
  <2>1. u.scn[id] = IF id \in rest THEN [e.scn[id] EXCEPT !.index = @ - 1] ELSE e.scn[id]
    BY <1>1, <1>5 DEF Unlink, Elfs
  <2>2. e.scn[id] \in SectionRecords
    BY <1>1, <1>5
  <2> HIDE DEF u, rest
  <2> QED BY <2>1, <2>2 DEF SectionRecords
<1> HIDE DEF u, index
<1>6. f = [u EXCEPT !.e_shnum = num, !.scn = t]
  BY DEF Delscn, UpdateShdrs, u, index
<1> HIDE DEF t, num
<1>7. f.scns = u.scns /\ f.scn = t
  BY <1>3, <1>6 DEF Elfs
<1>8. ASSUME NEW id \in Range(f.scns)
      PROVE  /\ e.scn[id].type \in {SHT_REL, SHT_SYMTAB} =>
                    f.scn[id].link = NewIndex(e.scn[id].link, p - 1)
             /\ e.scn[id].type = SHT_REL =>
                    f.scn[id].info = NewIndex(e.scn[id].info, p - 1)
  <2>1. id \in Range(u.scns) /\ id \in DOMAIN u.scn /\ u.scn[id] \in SectionRecords
    BY <1>2, <1>7, InList
  <2>2. f.scn[id] = Applied(Linked(u.scn[id]))
    BY <1>7, <2>1 DEF t
  <2>3. PICK s : s = u.scn[id]
    OBVIOUS
  <2>4. s \in SectionRecords
    BY <2>1, <2>3
  <2>5. s.type = e.scn[id].type /\ s.link = e.scn[id].link /\ s.info = e.scn[id].info
    BY <1>2, <1>5, <2>1, <2>3
  <2>6. s.type \in {SHT_REL, SHT_SYMTAB} =>
            Linked(s).link = NewIndex(s.link, index)
    BY <2>4 DEF SectionRecords
  <2>8. Linked(s).type = s.type /\ Linked(s).info = s.info
    BY <2>4 DEF SectionRecords
  <2>9. PICK x : x = Linked(s)
    OBVIOUS
  <2>10. x \in SectionRecords
    <3>1. index \in Nat
      BY <1>1
    <3>2. NewIndex(s.link, index) \in Nat
      BY <2>4, <3>1 DEF NewIndex, SectionRecords
    <3> QED BY <2>4, <2>9, <3>2 DEF SectionRecords
  <2> HIDE DEF Linked
  <2>11. /\ Applied(x).link = x.link
         /\ x.type = SHT_REL => Applied(x).info = NewIndex(x.info, index)
    BY <2>10 DEF SectionRecords
  <2>12. f.scn[id] = Applied(x)
    BY <2>2, <2>3, <2>9
  <2> HIDE DEF Applied
  <2> QED BY <1>1, <2>5, <2>6, <2>8, <2>9, <2>11, <2>12
<1> QED BY <1>4, <1>7, <1>8

(* A number renumbered leads to the section it led to. *)
LEMMA LedTo ==
    ASSUME NEW e, Sound(e), NEW p \in 2 .. Len(e.scns), NEW f, f.scns = RemoveAt(e.scns, p),
           NEW before \in Nat
    PROVE  Led(f, NewIndex(before, p - 1)) =
               IF Led(e, before) \in Range(f.scns) \cup {Null} THEN Led(e, before) ELSE e.scns[1]
<1> DEFINE n == Len(e.scns)
<1>1. /\ e.scns \in Seq(Nat) /\ n \in Nat /\ DOMAIN e.scns = 1 .. n /\ p \in Nat /\ p >= 2 /\ p <= n
      /\ \A q \in 1 .. n : e.scns[q] \in Nat
      /\ \A q, r \in 1 .. n : e.scns[q] = e.scns[r] => q = r
  <2>1. e \in Elfs /\ e.scns \in Seq(Nat) /\ n \in Nat /\ DOMAIN e.scns = 1 .. n
    BY ElfType DEF Sound, Elfs
  <2> QED BY SMTT(100), <2>1 DEF Sound
<1> HIDE DEF n
<1>2. /\ Len(f.scns) = n - 1 /\ DOMAIN f.scns = 1 .. n - 1
      /\ \A q \in 1 .. p - 1 : f.scns[q] = e.scns[q]
      /\ \A q \in p .. n - 1 : f.scns[q] = e.scns[q + 1]
  <2>1. PICK s \in Seq(Nat) : s = e.scns
    BY <1>1
  <2>2. p \in 1 .. Len(s) /\ Len(s) = n
    BY <1>1, <2>1 DEF n
  <2>3. PICK t : t = RemoveAt(s, p)
    OBVIOUS
  <2>4. /\ Len(t) = Len(s) - 1 /\ DOMAIN t = 1 .. Len(s) - 1
        /\ \A q \in 1 .. p - 1 : t[q] = s[q]
        /\ \A q \in p .. Len(s) - 1 : t[q] = s[q + 1]
    BY <2>2, <2>3, RemoveIs
  <2>5. f.scns = t
    BY <2>1, <2>3
  <2> QED BY <2>1, <2>2, <2>4, <2>5
<1>3. CASE before = p - 1
  <2>1. Led(e, before) = e.scns[p] /\ NewIndex(before, p - 1) = 0
    BY <1>1, <1>3 DEF Led, NewIndex, n
  <2>2. e.scns[p] \notin Range(f.scns)
    <3> SUFFICES ASSUME NEW q \in 1 .. n - 1, f.scns[q] = e.scns[p] PROVE FALSE
      BY <1>2 DEF Range
    <3>1. CASE q < p
      <4>1. q \in 1 .. p - 1 /\ q \in 1 .. n /\ p \in 1 .. n
        BY <1>1, <3>1
      <4>2. e.scns[q] = e.scns[p]
        BY <1>2, <4>1
      <4>3. q = p
        BY <1>1, <4>1, <4>2
      <4> QED BY <3>1, <4>3, <1>1
    <3>2. CASE ~(q < p)
      <4>1. q \in p .. n - 1 /\ q + 1 \in 1 .. n /\ p \in 1 .. n
        BY <1>1, <3>2
      <4>2. e.scns[q + 1] = e.scns[p]
        BY <1>2, <4>1
      <4>3. q + 1 = p
        BY <1>1, <4>1, <4>2
      <4> QED BY <1>1, <3>2, <4>3
    <3> QED BY <3>1, <3>2
  <2>3. e.scns[p] # Null
    <3>1. p \in 1 .. n
      BY <1>1
    <3>2. e.scns[p] \in Nat
      BY <1>1, <3>1
    <3> QED BY <3>2 DEF Null
  <2>4. Led(f, 0) = e.scns[1]
    <3>1. 1 \in 1 .. p - 1 /\ 0 < n - 1
      BY <1>1
    <3>2. f.scns[1] = e.scns[1]
      BY <1>2, <3>1
    <3> QED BY <1>2, <3>1, <3>2 DEF Led
  <2> QED BY <2>1, <2>2, <2>3, <2>4
<1>4. CASE before < p - 1
  <2>1. NewIndex(before, p - 1) = before /\ before < n /\ before < n - 1
    BY <1>1, <1>4 DEF NewIndex
  <2>2. before + 1 \in 1 .. p - 1 /\ before + 1 \in 1 .. n - 1
    BY <1>1, <1>4
  <2>3. f.scns[before + 1] = e.scns[before + 1]
    BY <1>2, <2>2
  <2>4. Led(e, before) = e.scns[before + 1] /\ Led(f, before) = e.scns[before + 1]
    BY <1>2, <2>1, <2>3 DEF Led, n
  <2>5. e.scns[before + 1] \in Range(f.scns)
    BY <1>2, <2>2, <2>3 DEF Range
  <2> QED BY <2>1, <2>4, <2>5
<1>5. CASE before > p - 1 /\ before < n
  <2>1. NewIndex(before, p - 1) = before - 1 /\ before - 1 < n - 1
    BY <1>1, <1>5 DEF NewIndex
  <2>2. before \in p .. n - 1 /\ before \in 1 .. n - 1 /\ (before - 1) + 1 = before
    BY <1>1, <1>5
  <2>3. f.scns[before] = e.scns[before + 1]
    BY <1>2, <2>2
  <2>4. Led(e, before) = e.scns[before + 1] /\ Led(f, before - 1) = e.scns[before + 1]
    BY <1>2, <1>5, <2>1, <2>2, <2>3 DEF Led, n
  <2>5. e.scns[before + 1] \in Range(f.scns)
    BY <1>2, <2>2, <2>3 DEF Range
  <2> QED BY <2>1, <2>4, <2>5
<1>6. CASE before > p - 1 /\ ~(before < n)
  <2>1. NewIndex(before, p - 1) = before - 1 /\ ~(before - 1 < n - 1)
    BY <1>1, <1>6 DEF NewIndex
  <2>2. Led(e, before) = Null /\ Led(f, before - 1) = Null
    BY <1>2, <1>6, <2>1 DEF Led, n
  <2> QED BY <2>1, <2>2
<1> QED BY <1>1, <1>3, <1>4, <1>5, <1>6

(* Each action is a call of its own. *)
LEMMA Calling ==
    /\ BeginRdwr => last'.op = "begin"
    /\ ElfCook => last'.op = "getscn"
    /\ Newehdr => last'.op = "newehdr"
    /\ Newscn => last'.op = "newscn"
    /\ UpdateNull => last'.op = "update_null"
    /\ UpdateWrite => last'.op = "update_write"
    /\ ElfEnd => last'.op = "end"
    /\ \A class : BeginWrite(class) => last'.op = "begin"
    /\ \A count : Newphdr(count) => last'.op = "newphdr"
    /\ \A cmd, flag : Flagelf(cmd, flag) => last'.op = "flagelf"
    /\ \A id : ElfDelscn(id) => last'.op = "delscn"
    /\ \A id : ElfxRemscn(id) => last'.op = "remscn"
    /\ \A id : ShstrndxTo(id) => last'.op = "update_shstrndx"
    /\ \A id, d : Newdata(id, d) => last'.op = "newdata"
    /\ \A id, h : UpdateShdr(id, h) => last'.op = "update_shdr"
    /\ \A id, after : ElfxMovscn(id, after) => last'.op = "movscn"
<1>1. ASSUME BeginRdwr PROVE last'.op = "begin"
  BY <1>1 DEF BeginRdwr, Call
<1>16. ASSUME ElfCook PROVE last'.op = "getscn"
  BY <1>16 DEF ElfCook, Call
<1>2. ASSUME Newehdr PROVE last'.op = "newehdr"
  BY <1>2 DEF Newehdr, Call
<1>3. ASSUME Newscn PROVE last'.op = "newscn"
  BY <1>3 DEF Newscn, Call
<1>4. ASSUME UpdateNull PROVE last'.op = "update_null"
  BY <1>4 DEF UpdateNull, Call
<1>5. ASSUME UpdateWrite PROVE last'.op = "update_write"
  BY <1>5 DEF UpdateWrite, Call
<1>6. ASSUME ElfEnd PROVE last'.op = "end"
  BY <1>6 DEF ElfEnd, Call
<1>7. ASSUME NEW class, BeginWrite(class) PROVE last'.op = "begin"
  BY <1>7 DEF BeginWrite, Call
<1>8. ASSUME NEW count, Newphdr(count) PROVE last'.op = "newphdr"
  BY <1>8 DEF Newphdr, Call
<1>9. ASSUME NEW cmd, NEW flag, Flagelf(cmd, flag) PROVE last'.op = "flagelf"
  BY <1>9 DEF Flagelf, Call
<1>10. ASSUME NEW id, ElfDelscn(id) PROVE last'.op = "delscn"
  BY <1>10 DEF ElfDelscn, Call
<1>11. ASSUME NEW id, ElfxRemscn(id) PROVE last'.op = "remscn"
  BY <1>11 DEF ElfxRemscn, Call
<1>12. ASSUME NEW id, ShstrndxTo(id) PROVE last'.op = "update_shstrndx"
  BY <1>12 DEF ShstrndxTo, Call
<1>13. ASSUME NEW id, NEW d, Newdata(id, d) PROVE last'.op = "newdata"
  BY <1>13 DEF Newdata, Call
<1>14. ASSUME NEW id, NEW h, UpdateShdr(id, h) PROVE last'.op = "update_shdr"
  BY <1>14 DEF UpdateShdr, Call
<1>15. ASSUME NEW id, NEW after, ElfxMovscn(id, after) PROVE last'.op = "movscn"
  BY <1>15 DEF ElfxMovscn, Call
<1> QED BY <1>1, <1>2, <1>3, <1>4, <1>5, <1>6, <1>7, <1>8, <1>9, <1>10, <1>11, <1>12, <1>13, <1>14, <1>15,
           <1>16

(* Whatever has been made, moved and deleted before: elf_delscn() leaves every link and
   sh_info of a section that stays with the section it meant (opt.delscn.c:31-103). *)
THEOREM LinksStay == Spec => LinksFollow
<1> DEFINE Following(id) ==
               LET Follows(before, after) ==
                       Led(elf', after) = IF Led(elf, before) \in Range(elf'.scns) \cup {Null}
                                          THEN Led(elf, before) ELSE elf.scns[1]
                   s == elf.scn[id] t == elf'.scn[id]
               IN  /\ s.type \in {SHT_REL, SHT_SYMTAB} => Follows(s.link, t.link)
                   /\ s.type = SHT_REL => Follows(s.info, t.info)
           LinksKept == last'.op = "delscn" /\ last'.ok => \A id \in Range(elf'.scns) : Following(id)
<1>1. ElfInv /\ [Next]_vars => [LinksKept]_vars
  <2> SUFFICES ASSUME ElfInv, Next, last'.op = "delscn", last'.ok, NEW other \in Range(elf'.scns)
               PROVE  Following(other)
    BY DEF vars
  <2>1. PICK id \in Scns : ElfDelscn(id)
    BY Calling DEF Next
  <2>2. Sound(elf) /\ Open /\ id # elf.scns[1] /\ elf' = Delscn(elf, id)
    BY <2>1 DEF ElfDelscn, Call, ElfInv, Kept
  <2>3. PICK p \in 2 .. Len(elf.scns) : elf.scns[p] = id
    BY <2>2, InList DEF Scns
  <2>4. /\ elf'.scns = RemoveAt(elf.scns, p)
        /\ elf.scn[other].type \in {SHT_REL, SHT_SYMTAB} =>
                elf'.scn[other].link = NewIndex(elf.scn[other].link, p - 1)
        /\ elf.scn[other].type = SHT_REL =>
                elf'.scn[other].info = NewIndex(elf.scn[other].info, p - 1)
    BY <2>2, <2>3, DelscnIs
  <2>5. Sound(elf') /\ DOMAIN elf'.scn = DOMAIN elf.scn
    BY <2>2, <2>3, DelscnSound
  <2>6. other \in DOMAIN elf.scn
    BY <2>5, InList
  <2>7. elf.scn[other].link \in Nat /\ elf.scn[other].info \in Nat
    <3>1. elf.scn[other] \in SectionRecords
      <4>1. elf \in Elfs
        BY <2>2 DEF Sound
      <4>2. elf.scn \in [DOMAIN elf.scn -> SectionRecords]
        BY <4>1, ElfType
      <4> QED BY <2>6, <4>2
    <3> QED BY <3>1 DEF SectionRecords
  <2>8. ASSUME NEW before \in Nat
        PROVE  Led(elf', NewIndex(before, p - 1)) =
                   IF Led(elf, before) \in Range(elf'.scns) \cup {Null}
                   THEN Led(elf, before) ELSE elf.scns[1]
    BY <2>2, <2>4, LedTo
  <2> QED BY <2>4, <2>7, <2>8
<1>2. Spec => [][LinksKept]_vars
  BY <1>1, Invariant, PTL DEF Spec
<1> QED BY <1>2 DEF LinksFollow
=============================================================================
