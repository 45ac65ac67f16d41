------------------------ MODULE ElfDescriptorsProofs ------------------------
(***************************************************************************)
(* For every file, with any number of descriptors and references: e_count  *)
(* is the references there are, a member has one descriptor, what is freed *)
(* is what was allocated, raw data stays raw, elf_getaroff() leads back to *)
(* the member, and an archive is disabled together with its members.       *)
(*                                                                         *)
(* elf_end() is what makes this hard: it ends a chain of archives, and the *)
(* list of open members of each is shortened once.  That a chain does not  *)
(* come back to where it began is because a member begins behind the place *)
(* where its archive begins, which is part of the invariant (Above).  What *)
(* is shared along a chain needs its upper end, a recursive function whose *)
(* existence is carried along from call to call (RootsExist); that there   *)
(* is a function elf_cntl() computes is because members are smaller than   *)
(* their archive (VisitsExist).                                            *)
(***************************************************************************)
EXTENDS ElfDescriptorsProperties, SequenceTheorems, NaturalsInduction, WellFoundedInduction,
        TLAPS

Above ==
    \A id \in Live : elf[id].parent # Null => elf[elf[id].parent].base < elf[id].base

DescriptorsInv ==
    DescriptorsTypeOK /\ CountsReferences /\ Above /\ OneDescriptorPerMember

USE DEF Null

-----------------------------------------------------------------------------
(* Sequences without an element twice. *)

(* RemoveAt() takes one element out of such a sequence. *)
LEMMA RemoveAtTakesOne ==
    ASSUME NEW S, NEW s \in Seq(S), NEW k \in DOMAIN s, IsInjective(s)
    PROVE  /\ RemoveAt(s, k) \in Seq(S)
           /\ Len(RemoveAt(s, k)) = Len(s) - 1
           /\ IsInjective(RemoveAt(s, k))
           /\ Range(RemoveAt(s, k)) = Range(s) \ {s[k]}
<1> DEFINE a == SubSeq(s, 1, k - 1)
           b == SubSeq(s, k + 1, Len(s))
           t == RemoveAt(s, k)
           n == Len(s)
           Old(j) == IF j < k THEN j ELSE j + 1
<1>1. n \in Nat /\ k \in 1 .. n /\ DOMAIN s = 1 .. n /\ \A j \in 1 .. n : s[j] \in S
  BY LenProperties
<1>2. a \in Seq(S) /\ Len(a) = k - 1 /\ \A j \in 1 .. k - 1 : a[j] = s[j]
  <2>1. \A j \in 1 .. k - 1 : s[j] \in S
    BY <1>1
  <2>2. /\ a \in Seq(S) /\ Len(a) = IF 1 <= k - 1 THEN (k - 1) - 1 + 1 ELSE 0
        /\ \A j \in 1 .. (k - 1) - 1 + 1 : a[j] = s[1 + j - 1]
    BY <1>1, <2>1, SubSeqProperties
  <2> HIDE DEF a, n
  <2> QED  BY <1>1, <2>2
<1>3. b \in Seq(S) /\ Len(b) = n - k /\ \A j \in 1 .. n - k : b[j] = s[k + j]
  <2>1. \A j \in k + 1 .. n : s[j] \in S
    BY <1>1
  <2>2. /\ b \in Seq(S) /\ Len(b) = IF k + 1 <= n THEN n - (k + 1) + 1 ELSE 0
        /\ \A j \in 1 .. n - (k + 1) + 1 : b[j] = s[(k + 1) + j - 1]
    BY <1>1, <2>1, SubSeqProperties
  <2> HIDE DEF b, n
  <2>3. /\ n - (k + 1) + 1 = n - k /\ (~(k + 1 <= n) => n - k = 0)
        /\ \A j \in 1 .. n - k : (k + 1) + j - 1 = k + j
    BY <1>1
  <2>4. Len(b) = n - k
    BY <2>2, <2>3
  <2> QED  BY <2>2, <2>3, <2>4
<1>4. t = a \o b
  BY DEF RemoveAt
<1> HIDE DEF a, b, t, n
<1>5. /\ t \in Seq(S) /\ Len(t) = n - 1 /\ DOMAIN t = 1 .. n - 1
      /\ \A j \in 1 .. n - 1 : t[j] = s[Old(j)] /\ Old(j) \in 1 .. n /\ Old(j) # k
  <2>1. /\ a \o b \in Seq(S) /\ Len(a \o b) = Len(a) + Len(b)
        /\ \A i \in 1 .. Len(a) + Len(b) :
               (a \o b)[i] = IF i <= Len(a) THEN a[i] ELSE b[i - Len(a)]
    BY <1>2, <1>3, ConcatProperties
  <2>2. t \in Seq(S) /\ Len(t) = n - 1
    BY <1>1, <1>2, <1>3, <1>4, <2>1
  <2>3. DOMAIN t = 1 .. n - 1
    BY <2>2, LenProperties
  <2>4. \A j \in 1 .. n - 1 : t[j] = IF j <= k - 1 THEN a[j] ELSE b[j - (k - 1)]
    <3>1. Len(a) = k - 1 /\ Len(a) + Len(b) = n - 1
      BY <1>1, <1>2, <1>3
    <3> QED  BY <1>4, <2>1, <3>1
  <2>5. ASSUME NEW j \in 1 .. n - 1
        PROVE  t[j] = s[Old(j)] /\ Old(j) \in 1 .. n /\ Old(j) # k
    <3>1. CASE j < k
      <4>1. j \in 1 .. k - 1 /\ j <= k - 1 /\ j \in 1 .. n /\ j # k
        BY <1>1, <3>1
      <4> QED  BY <1>2, <2>4, <3>1, <4>1
    <3>2. CASE ~(j < k)
      <4>1. /\ j - (k - 1) \in 1 .. n - k /\ ~(j <= k - 1) /\ k + (j - (k - 1)) = j + 1
            /\ j + 1 \in 1 .. n /\ j + 1 # k
        BY <1>1, <3>2
      <4> QED  BY <1>3, <2>4, <3>2, <4>1
    <3> QED  BY <3>1, <3>2
  <2> QED  BY <2>2, <2>3, <2>5
<1>6. IsInjective(t)
  <2>1. \A i, j \in 1 .. n - 1 : Old(i) = Old(j) => i = j
    BY <1>1
  <2>2. \A i, j \in 1 .. n - 1 : t[i] = t[j] => Old(i) = Old(j)
    BY <1>1, <1>5 DEF IsInjective
  <2> HIDE DEF Old
  <2> QED  BY <1>5, <2>1, <2>2 DEF IsInjective
<1>7. Range(t) = Range(s) \ {s[k]}
  <2>1. ASSUME NEW j \in 1 .. n - 1
        PROVE  t[j] \in Range(s) \ {s[k]}
    BY <1>1, <1>5 DEF Range, IsInjective
  <2>2. ASSUME NEW i \in 1 .. n, i # k
        PROVE  \E j \in 1 .. n - 1 : t[j] = s[i]
    <3>1. CASE i < k
      BY <1>1, <1>5, <2>2, <3>1
    <3>2. CASE ~(i < k)
      <4>1. i - 1 \in 1 .. n - 1 /\ Old(i - 1) = i
        BY <1>1, <2>2, <3>2
      <4> QED  BY <1>5, <4>1
    <3> QED  BY <3>1, <3>2
  <2> HIDE DEF Old
  <2>3. ASSUME NEW v \in Range(s) \ {s[k]}
        PROVE  v \in Range(t)
    <3>1. PICK i \in 1 .. n : v = s[i]
      BY <1>1 DEF Range
    <3>2. PICK j \in 1 .. n - 1 : t[j] = v
      BY <2>2, <3>1
    <3> QED  BY <1>5, <3>2 DEF Range
  <2>4. ASSUME NEW v \in Range(t)
        PROVE  v \in Range(s) \ {s[k]}
    <3>1. PICK j \in 1 .. n - 1 : v = t[j]
      BY <1>5 DEF Range
    <3> QED  BY <2>1, <3>1
  <2> QED  BY <2>3, <2>4
<1> QED  BY <1>5, <1>6, <1>7 DEF t, n

(* A sequence whose element at the front is new. *)
LEMMA AddedInFront ==
    ASSUME NEW S, NEW s \in Seq(S), NEW e \in S, IsInjective(s), e \notin Range(s)
    PROVE  /\ <<e>> \o s \in Seq(S)
           /\ Len(<<e>> \o s) = Len(s) + 1
           /\ IsInjective(<<e>> \o s)
           /\ Range(<<e>> \o s) = Range(s) \cup {e}
<1> DEFINE t == <<e>> \o s
           n == Len(s)
<1>1. n \in Nat /\ DOMAIN s = 1 .. n
  BY LenProperties
<1>2. /\ t \in Seq(S) /\ Len(t) = 1 + n
      /\ \A i \in 1 .. 1 + n : t[i] = IF i <= 1 THEN <<e>>[i] ELSE s[i - 1]
  <2>1. <<e>> \in Seq(S) /\ Len(<<e>>) = 1
    OBVIOUS
  <2> QED  BY <2>1, ConcatProperties
<1>3. /\ t[1] = e /\ DOMAIN t = 1 .. n + 1
      /\ \A j \in 2 .. n + 1 : t[j] = s[j - 1] /\ j - 1 \in 1 .. n
      /\ \A j \in 1 .. n : t[j + 1] = s[j] /\ j + 1 \in 1 .. n + 1
  <2>1. DOMAIN t = 1 .. Len(t)
    BY <1>2, LenProperties
  <2> HIDE DEF t, n
  <2> QED  BY <1>1, <1>2, <2>1
<1> HIDE DEF t, n
<1>4. Range(t) = Range(s) \cup {e}
  <2>1. ASSUME NEW v \in Range(t)
        PROVE  v \in Range(s) \cup {e}
    <3>1. PICK j \in 1 .. n + 1 : v = t[j]
      BY <1>3 DEF Range
    <3>2. CASE j = 1
      BY <1>3, <3>1, <3>2
    <3>3. CASE j # 1
      <4>1. j \in 2 .. n + 1
        BY <1>1, <3>3
      <4>2. v = s[j - 1] /\ j - 1 \in DOMAIN s
        BY <1>1, <1>3, <3>1, <4>1
      <4> QED  BY <4>2 DEF Range
    <3> QED  BY <3>2, <3>3
  <2>2. ASSUME NEW v \in Range(s)
        PROVE  v \in Range(t)
    <3>1. PICK j \in 1 .. n : v = s[j]
      BY <1>1 DEF Range
    <3> QED  BY <1>3, <3>1 DEF Range
  <2>3. e \in Range(t)
    <3>1. 1 \in DOMAIN t
      BY <1>1, <1>3
    <3> QED  BY <1>3, <3>1 DEF Range
  <2> QED  BY <2>1, <2>2, <2>3
<1>5. IsInjective(t)
  <2> SUFFICES ASSUME NEW a \in DOMAIN t, NEW b \in DOMAIN t, t[a] = t[b] PROVE a = b
    BY DEF IsInjective
  <2>1. \A j \in 2 .. n + 1 : t[j] # e
    <3>1. \A j \in 2 .. n + 1 : j - 1 \in DOMAIN s /\ t[j] = s[j - 1]
      BY <1>1, <1>3
    <3>2. \A i \in DOMAIN s : s[i] # e
      BY DEF Range
    <3> QED  BY <3>1, <3>2
  <2>2. CASE a = 1 \/ b = 1
    BY <1>3, <2>1, <2>2
  <2>3. CASE a # 1 /\ b # 1
    <3>1. a \in 2 .. n + 1 /\ b \in 2 .. n + 1
      BY <1>3, <2>3
    <3>2. /\ a - 1 \in DOMAIN s /\ t[a] = s[a - 1]
          /\ b - 1 \in DOMAIN s /\ t[b] = s[b - 1]
      BY <1>1, <1>3, <3>1
    <3>3. a - 1 = b - 1
      BY <3>2 DEF IsInjective
    <3> QED  BY <3>1, <3>3
  <2> QED  BY <2>2, <2>3
<1> QED  BY <1>1, <1>2, <1>4, <1>5 DEF t, n


(* Unlinked() leaves the list as it is, or takes the one that is gone. *)
LEMMA UnlinkedNone ==
    ASSUME NEW s, NEW gone, Range(s) \cap gone = {}
    PROVE  Unlinked(s, gone) = s
BY DEF Unlinked

LEMMA UnlinkedOne ==
    ASSUME NEW S, NEW s \in Seq(S), NEW gone, IsInjective(s),
           NEW m \in Range(s) \cap gone, \A x \in Range(s) \cap gone : x = m
    PROVE  /\ Unlinked(s, gone) \in Seq(S)
           /\ Len(Unlinked(s, gone)) = Len(s) - 1
           /\ IsInjective(Unlinked(s, gone))
           /\ Range(Unlinked(s, gone)) = Range(s) \ gone
<1> DEFINE k == CHOOSE i \in DOMAIN s : s[i] \in gone
<1>1. \E i \in DOMAIN s : s[i] \in gone
  BY DEF Range
<1>2. k \in DOMAIN s /\ s[k] \in gone
  BY <1>1
<1>3. s[k] = m
  BY <1>2 DEF Range
<1>4. Unlinked(s, gone) = RemoveAt(s, k)
  BY DEF Unlinked
<1> HIDE DEF k
<1>5. Range(s) \ gone = Range(s) \ {s[k]}
  BY <1>3
<1> QED  BY <1>2, <1>4, <1>5, RemoveAtTakesOne

-----------------------------------------------------------------------------
(***************************************************************************)
(* What elf_end() comes to.  Ending(id) is a chain from id upwards, along  *)
(* parents, that stops at the first descriptor that stays.                 *)
(***************************************************************************)
Carrying(S) ==
    \A i \in S : elf[i].count = 1 /\ elf[i].parent # Null => elf[i].parent \in S

LEMMA EndingIs ==
    ASSUME NEW id
    PROVE  Ending(id) = {i \in Live : \A S \in SUBSET Live : id \in S /\ Carrying(S) => i \in S}
BY DEF Ending, Carrying

(* It carries on, and is the least set that does. *)
LEMMA EndingCarries ==
    ASSUME DescriptorsTypeOK, NEW id \in Live
    PROVE  id \in Ending(id) /\ Ending(id) \subseteq Live /\ Carrying(Ending(id))
<1>1. id \in Ending(id) /\ Ending(id) \subseteq Live
  BY EndingIs
<1>2. ASSUME NEW i \in Ending(id), elf[i].count = 1, elf[i].parent # Null
      PROVE  elf[i].parent \in Ending(id)
  <2>1. elf[i].parent \in Live
    BY <1>1, <1>2 DEF DescriptorsTypeOK
  <2>2. ASSUME NEW S \in SUBSET Live, id \in S, Carrying(S)
        PROVE  elf[i].parent \in S
    <3>1. i \in S
      BY <2>2, EndingIs
    <3> QED  BY <1>2, <2>2, <3>1 DEF Carrying
  <2> QED  BY <2>1, <2>2, EndingIs
<1> QED  BY <1>1, <1>2 DEF Carrying

LEMMA EndingLeast ==
    ASSUME NEW id, NEW S \in SUBSET Live, id \in S, Carrying(S)
    PROVE  Ending(id) \subseteq S
BY EndingIs

(* A descriptor that others use stays, and nothing else is touched. *)
LEMMA EndingStays ==
    ASSUME DescriptorsTypeOK, NEW id \in Live, elf[id].count # 1
    PROVE  Ending(id) = {id}
<1>1. Carrying({id})
  BY DEF Carrying
<1>2. {id} \in SUBSET Live
  OBVIOUS
<1> QED  BY <1>1, <1>2, EndingLeast, EndingCarries

(* Only what the parent's end comes to is behind a descriptor that ends. *)
LEMMA EndingStep ==
    ASSUME DescriptorsTypeOK, NEW id \in Live, elf[id].parent # Null
    PROVE  Ending(id) \subseteq {id} \cup Ending(elf[id].parent)
<1> DEFINE p == elf[id].parent
           S == {id} \cup Ending(p)
<1>1. p \in Live
  BY DEF DescriptorsTypeOK
<1>2. p \in Ending(p) /\ Ending(p) \subseteq Live /\ Carrying(Ending(p))
  BY <1>1, EndingCarries
<1>3. Carrying(S)
  BY <1>2 DEF Carrying
<1>4. S \in SUBSET Live /\ id \in S
  BY <1>2
<1> QED  BY <1>3, <1>4, EndingLeast

(* What ends with a descriptor begins no later than it does. *)
LEMMA EndingAbove ==
    ASSUME DescriptorsTypeOK, Above, NEW id \in Live
    PROVE  \A i \in Ending(id) : elf[i].base <= elf[id].base
<1> DEFINE S == {i \in Live : elf[i].base <= elf[id].base}
<1>1. \A i \in Live : elf[i].base \in Nat
  BY DEF DescriptorsTypeOK, Descriptor
<1>2. Carrying(S)
  BY <1>1 DEF Carrying, Above, DescriptorsTypeOK
<1>3. S \in SUBSET Live /\ id \in S
  BY <1>1
<1> QED  BY <1>2, <1>3, EndingLeast

(* Of two in the chain, one ends with the other. *)
LEMMA EndingChain ==
    ASSUME DescriptorsTypeOK, NEW id \in Live, NEW x \in Ending(id), NEW y \in Ending(id)
    PROVE  x \in Ending(y) \/ y \in Ending(x)
<1> DEFINE E == Ending(id)
           S == {i \in E : x \in Ending(i) \/ i \in Ending(x)}
<1>1. id \in E /\ E \subseteq Live /\ Carrying(E)
  BY EndingCarries
<1>2. ASSUME NEW i \in S, elf[i].count = 1, elf[i].parent # Null
      PROVE  elf[i].parent \in S
  <2>1. elf[i].parent \in E
    BY <1>1, <1>2 DEF Carrying
  <2>2. x \in Live /\ Carrying(Ending(x)) /\ x \in Ending(x)
    BY <1>1, EndingCarries
  <2>3. CASE i \in Ending(x)
    BY <1>2, <2>1, <2>2, <2>3 DEF Carrying
  <2>4. CASE x \in Ending(i)
    <3>1. x = i \/ x \in Ending(elf[i].parent)
      BY <1>1, <1>2, <2>4, EndingStep
    <3> QED  BY <2>1, <2>2, <2>3, <3>1
  <2> QED  BY <2>3, <2>4
<1>3. Carrying(S)
  BY <1>2 DEF Carrying
<1>4. S \in SUBSET Live /\ id \in S
  BY <1>1
<1>5. y \in S
  BY <1>3, <1>4, EndingLeast
<1> QED  BY <1>5

(* A count of one is one user, or one member. *)
LEMMA OneOfTwo ==
    ASSUME NEW a \in Nat, NEW b \in Nat, a + b = 1
    PROVE  (a > 0 => a = 1 /\ b = 0) /\ (b # 0 => a = 0 /\ b = 1)
OBVIOUS

(* One taken off the sum is one taken off either. *)
LEMMA OneLess ==
    ASSUME NEW a \in Nat, NEW b \in Nat, NEW c, c = a + b
    PROVE  c - 1 = (a - 1) + b /\ c - 1 = a + (b - 1)
OBVIOUS

LEMMA OneMore ==
    ASSUME NEW a \in Nat, NEW b \in Nat, NEW c, c = a + b
    PROVE  c + 1 = (a + 1) + b /\ c + 1 = a + (b + 1)
OBVIOUS

Gone(id) == {i \in Ending(id) : elf[i].count = 1}

(* Of a chain, all but the first end, or lose a reference, because of one member. *)
LEMMA OneEndsBelow ==
    ASSUME DescriptorsTypeOK, Above, NEW id \in Live, NEW i \in Ending(id), i # id
    PROVE  \E m \in Gone(id) :
               elf[m].parent = i /\ \A x \in Gone(id) : elf[x].parent = i => x = m
<1> DEFINE E == Ending(id)
<1>1. id \in E /\ E \subseteq Live /\ Carrying(E)
  BY EndingCarries
<1>2. i # Null
  BY <1>1 DEF DescriptorsTypeOK, Ids
<1>3. ASSUME \A m \in Gone(id) : elf[m].parent # i
      PROVE  FALSE
  <2>1. Carrying(E \ {i})
    BY <1>1, <1>3 DEF Carrying, Gone
  <2>2. E \ {i} \in SUBSET Live /\ id \in E \ {i}
    BY <1>1
  <2> QED  BY <2>1, <2>2, EndingLeast
<1>4. PICK m \in Gone(id) : elf[m].parent = i
  BY <1>3
<1>5. ASSUME NEW a \in Gone(id), NEW b \in Gone(id), elf[a].parent = i, elf[b].parent = i,
             a \in Ending(b)
      PROVE  a = b
  <2>1. a \in Live /\ b \in Live /\ i \in Live
    BY <1>1 DEF Gone
  <2>2. a = b \/ a \in Ending(i)
    BY <1>2, <1>5, <2>1, EndingStep
  <2>3. elf[i].base < elf[a].base
    BY <1>2, <1>5, <2>1 DEF Above
  <2>4. elf[i].base \in Nat /\ elf[a].base \in Nat
    BY <2>1 DEF DescriptorsTypeOK, Descriptor
  <2>5. a \notin Ending(i)
    <3>1. a \in Ending(i) => elf[a].base <= elf[i].base
      BY <2>1, EndingAbove
    <3> QED  BY <2>3, <2>4, <3>1
  <2> QED  BY <2>2, <2>5
<1>6. ASSUME NEW x \in Gone(id), elf[x].parent = i
      PROVE  x = m
  <2>1. x \in Ending(m) \/ m \in Ending(x)
    BY EndingChain DEF Gone
  <2> QED  BY <1>4, <1>5, <1>6, <2>1
<1> QED  BY <1>4, <1>6

(***************************************************************************)
(* elf_end() leaves what the invariant says of what is left.               *)
(***************************************************************************)
LEMMA EndKeeps ==
    ASSUME DescriptorsInv, NEW id \in Live, ElfEnd(id)
    PROVE  DescriptorsInv'
<1> DEFINE E == Ending(id)
           G == Gone(id)
           Shorter(i) == [elf[i] EXCEPT !.count = @ - 1, !.members = Unlinked(@, G)]
<1> USE DEF DescriptorsInv
<1>1. id \in E /\ E \subseteq Live /\ Carrying(E) /\ G \subseteq E
  BY EndingCarries DEF Gone
<1>2. /\ refs[id] > 0 /\ refs' = [refs EXCEPT ![id] = @ - 1] /\ file' = file
      /\ elf' = [i \in Live \ G |-> IF i \in E THEN Shorter(i) ELSE elf[i]]
  BY DEF ElfEnd, Held, Gone
<1>3. \A i \in Live : /\ elf[i] \in Descriptor /\ elf[i].count \in Nat \ {0}
                      /\ elf[i].members \in Seq(Ids) /\ Len(elf[i].members) \in Nat
  <2>1. \A i \in Live : elf[i] \in Descriptor
    BY DEF DescriptorsTypeOK
  <2>2. \A i \in Live : elf[i].count \in Nat \ {0} /\ elf[i].members \in Seq(Ids)
    BY <2>1 DEF Descriptor
  <2>3. \A i \in Live : Len(elf[i].members) \in Nat
    BY <2>2, LenProperties
  <2> QED  BY <2>1, <2>2, <2>3
<1>4. \A i \in Live : /\ elf[i].count = refs[i] + Len(elf[i].members)
                      /\ Range(elf[i].members) = {m \in Live : elf[m].parent = i}
                      /\ IsInjective(elf[i].members)
  BY DEF CountsReferences
<1>5. \A i \in Ids : refs[i] \in Nat
  BY DEF DescriptorsTypeOK
<1>6. Live \subseteq Ids /\ Null \notin Live
  BY DEF DescriptorsTypeOK, Ids
<1>6a. /\ id \in Ids /\ refs'[id] = refs[id] - 1 /\ refs[id] - 1 \in Nat
      /\ \A i \in Ids : i # id => refs'[i] = refs[i]
  <2>1. id \in Ids /\ refs \in [Ids -> Nat] /\ refs[id] \in Nat
    BY <1>6 DEF DescriptorsTypeOK
  <2>2. refs[id] - 1 \in Nat
    <3>1. \A n \in Nat : n > 0 => n - 1 \in Nat
      OBVIOUS
    <3>2. refs[id] > 0
      BY <1>2
    <3> QED  BY <2>1, <3>1, <3>2
  <2>3. refs' = [refs EXCEPT ![id] = refs[id] - 1]
    BY <1>2
  <2> QED  BY <2>1, <2>2, <2>3
<1>6b. refs' \in [Ids -> Nat]
  <2>1. refs' = [refs EXCEPT ![id] = refs[id] - 1] /\ refs \in [Ids -> Nat]
    BY <1>2 DEF DescriptorsTypeOK
  <2> QED  BY <1>6a, <2>1
(* Who is gone was used by the program, or by one member that is gone too. *)
<1>7. ASSUME NEW i \in G
      PROVE  /\ refs'[i] = 0
             /\ \A m \in Live : elf[m].parent = i => m \in G
  <2>1. elf[i].count = 1 /\ i \in Live /\ i \in Ids
    BY <1>1, <1>6 DEF Gone
  <2>2. refs[i] + Len(elf[i].members) = 1 /\ refs[i] \in Nat /\ Len(elf[i].members) \in Nat
    BY <1>3, <1>4, <1>5, <2>1
  <2>3. CASE i = id
    <3>1. refs[i] = 1 /\ Len(elf[i].members) = 0
      BY <1>2, <2>2, <2>3, OneOfTwo
    <3>2. Range(elf[i].members) = {}
      BY <1>3, <2>1, <3>1 DEF Range
    <3>3. refs'[i] = 0
      BY <1>6a, <2>1, <2>3, <3>1
    <3> QED  BY <1>4, <2>1, <3>2, <3>3
  <2>4. CASE i # id
    <3>1. PICK m \in G : elf[m].parent = i
      BY <1>1, <2>4, OneEndsBelow
    <3>2. m \in Range(elf[i].members)
      BY <1>1, <1>4, <2>1, <3>1
    <3>3. DOMAIN elf[i].members = 1 .. Len(elf[i].members)
      BY <1>3, <2>1
    <3>4. Len(elf[i].members) = 1
      <4>1. Len(elf[i].members) # 0
        BY <3>2, <3>3 DEF Range
      <4> QED  BY <2>2, <4>1, OneOfTwo
    <3>5. refs'[i] = 0
      <4>1. refs[i] = 0
        BY <2>2, <3>4
      <4>2. refs'[i] = refs[i]
        BY <1>6a, <2>1, <2>4
      <4> QED  BY <4>1, <4>2
    <3>6. \A x \in Range(elf[i].members) : x = m
      BY <3>2, <3>3, <3>4 DEF Range
    <3> QED  BY <1>4, <2>1, <3>1, <3>5, <3>6
  <2> QED  BY <2>3, <2>4
(* Who loses a reference but stays has one member less, or one user. *)
<1>8. ASSUME NEW i \in E \ G
      PROVE  /\ Shorter(i) \in Descriptor
             /\ Shorter(i).count = elf[i].count - 1
             /\ Shorter(i).parent = elf[i].parent /\ Shorter(i).base = elf[i].base
             /\ Shorter(i).loaded = elf[i].loaded /\ Shorter(i).tables = elf[i].tables
             /\ Shorter(i).ehdr = elf[i].ehdr
             /\ Shorter(i).count = refs'[i] + Len(Shorter(i).members)
             /\ Range(Shorter(i).members) = Range(elf[i].members) \ G
             /\ IsInjective(Shorter(i).members)
  <2>1. /\ i \in Live /\ i \in Ids /\ elf[i] \in Descriptor /\ elf[i].count \in Nat
        /\ elf[i].count # 0 /\ elf[i].count # 1
    BY <1>1, <1>3, <1>6 DEF Gone
  <2>2. /\ Unlinked(elf[i].members, G) \in Seq(Ids)
        /\ elf[i].count - 1 = refs'[i] + Len(Unlinked(elf[i].members, G))
        /\ Range(Unlinked(elf[i].members, G)) = Range(elf[i].members) \ G
        /\ IsInjective(Unlinked(elf[i].members, G))
    <3>1. CASE i = id
      <4>1. E = {id} /\ G = {}
        BY <2>1, <3>1, EndingStays DEF Gone
      <4>2. Unlinked(elf[i].members, G) = elf[i].members
        BY <4>1, UnlinkedNone
      <4>3. refs'[i] = refs[i] - 1 /\ refs[i] \in Nat
        BY <1>6a, <1>5, <2>1, <3>1
      <4>4. Len(elf[i].members) \in Nat /\ elf[i].count = refs[i] + Len(elf[i].members)
        BY <1>3, <1>4, <2>1
      <4>5. elf[i].count - 1 = (refs[i] - 1) + Len(elf[i].members)
        BY <4>3, <4>4, OneLess
      <4> QED  BY <1>3, <1>4, <2>1, <4>1, <4>2, <4>3, <4>5
    <3>2. CASE i # id
      <4>1. PICK m \in G : elf[m].parent = i /\ \A x \in G : elf[x].parent = i => x = m
        BY <3>2, OneEndsBelow
      <4>2. m \in Range(elf[i].members) \cap G
        BY <1>1, <1>4, <2>1, <4>1
      <4>3. \A x \in Range(elf[i].members) \cap G : x = m
        BY <1>4, <2>1, <4>1
      <4>4. refs'[i] = refs[i] /\ refs[i] \in Nat
        BY <1>6a, <1>5, <2>1, <3>2
      <4>5. /\ elf[i].members \in Seq(Ids) /\ IsInjective(elf[i].members)
            /\ Len(elf[i].members) \in Nat /\ elf[i].count = refs[i] + Len(elf[i].members)
        BY <1>3, <1>4, <2>1
      <4>6. /\ Unlinked(elf[i].members, G) \in Seq(Ids)
            /\ Len(Unlinked(elf[i].members, G)) = Len(elf[i].members) - 1
            /\ Range(Unlinked(elf[i].members, G)) = Range(elf[i].members) \ G
            /\ IsInjective(Unlinked(elf[i].members, G))
        BY <4>2, <4>3, <4>5, UnlinkedOne
      <4>7. elf[i].count - 1 = refs[i] + (Len(elf[i].members) - 1)
        BY <4>4, <4>5, OneLess
      <4> QED  BY <4>4, <4>6, <4>7
    <3> QED  BY <3>1, <3>2
  <2>3. elf[i].count - 1 \in Nat \ {0}
    BY <2>1
  <2> HIDE DEF G, E
  <2> QED  BY <2>1, <2>2, <2>3 DEF Descriptor
<1> DEFINE Left == Live \ G
<1>9. /\ DOMAIN elf' = Left
      /\ \A i \in Left :
             /\ elf'[i] \in Descriptor
             /\ elf'[i].parent = elf[i].parent /\ elf'[i].base = elf[i].base
             /\ elf'[i].loaded = elf[i].loaded /\ elf'[i].tables = elf[i].tables
             /\ elf'[i].ehdr = elf[i].ehdr
  BY <1>2, <1>3, <1>8
<1>10. \A i \in Left : elf[i].parent # Null => elf[i].parent \in Left
  BY <1>7 DEF DescriptorsTypeOK
<1>11. DescriptorsTypeOK'
  <2>1. elf' \in [Left -> Descriptor]
    BY <1>2, <1>9
  <2>2. refs' \in [Ids -> Nat]
    BY <1>6b
  <2>3. ASSUME NEW i \in Ids, refs'[i] > 0
        PROVE  i \in Left
    <3>1. refs[i] > 0
      BY <1>6a, <1>2, <2>3
    <3> QED  BY <1>7, <2>3, <3>1 DEF DescriptorsTypeOK
  <2>4. file' \in Files /\ Left \subseteq Ids
    BY <1>2, <1>6 DEF DescriptorsTypeOK
  <2>5. \A i \in Left : elf'[i].parent \in {Null} \cup Left
    BY <1>9, <1>10
  <2>6. \A i \in Left : (elf'[i].loaded => elf'[i].tables) /\ (elf'[i].tables => elf'[i].ehdr)
    BY <1>9 DEF DescriptorsTypeOK
  <2> HIDE DEF Left
  <2> QED  BY <1>9, <2>1, <2>2, <2>3, <2>4, <2>5, <2>6 DEF DescriptorsTypeOK, Live
<1>12. CountsReferences'
  <2>1. ASSUME NEW i \in Left
        PROVE  /\ elf'[i].count = refs'[i] + Len(elf'[i].members)
               /\ Range(elf'[i].members) = Range(elf[i].members) \ G
               /\ IsInjective(elf'[i].members)
    <3>1. CASE i \in E
      BY <1>2, <1>8, <3>1
    <3>2. CASE i \notin E
      <4>1. elf'[i] = elf[i] /\ refs'[i] = refs[i]
        BY <1>6a, <1>1, <1>2, <1>6, <3>2
      <4>2. \A m \in G : elf[m].parent # i
        BY <1>1, <1>6, <3>2 DEF Carrying, Gone
      <4> QED  BY <1>4, <4>1, <4>2
    <3> QED  BY <3>1, <3>2
  <2>2. ASSUME NEW i \in Left
        PROVE  Range(elf'[i].members) = {m \in Left : elf'[m].parent = i}
    BY <1>4, <1>9, <2>1
  <2> HIDE DEF Left
  <2> QED  BY <1>9, <2>1, <2>2 DEF CountsReferences, Live
<1>13. Above' /\ OneDescriptorPerMember'
  BY <1>9, <1>10 DEF Above, OneDescriptorPerMember, Live
<1> QED  BY <1>11, <1>12, <1>13

-----------------------------------------------------------------------------
(***************************************************************************)
(* The calls that leave alone who refers to whom: all but elf_begin(),     *)
(* elf_memory() and elf_end().                                             *)
(***************************************************************************)
Alike(d, e) ==
    /\ d \in Descriptor
    /\ d.count = e.count /\ d.parent = e.parent /\ d.members = e.members /\ d.base = e.base
    /\ (d.loaded => d.tables) /\ (d.tables => d.ehdr)

LEMMA AlikeKeeps ==
    ASSUME DescriptorsInv, DOMAIN elf' = Live, elf' = [i \in Live |-> elf'[i]],
           \A i \in Live : Alike(elf'[i], elf[i]), refs' = refs, file' = file
    PROVE  DescriptorsInv'
<1> USE DEF DescriptorsInv
<1>1. elf' \in [Live -> Descriptor]
  BY DEF Alike
<1>2. \A i \in Live :
          /\ elf'[i].count = elf[i].count /\ elf'[i].parent = elf[i].parent
          /\ elf'[i].members = elf[i].members /\ elf'[i].base = elf[i].base
          /\ (elf'[i].loaded => elf'[i].tables) /\ (elf'[i].tables => elf'[i].ehdr)
  BY DEF Alike
<1>3. Live' = Live
  BY DEF Live
<1>4. DescriptorsTypeOK'
  BY <1>1, <1>2, <1>3 DEF DescriptorsTypeOK
<1>5. CountsReferences'
  BY <1>2, <1>3 DEF CountsReferences
<1>6. Above' /\ OneDescriptorPerMember'
  BY <1>2, <1>3 DEF Above, OneDescriptorPerMember, DescriptorsTypeOK
<1> QED  BY <1>4, <1>5, <1>6

(* What _elf_cook() and elf_getdata() make of a descriptor. *)
LEMMA ReadAlike ==
    ASSUME NEW d \in Descriptor, d.loaded => d.tables, d.tables => d.ehdr
    PROVE  Alike(Cooked(d).d, d) /\ Alike(AllRead(d).d, d)
<1>1. Alike(d, d)
  BY DEF Alike
<1>2. Alike(Cooked(d).d, d)
  <2>1. CASE d.ehdr
    BY <1>1, <2>1 DEF Cooked
  <2>2. CASE ~d.ehdr
    <3> DEFINE hdr == file.at[d.base].cooks # "nothing"
               scns == file.at[d.base].cooks \in {"all", "sections"}
               c == [d EXCEPT !.ehdr = hdr, !.tables = scns]
    <3>1. Cooked(d).d = c /\ (scns => hdr)
      BY <2>2 DEF Cooked
    <3>0. hdr \in BOOLEAN /\ scns \in BOOLEAN
      OBVIOUS
    <3> HIDE DEF hdr, scns
    <3>2. c \in Descriptor
      BY <3>0 DEF Descriptor
    <3>3. /\ c.count = d.count /\ c.parent = d.parent /\ c.members = d.members
          /\ c.base = d.base /\ c.loaded = d.loaded /\ c.ehdr = hdr /\ c.tables = scns
      BY DEF Descriptor
    <3>4. ~d.loaded
      BY <2>2
    <3> HIDE DEF c
    <3> QED  BY <3>1, <3>2, <3>3, <3>4 DEF Alike
  <2> QED  BY <2>1, <2>2
<1>3. ASSUME NEW e, Alike(e, d)
      PROVE  Alike(DataRead(e).d, d)
  <2> DEFINE r == [e EXCEPT !.loaded = TRUE, !.cooked = (@ \/ e.raw # "data")]
  <2>1. CASE ~e.tables \/ e.loaded \/ ~file.at[e.base].loads
    <3>1. DataRead(e).d = e
      BY <2>1 DEF DataRead
    <3> QED  BY <1>3, <3>1
  <2>2. CASE e.tables /\ ~e.loaded /\ file.at[e.base].loads
    <3>1. DataRead(e).d = r
      BY <2>2 DEF DataRead
    <3>2. e \in Descriptor
      BY <1>3 DEF Alike
    <3>3. r \in Descriptor
      BY <3>2 DEF Descriptor
    <3>4. /\ r.count = e.count /\ r.parent = e.parent /\ r.members = e.members
          /\ r.base = e.base /\ r.tables = e.tables /\ r.ehdr = e.ehdr
      BY <3>2 DEF Descriptor
    <3> HIDE DEF r
    <3> QED  BY <1>3, <2>2, <3>1, <3>3, <3>4 DEF Alike
  <2> QED  BY <2>1, <2>2
<1>4. AllRead(d).d = Cooked(d).d \/ AllRead(d).d = DataRead(Cooked(d).d).d
  BY DEF AllRead
<1> QED  BY <1>2, <1>3, <1>4

(* One descriptor changed to one that is alike. *)
LEMMA OneChanged ==
    ASSUME DescriptorsInv, NEW id \in Live, NEW d, Alike(d, elf[id]),
           elf' = [elf EXCEPT ![id] = d], refs' = refs, file' = file
    PROVE  DescriptorsInv'
<1>1. DOMAIN elf = Live
  BY DEF Live
<1>2. \A i \in Live : Alike(elf[i], elf[i])
  BY DEF Alike, DescriptorsInv, DescriptorsTypeOK
<1>3. \A i \in Live : Alike(elf'[i], elf[i])
  BY <1>1, <1>2
<1>4. DOMAIN elf' = Live /\ elf' = [i \in Live |-> elf'[i]]
  BY <1>1 DEF DescriptorsInv, DescriptorsTypeOK
<1> QED  BY <1>3, <1>4, AlikeKeeps

(* Nothing that the invariant speaks of has changed. *)
LEMMA SameKeeps ==
    ASSUME DescriptorsInv, UNCHANGED <<file, elf, refs>>
    PROVE  DescriptorsInv'
BY DEF DescriptorsInv, DescriptorsTypeOK, CountsReferences, Above, OneDescriptorPerMember, Live

LEMMA OffAlike ==
    ASSUME DescriptorsInv, NEW id \in Live, NEW off \in Nat
    PROVE  Alike([elf[id] EXCEPT !.off = off], elf[id])
<1> DEFINE e == elf[id]
           d == [e EXCEPT !.off = off]
<1>1. e \in Descriptor /\ (e.loaded => e.tables) /\ (e.tables => e.ehdr)
  BY DEF DescriptorsInv, DescriptorsTypeOK
<1> HIDE DEF e
<1>2. d \in Descriptor
  BY <1>1 DEF Descriptor
<1>3. /\ d.count = e.count /\ d.parent = e.parent /\ d.members = e.members
      /\ d.base = e.base /\ d.loaded = e.loaded /\ d.tables = e.tables /\ d.ehdr = e.ehdr
  BY <1>1 DEF Descriptor
<1> HIDE DEF d
<1>4. Alike(d, e)
  BY <1>1, <1>2, <1>3 DEF Alike
<1> QED  BY <1>4 DEF d, e

LEMMA NextKeeps ==
    ASSUME DescriptorsInv, NEW id \in Live, ElfNext(id)
    PROVE  DescriptorsInv'
<1> DEFINE p == elf[id].parent
<1>1. CASE p = Null
  BY <1>1, SameKeeps DEF ElfNext
<1>2. CASE p # Null
  <2>1. p \in Live /\ elf[id].next \in Nat
    BY <1>2 DEF DescriptorsInv, DescriptorsTypeOK, Descriptor
  <2>2. Alike([elf[p] EXCEPT !.off = elf[id].next], elf[p])
    BY <2>1, OffAlike
  <2>3. elf' = [elf EXCEPT ![p] = [elf[p] EXCEPT !.off = elf[id].next]]
    BY <1>2 DEF ElfNext
  <2>4. refs' = refs /\ file' = file
    BY DEF ElfNext
  <2> HIDE DEF p
  <2> QED  BY <2>1, <2>2, <2>3, <2>4, OneChanged
<1> QED  BY <1>1, <1>2

LEMMA RandKeeps ==
    ASSUME DescriptorsInv, NEW id \in Live, NEW offset \in Offsets, ElfRand(id, offset)
    PROVE  DescriptorsInv'
<1>1. offset \in Nat
  BY BoundsAssumption
<1>2. Alike([elf[id] EXCEPT !.off = offset], elf[id])
  BY <1>1, OffAlike
<1>3. refs' = refs /\ file' = file
  BY DEF ElfRand
<1>4. elf' = elf \/ elf' = [elf EXCEPT ![id] = [elf[id] EXCEPT !.off = offset]]
  BY DEF ElfRand
<1> QED  BY <1>2, <1>3, <1>4, OneChanged, SameKeeps

(* The fields that the invariant knows the type of only. *)
LEMMA FieldsAlike ==
    ASSUME NEW e, NEW d, Alike(d, e),
           NEW disabled \in BOOLEAN, NEW raw \in {"none", "data", "own"}, NEW syms \in BOOLEAN
    PROVE  /\ Alike([d EXCEPT !.disabled = disabled], e)
           /\ Alike([d EXCEPT !.raw = raw], e)
           /\ Alike([d EXCEPT !.syms = syms], e)
<1>1. d \in Descriptor
  BY DEF Alike
<1>2. Alike([d EXCEPT !.disabled = disabled], e)
  <2> DEFINE c == [d EXCEPT !.disabled = disabled]
  <2>1. c \in Descriptor
    BY <1>1 DEF Descriptor
  <2>2. /\ c.count = d.count /\ c.parent = d.parent /\ c.members = d.members
        /\ c.base = d.base /\ c.loaded = d.loaded /\ c.tables = d.tables /\ c.ehdr = d.ehdr
    BY <1>1 DEF Descriptor
  <2> HIDE DEF c
  <2>3. Alike(c, e)
    BY <2>1, <2>2 DEF Alike
  <2> QED  BY <2>3 DEF c
<1>3. Alike([d EXCEPT !.raw = raw], e)
  <2> DEFINE c == [d EXCEPT !.raw = raw]
  <2>1. c \in Descriptor
    BY <1>1 DEF Descriptor
  <2>2. /\ c.count = d.count /\ c.parent = d.parent /\ c.members = d.members
        /\ c.base = d.base /\ c.loaded = d.loaded /\ c.tables = d.tables /\ c.ehdr = d.ehdr
    BY <1>1 DEF Descriptor
  <2> HIDE DEF c
  <2>3. Alike(c, e)
    BY <2>1, <2>2 DEF Alike
  <2> QED  BY <2>3 DEF c
<1>4. Alike([d EXCEPT !.syms = syms], e)
  <2> DEFINE c == [d EXCEPT !.syms = syms]
  <2>1. c \in Descriptor
    BY <1>1 DEF Descriptor
  <2>2. /\ c.count = d.count /\ c.parent = d.parent /\ c.members = d.members
        /\ c.base = d.base /\ c.loaded = d.loaded /\ c.tables = d.tables /\ c.ehdr = d.ehdr
    BY <1>1 DEF Descriptor
  <2> HIDE DEF c
  <2>3. Alike(c, e)
    BY <2>1, <2>2 DEF Alike
  <2> QED  BY <2>3 DEF c
<1> QED  BY <1>2, <1>3, <1>4

LEMMA SelfAlike ==
    ASSUME DescriptorsInv, NEW id \in Live
    PROVE  /\ Alike(elf[id], elf[id])
           /\ Alike(Cooked(elf[id]).d, elf[id]) /\ Alike(AllRead(elf[id]).d, elf[id])
<1>1. /\ elf[id] \in Descriptor
      /\ (elf[id].loaded => elf[id].tables) /\ (elf[id].tables => elf[id].ehdr)
  BY DEF DescriptorsInv, DescriptorsTypeOK
<1>2. Alike(elf[id], elf[id])
  BY <1>1 DEF Alike
<1> QED  BY <1>1, <1>2, ReadAlike

LEMMA CntlKeeps ==
    ASSUME DescriptorsInv, NEW id \in Live, NEW cmd, ElfCntl(id, cmd)
    PROVE  DescriptorsInv'
<1> DEFINE result  == Disabling(id, cmd)
           Read(d) == IF d.kind = "elf" /\ cmd = "FDREAD" THEN AllRead(d).d ELSE d
<1>1. /\ elf' = [i \in Live |->
             IF i \in result.reached
             THEN [Read(elf[i]) EXCEPT !.disabled = @ \/ i \in result.disabled]
             ELSE elf[i]]
      /\ refs' = refs /\ file' = file
  BY DEF ElfCntl
<1> HIDE DEF result
<1>2. ASSUME NEW i \in Live
      PROVE  Alike(elf'[i], elf[i])
  <2>1. Alike(elf[i], elf[i]) /\ Alike(Read(elf[i]), elf[i])
    BY SelfAlike
  <2>2. CASE i \in result.reached
    <3> DEFINE flag == Read(elf[i]).disabled \/ i \in result.disabled
    <3>1. elf'[i] = [Read(elf[i]) EXCEPT !.disabled = flag]
      BY <1>1, <2>2
    <3>2. flag \in BOOLEAN
      OBVIOUS
    <3> HIDE DEF flag, Read
    <3>3. Alike([Read(elf[i]) EXCEPT !.disabled = flag], elf[i])
      BY <2>1, <3>2, FieldsAlike
    <3> QED  BY <3>1, <3>3
  <2>3. CASE i \notin result.reached
    BY <1>1, <2>1, <2>3
  <2> QED  BY <2>2, <2>3
<1>3. DOMAIN elf' = Live /\ elf' = [i \in Live |-> elf'[i]]
  BY <1>1
<1> QED  BY <1>1, <1>2, <1>3, AlikeKeeps

LEMMA ReadKeeps ==
    ASSUME DescriptorsInv, NEW id \in Live, ElfGetident(id) \/ ElfGetdata(id)
    PROVE  DescriptorsInv'
<1>1. CASE ElfGetident(id)
  BY <1>1, SelfAlike, OneChanged DEF ElfGetident
<1>2. CASE ElfGetdata(id)
  BY <1>2, SelfAlike, OneChanged DEF ElfGetdata
<1> QED  BY <1>1, <1>2

LEMMA RawfileKeeps ==
    ASSUME DescriptorsInv, NEW id \in Live, ElfRawfile(id)
    PROVE  DescriptorsInv'
<1>1. Alike(elf[id], elf[id])
  BY SelfAlike
<1>2. RawFrom(elf[id]) \in {"none", "data", "own"}
  BY DEF RawFrom, DescriptorsInv, DescriptorsTypeOK, Descriptor
<1>3. Alike([elf[id] EXCEPT !.raw = RawFrom(elf[id])], elf[id])
  BY <1>1, <1>2, FieldsAlike
<1>4. /\ elf' = [elf EXCEPT ![id] = [elf[id] EXCEPT !.raw = RawFrom(elf[id])]]
      /\ refs' = refs /\ file' = file
  BY DEF ElfRawfile
<1> QED  BY <1>3, <1>4, OneChanged

LEMMA GetarsymKeeps ==
    ASSUME DescriptorsInv, NEW id \in Live, ElfGetarsym(id)
    PROVE  DescriptorsInv'
<1>1. Alike(elf[id], elf[id])
  BY SelfAlike
<1>2. Alike([elf[id] EXCEPT !.syms = TRUE], elf[id])
  BY <1>1, FieldsAlike
<1>3. /\ elf' = [elf EXCEPT ![id] = [elf[id] EXCEPT !.syms = TRUE]]
      /\ refs' = refs /\ file' = file
  BY DEF ElfGetarsym
<1> QED  BY <1>2, <1>3, OneChanged

-----------------------------------------------------------------------------
(***************************************************************************)
(* A descriptor the program gets for the first time, or once more.         *)
(***************************************************************************)
LEMMA FreshIs ==
    ASSUME Room
    PROVE  Fresh \in Ids \ Live /\ Fresh # Null
BY DEF Room, Fresh, Ids

(* The first of its file. *)
LEMMA FirstKeeps ==
    ASSUME DescriptorsInv, Live = {}, Room, NEW d \in Descriptor,
           d.count = 1, d.parent = Null, d.members = <<>>, ~d.loaded, ~d.tables,
           elf' = With(Fresh, d), refs' = [refs EXCEPT ![Fresh] = 1], file' = file
    PROVE  DescriptorsInv'
<1>1. Fresh \in Ids /\ Fresh # Null
  BY FreshIs
<1> DEFINE f == Fresh
<1> HIDE DEF f
<1>2. Live' = {f} /\ elf' = [i \in {f} |-> d]
  BY DEF With, Live, f
<1>3. refs \in [Ids -> Nat] /\ \A i \in Ids : refs[i] = 0
  BY DEF DescriptorsInv, DescriptorsTypeOK
<1>4. refs' \in [Ids -> Nat] /\ refs'[f] = 1 /\ \A i \in Ids : i # f => refs'[i] = 0
  BY <1>1, <1>3 DEF f
<1>5. f \in Ids /\ f # Null
  BY <1>1 DEF f
<1>6. DescriptorsTypeOK'
  BY <1>2, <1>4, <1>5 DEF DescriptorsTypeOK, DescriptorsInv
<1>7. CountsReferences'
  <2>1. Len(<<>>) = 0 /\ Range(<<>>) = {} /\ IsInjective(<<>>)
    BY DEF Range, IsInjective
  <2>2. elf'[f] = d /\ {m \in {f} : elf'[m].parent = f} = {}
    BY <1>2, <1>5
  <2> QED  BY <1>2, <1>4, <2>1, <2>2 DEF CountsReferences
<1>8. Above' /\ OneDescriptorPerMember'
  BY <1>2 DEF Above, OneDescriptorPerMember
<1> QED  BY <1>6, <1>7, <1>8 DEF DescriptorsInv

(* One more reference to a descriptor there is. *)
LEMMA AgainKeeps ==
    ASSUME DescriptorsInv, NEW id \in Live, elf' = [elf EXCEPT ![id].count = @ + 1],
           refs' = [refs EXCEPT ![id] = @ + 1], file' = file
    PROVE  DescriptorsInv'
<1> DEFINE e == elf[id]
           d == [e EXCEPT !.count = e.count + 1]
<1> USE DEF DescriptorsInv
<1>1. /\ e \in Descriptor /\ id \in Ids /\ refs \in [Ids -> Nat] /\ refs[id] \in Nat
      /\ elf \in [Live -> Descriptor]
  BY DEF DescriptorsTypeOK
<1>2. e.count \in Nat \ {0} /\ e.count + 1 \in Nat \ {0}
  BY <1>1 DEF Descriptor
<1>3. elf' = [elf EXCEPT ![id] = d]
  OBVIOUS
<1> HIDE DEF e
<1>4. /\ d \in Descriptor
      /\ d.count = e.count + 1 /\ d.parent = e.parent /\ d.members = e.members
      /\ d.base = e.base /\ d.loaded = e.loaded /\ d.tables = e.tables /\ d.ehdr = e.ehdr
  BY <1>1, <1>2 DEF Descriptor
<1> HIDE DEF d
<1>5. Live' = Live
  BY <1>3 DEF Live
<1>6. \A i \in Live :
          /\ elf'[i] \in Descriptor
          /\ elf'[i].parent = elf[i].parent /\ elf'[i].members = elf[i].members
          /\ elf'[i].base = elf[i].base /\ elf'[i].loaded = elf[i].loaded
          /\ elf'[i].tables = elf[i].tables /\ elf'[i].ehdr = elf[i].ehdr
          /\ elf'[i].count = IF i = id THEN elf[i].count + 1 ELSE elf[i].count
  BY <1>1, <1>3, <1>4 DEF e
<1>7. refs' \in [Ids -> Nat] /\ \A i \in Ids : refs'[i] = IF i = id THEN refs[i] + 1 ELSE refs[i]
  BY <1>1
<1>8. DescriptorsTypeOK'
  <2>1. elf' \in [Live -> Descriptor]
    BY <1>1, <1>3, <1>4
  <2>2. \A i \in Ids : refs'[i] > 0 => i \in Live
    BY <1>7 DEF DescriptorsTypeOK
  <2> QED  BY <1>5, <1>6, <1>7, <2>1, <2>2 DEF DescriptorsTypeOK
<1>9. CountsReferences'
  <2>1. ASSUME NEW i \in Live
        PROVE  elf'[i].count = refs'[i] + Len(elf'[i].members)
    <3>1. i \in Ids /\ refs[i] \in Nat /\ elf[i].members \in Seq(Ids)
      BY DEF DescriptorsTypeOK, Descriptor
    <3>2. Len(elf[i].members) \in Nat
      BY <3>1, LenProperties
    <3>3. elf[i].count = refs[i] + Len(elf[i].members)
      BY DEF CountsReferences
    <3>4. elf[i].count + 1 = (refs[i] + 1) + Len(elf[i].members)
      BY <3>1, <3>2, <3>3, OneMore
    <3> QED  BY <1>6, <1>7, <3>1, <3>3, <3>4
  <2> QED  BY <1>5, <1>6, <2>1 DEF CountsReferences
<1>10. Above' /\ OneDescriptorPerMember'
  BY <1>5, <1>6 DEF Above, OneDescriptorPerMember, DescriptorsTypeOK
<1> QED  BY <1>8, <1>9, <1>10

(* A member of an archive, which counts it. *)
LEMMA MemberKeeps ==
    ASSUME DescriptorsInv, Room, NEW ref \in Live, NEW d \in Descriptor, NEW off \in Nat,
           d.count = 1, d.parent = ref, d.members = <<>>, ~d.loaded, ~d.tables,
           elf[ref].base < d.base, Opened(ref, d.base) = Null,
           elf' = [With(Fresh, d) EXCEPT ![ref].members = <<Fresh>> \o @,
                                         ![ref].count = @ + 1, ![ref].off = off],
           refs' = [refs EXCEPT ![Fresh] = 1], file' = file
    PROVE  DescriptorsInv'
<1> DEFINE f == Fresh
           r == elf[ref]
           a == [r EXCEPT !.members = <<f>> \o r.members, !.count = r.count + 1, !.off = off]
<1> USE DEF DescriptorsInv
<1>1. f \in Ids /\ f \notin Live /\ f # Null
  BY FreshIs
<1> HIDE DEF f
<1>2. /\ elf \in [Live -> Descriptor] /\ r \in Descriptor
      /\ Live \subseteq Ids /\ Null \notin Live /\ ref # f /\ ref \in Ids
  BY <1>1 DEF DescriptorsTypeOK, Ids
<1> DEFINE Now == Live \cup {f}
<1>3. /\ DOMAIN elf' = Now /\ elf' = [i \in Now |-> elf'[i]]
      /\ elf'[f] = d /\ elf'[ref] = a
      /\ \A i \in Live : i # ref => elf'[i] = elf[i]
  <2>1. With(f, d) = [i \in Now |-> IF i = f THEN d ELSE elf[i]]
    BY DEF With
  <2>2. With(f, d)[ref] = r
    BY <1>2, <2>1
  <2>3. elf' = [With(f, d) EXCEPT ![ref] = a]
    BY <2>1, <2>2 DEF f
  <2> HIDE DEF a, r
  <2>4. /\ DOMAIN elf' = Now /\ elf' = [i \in Now |-> elf'[i]] /\ elf'[ref] = a
        /\ \A i \in Now : i # ref => elf'[i] = With(f, d)[i]
    BY <2>1, <2>3
  <2>5. With(f, d)[f] = d /\ \A i \in Live : With(f, d)[i] = elf[i]
    BY <1>1, <2>1 DEF f
  <2> QED  BY <1>2, <2>4, <2>5
<1>4. /\ r.members \in Seq(Ids) /\ r.count \in Nat \ {0} /\ r.count + 1 \in Nat \ {0}
      /\ r.count = refs[ref] + Len(r.members) /\ Range(r.members) = {m \in Live : elf[m].parent = ref}
      /\ IsInjective(r.members) /\ Len(r.members) \in Nat /\ refs[ref] \in Nat
  <2>1. r.members \in Seq(Ids) /\ r.count \in Nat \ {0}
    BY <1>2 DEF Descriptor
  <2>2. \A n \in Nat \ {0} : n + 1 \in Nat \ {0}
    OBVIOUS
  <2>3. /\ r.count = refs[ref] + Len(r.members)
        /\ Range(r.members) = {m \in Live : elf[m].parent = ref} /\ IsInjective(r.members)
    BY DEF CountsReferences
  <2>4. Len(r.members) \in Nat
    BY <2>1, LenProperties
  <2>5. refs[ref] \in Nat
    BY <1>2 DEF DescriptorsTypeOK
  <2> HIDE DEF r
  <2> QED  BY <2>1, <2>2, <2>3, <2>4, <2>5
<1>5. /\ <<f>> \o r.members \in Seq(Ids) /\ Len(<<f>> \o r.members) = Len(r.members) + 1
      /\ IsInjective(<<f>> \o r.members) /\ Range(<<f>> \o r.members) = Range(r.members) \cup {f}
  BY <1>1, <1>4, AddedInFront
<1>6. /\ a \in Descriptor
      /\ a.members = <<f>> \o r.members /\ a.count = r.count + 1 /\ a.parent = r.parent
      /\ a.base = r.base /\ a.loaded = r.loaded /\ a.tables = r.tables /\ a.ehdr = r.ehdr
  <2> DEFINE ms == <<f>> \o r.members
             n  == r.count + 1
  <2> HIDE DEF ms, n, r
  <2>1. ms \in Seq(Ids) /\ n \in Nat \ {0}
    BY <1>4, <1>5 DEF ms, n
  <2>2. [r EXCEPT !.members = ms, !.count = n, !.off = off] \in Descriptor
    BY <1>2, <2>1 DEF Descriptor
  <2>3. a = [r EXCEPT !.members = ms, !.count = n, !.off = off]
    BY DEF ms, n
  <2>4. /\ a.members = ms /\ a.count = n /\ a.parent = r.parent
        /\ a.base = r.base /\ a.loaded = r.loaded /\ a.tables = r.tables /\ a.ehdr = r.ehdr
    BY <1>2, <2>3 DEF Descriptor
  <2> QED  BY <2>2, <2>3, <2>4 DEF ms, n
<1> HIDE DEF a, r
<1>7. DOMAIN elf' = Now /\ Live' = Now
  BY <1>3 DEF Live
<1>8. /\ elf'[f] = d /\ elf'[ref] = a
      /\ \A i \in Live : i # ref => elf'[i] = elf[i]
  BY <1>1, <1>2, <1>3
<1>9. \A i \in Live :
          /\ elf'[i] \in Descriptor
          /\ elf'[i].parent = elf[i].parent /\ elf'[i].base = elf[i].base
          /\ elf'[i].loaded = elf[i].loaded /\ elf'[i].tables = elf[i].tables
          /\ elf'[i].ehdr = elf[i].ehdr
  BY <1>2, <1>6, <1>8 DEF r
<1>10. /\ refs' \in [Ids -> Nat] /\ refs'[f] = 1
       /\ \A i \in Ids : i # f => refs'[i] = refs[i]
  BY <1>1 DEF DescriptorsTypeOK, f
<1>11. DescriptorsTypeOK'
  <2>1. elf' \in [Now -> Descriptor]
    BY <1>3, <1>8, <1>9
  <2>2. \A i \in Ids : refs'[i] > 0 => i \in Now
    BY <1>10 DEF DescriptorsTypeOK
  <2>3. file' \in Files /\ Now \subseteq Ids
    BY <1>1 DEF DescriptorsTypeOK
  <2>4. \A i \in Now :
            /\ elf'[i].parent \in {Null} \cup Now
            /\ (elf'[i].loaded => elf'[i].tables) /\ (elf'[i].tables => elf'[i].ehdr)
    <3>1. \A i \in Live :
              /\ elf[i].parent \in {Null} \cup Live
              /\ (elf[i].loaded => elf[i].tables) /\ (elf[i].tables => elf[i].ehdr)
      BY DEF DescriptorsTypeOK
    <3>2. d.parent \in Live /\ ~d.loaded /\ ~d.tables
      OBVIOUS
    <3>3. ASSUME NEW i \in Live
          PROVE  /\ elf'[i].parent \in {Null} \cup Now
                 /\ (elf'[i].loaded => elf'[i].tables) /\ (elf'[i].tables => elf'[i].ehdr)
      <4> HIDE DEF Now
      <4>1. elf[i].parent \in {Null} \cup Now
        BY <3>1 DEF Now
      <4>2. /\ elf'[i].parent = elf[i].parent /\ elf'[i].loaded = elf[i].loaded
            /\ elf'[i].tables = elf[i].tables /\ elf'[i].ehdr = elf[i].ehdr
        BY <1>9
      <4> QED  BY <3>1, <4>1, <4>2
    <3>4. /\ elf'[f].parent \in {Null} \cup Now
          /\ (elf'[f].loaded => elf'[f].tables) /\ (elf'[f].tables => elf'[f].ehdr)
      BY <1>8, <3>2
    <3> QED  BY <3>3, <3>4
  <2> HIDE DEF Now
  <2> QED  BY <1>7, <1>10, <2>1, <2>2, <2>3, <2>4 DEF DescriptorsTypeOK
<1>12. CountsReferences'
  <2>1. \A i \in Live : elf[i].parent # f
    BY <1>1 DEF DescriptorsTypeOK
  <2>2. ASSUME NEW i \in Now, i # ref
        PROVE  {m \in Now : elf'[m].parent = i} = {m \in Live : elf[m].parent = i}
    <3>1. elf'[f].parent # i
      BY <1>8, <2>2
    <3>2. \A m \in Live : elf'[m].parent = elf[m].parent
      BY <1>9
    <3> QED  BY <3>1, <3>2
  <2>2a. {m \in Now : elf'[m].parent = ref} = {m \in Live : elf[m].parent = ref} \cup {f}
    <3>1. elf'[f].parent = ref
      BY <1>8
    <3>2. \A m \in Live : elf'[m].parent = elf[m].parent
      BY <1>9
    <3> QED  BY <3>1, <3>2
  <2>3. /\ elf'[f].count = refs'[f] + Len(elf'[f].members)
        /\ Range(elf'[f].members) = {m \in Now : elf'[m].parent = f}
        /\ IsInjective(elf'[f].members)
    <3>1. Len(<<>>) = 0 /\ Range(<<>>) = {} /\ IsInjective(<<>>)
      BY DEF Range, IsInjective
    <3>2. {m \in Now : elf'[m].parent = f} = {}
      <4>1. f \in Now /\ f # ref
        BY <1>2
      <4>2. {m \in Live : elf[m].parent = f} = {}
        BY <2>1
      <4> QED  BY <2>2, <4>1, <4>2
    <3>3. elf'[f].count = 1 /\ elf'[f].members = <<>> /\ refs'[f] = 1
      BY <1>8, <1>10
    <3>4. 1 = 1 + 0
      OBVIOUS
    <3> QED  BY <3>1, <3>2, <3>3, <3>4
  <2>4. /\ elf'[ref].count = refs'[ref] + Len(elf'[ref].members)
        /\ Range(elf'[ref].members) = {m \in Now : elf'[m].parent = ref}
        /\ IsInjective(elf'[ref].members)
    <3>1. r.count + 1 = refs[ref] + (Len(r.members) + 1)
      <4> DEFINE used == refs[ref]
                 open == Len(r.members)
      <4>1. used \in Nat /\ open \in Nat /\ r.count = used + open
        BY <1>4
      <4> HIDE DEF used, open
      <4>2. r.count + 1 = used + (open + 1)
        BY <4>1
      <4> QED  BY <4>2 DEF used, open
    <3>2. refs'[ref] = refs[ref]
      BY <1>2, <1>10
    <3>3. {m \in Now : elf'[m].parent = ref} = Range(r.members) \cup {f}
      BY <1>4, <2>2a
    <3> QED  BY <1>5, <1>6, <1>8, <3>1, <3>2, <3>3
  <2>5. ASSUME NEW i \in Live, i # ref
        PROVE  /\ elf'[i].count = refs'[i] + Len(elf'[i].members)
               /\ Range(elf'[i].members) = {m \in Now : elf'[m].parent = i}
               /\ IsInjective(elf'[i].members)
    <3>1. elf'[i] = elf[i] /\ refs'[i] = refs[i]
      BY <1>1, <1>2, <1>8, <1>10, <2>5
    <3>2. {m \in Now : elf'[m].parent = i} = {m \in Live : elf[m].parent = i}
      BY <2>2, <2>5
    <3> QED  BY <3>1, <3>2 DEF CountsReferences
  <2>6. \A i \in Now :
            /\ elf'[i].count = refs'[i] + Len(elf'[i].members)
            /\ Range(elf'[i].members) = {m \in Now : elf'[m].parent = i}
            /\ IsInjective(elf'[i].members)
    BY <2>3, <2>4, <2>5
  <2> HIDE DEF Now
  <2> QED  BY <1>7, <2>6 DEF CountsReferences
<1>13. Above'
  <2>1. \A i \in Live : elf[i].parent # Null => elf[i].parent \in Live
    BY DEF DescriptorsTypeOK
  <2>2. ASSUME NEW i \in Live, elf'[i].parent # Null
        PROVE  elf'[elf'[i].parent].base < elf'[i].base
    <3>1. elf'[i].parent = elf[i].parent /\ elf'[i].base = elf[i].base
      BY <1>9
    <3>2. elf[i].parent \in Live /\ elf[elf[i].parent].base < elf[i].base
      BY <2>1, <2>2, <3>1 DEF Above
    <3>3. elf'[elf[i].parent].base = elf[elf[i].parent].base
      BY <1>9, <3>2
    <3> QED  BY <3>1, <3>2, <3>3
  <2>3. elf'[f].parent = ref /\ elf'[f].base = d.base /\ elf'[ref].base = elf[ref].base
    BY <1>8, <1>9
  <2>4. \A i \in Live' : elf'[i].parent # Null => elf'[elf'[i].parent].base < elf'[i].base
    BY <1>7, <2>2, <2>3
  <2> QED  BY <2>4 DEF Above
<1>14. OneDescriptorPerMember'
  <2>1. ASSUME NEW i \in Live, elf[i].parent = ref, elf[i].base = d.base
        PROVE  FALSE
    <3> DEFINE same == {m \in Range(elf[ref].members) : elf[m].base = d.base}
    <3>1. i \in same
      BY <1>4, <2>1 DEF r
    <3>2. Opened(ref, d.base) \in same
      BY <3>1 DEF Opened
    <3> QED  BY <1>2, <1>4, <3>2 DEF r
  <2>2. ASSUME NEW i \in Live, NEW j \in Live, elf'[i].parent # Null,
               elf'[i].parent = elf'[j].parent, elf'[i].base = elf'[j].base
        PROVE  i = j
    <3>1. /\ elf[i].parent # Null /\ elf[i].parent = elf[j].parent
          /\ elf[i].base = elf[j].base
      BY <1>9, <2>2
    <3> QED  BY <3>1, Zenon DEF OneDescriptorPerMember
  <2>3. ASSUME NEW i \in Live, elf'[i].parent = elf'[f].parent, elf'[i].base = elf'[f].base
        PROVE  FALSE
    BY <1>8, <1>9, <2>1, <2>3
  <2>4. \A i, j \in Now :
            elf'[i].parent # Null /\ elf'[i].parent = elf'[j].parent
                /\ elf'[i].base = elf'[j].base => i = j
    BY <2>2, <2>3
  <2> HIDE DEF Now
  <2>5. Live' = Now
    BY <1>7
  <2> QED  BY <2>4, <2>5, Zenon DEF OneDescriptorPerMember
<1> QED  BY <1>11, <1>12, <1>13, <1>14

(* INIT_ELF, and a descriptor that _elf_check_type() has looked at. *)
LEMMA InitElfIs ==
    /\ InitElf \in Descriptor
    /\ InitElf.count = 1 /\ InitElf.parent = Null /\ InitElf.members = <<>>
    /\ ~InitElf.loaded /\ ~InitElf.tables
<1>1. InitElf \in Descriptor
  BY EmptySeq DEF InitElf, Descriptor
<1> QED  BY <1>1 DEF InitElf

LEMMA CheckTypeIs ==
    ASSUME DescriptorsInv, NEW d \in Descriptor
    PROVE  /\ CheckType(d) \in Descriptor
           /\ CheckType(d).count = d.count /\ CheckType(d).parent = d.parent
           /\ CheckType(d).members = d.members /\ CheckType(d).base = d.base
           /\ CheckType(d).loaded = d.loaded /\ CheckType(d).tables = d.tables
<1> DEFINE Begins(k, least) ==
               d.size >= least /\ d.base \in DOMAIN file.at /\ file.at[d.base].kind = k
           kind == IF Begins("elf", EI_NIDENT) THEN "elf"
                   ELSE IF Begins("ar", SARMAG) THEN "ar" ELSE "none"
           off  == IF kind = "ar" THEN SARMAG ELSE 0
<1>1. kind \in {"none", "elf", "ar"}
  OBVIOUS
<1>2. off \in Nat
  BY DEF SARMAG
<1>3. CheckType(d) = [d EXCEPT !.kind = kind, !.off = off]
  BY DEF CheckType
<1> HIDE DEF kind, off
<1>4. [d EXCEPT !.kind = kind, !.off = off] \in Descriptor
  BY <1>1, <1>2 DEF Descriptor
<1>5. /\ CheckType(d).count = d.count /\ CheckType(d).parent = d.parent
      /\ CheckType(d).members = d.members /\ CheckType(d).base = d.base
      /\ CheckType(d).loaded = d.loaded /\ CheckType(d).tables = d.tables
  BY <1>3 DEF Descriptor
<1> QED  BY <1>3, <1>4, <1>5

LEMMA FileSize ==
    ASSUME DescriptorsInv
    PROVE  file.size \in Nat
BY FilesAssumption DEF DescriptorsInv, DescriptorsTypeOK

LEMMA BeginFileKeeps ==
    ASSUME DescriptorsInv, NEW fd \in Fds, NEW cmd, BeginFile(fd, cmd)
    PROVE  DescriptorsInv'
<1> DEFINE d == [InitElf EXCEPT !.fd = fd, !.size = file.size, !.readable = TRUE,
                                !.writable = (cmd = "RDWR")]
<1>1. fd \in Nat /\ file.size \in Nat
  BY BoundsAssumption, FileSize
<1>2. /\ d \in Descriptor /\ d.count = 1 /\ d.parent = Null /\ d.members = <<>>
      /\ ~d.loaded /\ ~d.tables
  BY <1>1, InitElfIs DEF Descriptor
<1>3. /\ Live = {} /\ Room /\ elf' = With(Fresh, CheckType(d))
      /\ refs' = [refs EXCEPT ![Fresh] = 1] /\ file' = file
  BY DEF BeginFile, Begun, Closed
<1> HIDE DEF d
<1> QED  BY <1>2, <1>3, CheckTypeIs, FirstKeeps

LEMMA BeginNewKeeps ==
    ASSUME DescriptorsInv, NEW fd \in Fds, BeginNew(fd)
    PROVE  DescriptorsInv'
<1> DEFINE d == [InitElf EXCEPT !.fd = fd, !.writable = TRUE]
<1>1. fd \in Nat
  BY BoundsAssumption
<1>2. /\ d \in Descriptor /\ d.count = 1 /\ d.parent = Null /\ d.members = <<>>
      /\ ~d.loaded /\ ~d.tables
  BY <1>1, InitElfIs DEF Descriptor
<1>3. /\ Live = {} /\ Room /\ elf' = With(Fresh, d)
      /\ refs' = [refs EXCEPT ![Fresh] = 1] /\ file' = file
  BY DEF BeginNew, Closed
<1> HIDE DEF d
<1> QED  BY <1>2, <1>3, FirstKeeps

LEMMA MemoryKeeps ==
    ASSUME DescriptorsInv, ElfMemory
    PROVE  DescriptorsInv'
<1> DEFINE d == [InitElf EXCEPT !.size = file.size, !.readable = TRUE, !.disabled = TRUE,
                                !.memory = TRUE, !.raw = "data"]
<1>1. file.size \in Nat
  BY FileSize
<1>2. /\ d \in Descriptor /\ d.count = 1 /\ d.parent = Null /\ d.members = <<>>
      /\ ~d.loaded /\ ~d.tables
  BY <1>1, InitElfIs DEF Descriptor
<1>3. /\ Live = {} /\ Room /\ elf' = With(Fresh, CheckType(d))
      /\ refs' = [refs EXCEPT ![Fresh] = 1] /\ file' = file
  BY DEF ElfMemory, Begun, Closed
<1> HIDE DEF d
<1> QED  BY <1>2, <1>3, CheckTypeIs, FirstKeeps

(* The member at e_off begins behind its archive's first byte. *)
LEMMA MemberIs ==
    ASSUME DescriptorsInv, NEW fd \in Fds, NEW ref \in Live, elf[ref].kind = "ar",
           Refusal(fd, "READ", elf[ref]) = "none"
    PROVE  LET d == MemberOf(ref, fd)
           IN  /\ d \in Descriptor /\ d.next \in Nat /\ d.count = 1 /\ d.parent = ref
               /\ d.members = <<>> /\ ~d.loaded /\ ~d.tables /\ elf[ref].base < d.base
<1> DEFINE r    == elf[ref]
           size == HdrAt(r, r.off).size
           d0   == [InitElf EXCEPT
                       !.fd = IF r.memory THEN r.fd ELSE fd, !.parent = ref, !.size = size,
                       !.base = r.base + r.off + ArHdr, !.readable = TRUE,
                       !.next = Behind(r.off, size), !.disabled = r.disabled,
                       !.memory = r.memory]
<1>1. /\ r.base \in Nat /\ r.off \in Nat /\ r.fd \in Nat /\ r.memory \in BOOLEAN
      /\ r.disabled \in BOOLEAN /\ ref \in Ids /\ fd \in Nat
  BY BoundsAssumption DEF DescriptorsInv, DescriptorsTypeOK, Descriptor
<1>2. size \in Nat
  <2>1. Arhdr(r) = "none"
    BY DEF Refusal
  <2>2. HasHdr(r, r.off)
    BY <2>1 DEF Arhdr
  <2> QED  BY <2>2, FilesAssumption DEF HasHdr, HdrAt, DescriptorsInv, DescriptorsTypeOK
<1> HIDE DEF size
<1>3. /\ r.base + r.off + ArHdr \in Nat /\ r.base < r.base + r.off + ArHdr
      /\ Behind(r.off, size) \in Nat
  <2> HIDE DEF r
  <2> QED  BY <1>1, <1>2 DEF ArHdr, Behind
<1>4. /\ d0 \in Descriptor /\ d0.next \in Nat /\ d0.count = 1 /\ d0.parent = ref
      /\ d0.members = <<>> /\ ~d0.loaded /\ ~d0.tables /\ r.base < d0.base
  <2> DEFINE fd0  == IF r.memory THEN r.fd ELSE fd
             base == r.base + r.off + ArHdr
             next == Behind(r.off, size)
             disabled == r.disabled
             memory   == r.memory
  <2>1. /\ fd0 \in Nat /\ base \in Nat /\ next \in Nat /\ disabled \in BOOLEAN
        /\ memory \in BOOLEAN /\ r.base < base
    BY <1>1, <1>3
  <2> HIDE DEF r, fd0, base, next, disabled, memory
  <2> DEFINE m == [InitElf EXCEPT !.fd = fd0, !.parent = ref, !.size = size, !.base = base,
                                  !.readable = TRUE, !.next = next, !.disabled = disabled,
                                  !.memory = memory]
  <2>2. m \in Descriptor
    <3> DEFINE m1 == [InitElf EXCEPT !.fd = fd0, !.parent = ref, !.size = size, !.base = base]
    <3>1. m1 \in Descriptor
      BY <1>1, <1>2, <2>1, InitElfIs DEF Descriptor
    <3>2. m = [m1 EXCEPT !.readable = TRUE, !.next = next, !.disabled = disabled,
                         !.memory = memory]
      OBVIOUS
    <3> HIDE DEF m1, m
    <3> QED  BY <2>1, <3>1, <3>2 DEF Descriptor
  <2>3. /\ m.next = next /\ m.count = 1 /\ m.parent = ref /\ m.members = <<>>
        /\ ~m.loaded /\ ~m.tables /\ m.base = base
    BY InitElfIs DEF Descriptor
  <2>4. m = d0
    BY DEF fd0, base, next, disabled, memory
  <2> HIDE DEF m, d0
  <2> QED  BY <2>1, <2>2, <2>3, <2>4
<1>5. MemberOf(ref, fd) = CheckType(Frozen(d0))
  BY DEF MemberOf, size
<1> HIDE DEF d0
<1>6. /\ Frozen(d0) \in Descriptor /\ Frozen(d0).next \in Nat /\ Frozen(d0).count = 1
      /\ Frozen(d0).parent = ref /\ Frozen(d0).members = <<>> /\ ~Frozen(d0).loaded
      /\ ~Frozen(d0).tables /\ r.base < Frozen(d0).base
  BY <1>4 DEF Frozen, Descriptor
<1>7. CheckType(Frozen(d0)) \in Descriptor /\ CheckType(Frozen(d0)).next \in Nat
  <2>1. CheckType(Frozen(d0)) \in Descriptor
    BY <1>6, CheckTypeIs
  <2> QED  BY <2>1 DEF Descriptor
<1> QED  BY <1>5, <1>6, <1>7, CheckTypeIs

LEMMA BeginKeeps ==
    ASSUME DescriptorsInv, NEW fd \in Fds, NEW cmd, NEW ref \in Live, ElfBegin(fd, cmd, ref)
    PROVE  DescriptorsInv'
<1>1. CASE BeginSame(fd, cmd, ref)
  BY <1>1, AgainKeeps DEF BeginSame
<1>2. CASE BeginRefused(fd, cmd, ref) \/ BeginNoMemory(fd, ref)
  BY <1>2, SameKeeps DEF BeginRefused, BeginNoMemory, Same, vars
<1>3. CASE BeginAgain(fd, ref)
  <2> DEFINE base == elf[ref].base + elf[ref].off + ArHdr
             id   == Opened(ref, base)
  <2>1. /\ id # Null /\ elf' = [elf EXCEPT ![id].count = @ + 1]
        /\ refs' = [refs EXCEPT ![id] = @ + 1] /\ file' = file
    BY <1>3 DEF BeginAgain
  <2>2. id \in Live
    <3> HIDE DEF base
    <3>1. id \in {m \in Range(elf[ref].members) : elf[m].base = base}
      BY <2>1 DEF Opened
    <3> QED  BY <3>1 DEF DescriptorsInv, CountsReferences
  <2> HIDE DEF id
  <2> QED  BY <2>1, <2>2, AgainKeeps
<1>4. CASE BeginMember(fd, ref)
  <2> DEFINE d == MemberOf(ref, fd)
  <2>1. /\ Room /\ elf[ref].kind = "ar" /\ Refusal(fd, "READ", elf[ref]) = "none"
        /\ Opened(ref, d.base) = Null
        /\ elf' = [With(Fresh, d) EXCEPT ![ref].members = <<Fresh>> \o @,
                                         ![ref].count = @ + 1, ![ref].off = d.next]
        /\ refs' = [refs EXCEPT ![Fresh] = 1] /\ file' = file
    BY <1>4 DEF BeginMember
  <2>2. /\ d \in Descriptor /\ d.next \in Nat /\ d.count = 1 /\ d.parent = ref
        /\ d.members = <<>> /\ ~d.loaded /\ ~d.tables /\ elf[ref].base < d.base
    BY <2>1, MemberIs
  <2> HIDE DEF d
  <2> QED  BY <2>1, <2>2, MemberKeeps
<1> QED  BY <1>1, <1>2, <1>3, <1>4 DEF ElfBegin

-----------------------------------------------------------------------------
LEMMA InitInv == Init => DescriptorsInv
<1> SUFFICES ASSUME Init PROVE DescriptorsInv
  OBVIOUS
<1>1. Live = {} /\ refs = [id \in Ids |-> 0] /\ file \in Files /\ elf = [id \in {} |-> InitElf]
  BY DEF Init, Live
<1> QED  BY <1>1 DEF DescriptorsInv, DescriptorsTypeOK, CountsReferences, Above,
                     OneDescriptorPerMember

LEMMA NextKeepsInv == DescriptorsInv /\ [Next]_vars => DescriptorsInv'
<1> SUFFICES ASSUME DescriptorsInv, [Next]_vars PROVE DescriptorsInv'
  OBVIOUS
<1>0. FirstFd \in Fds
  BY BoundsAssumption DEF FirstFd
<1>1. CASE UNCHANGED vars
  BY <1>1, SameKeeps DEF vars
<1>2. CASE ElfMemory
  BY <1>2, MemoryKeeps
<1>3. CASE BeginNew(FirstFd)
  BY <1>0, <1>3, BeginNewKeeps
<1>4. ASSUME NEW cmd \in Commands, BeginFile(FirstFd, cmd)
      PROVE  DescriptorsInv'
  BY <1>0, <1>4, BeginFileKeeps
<1>5. ASSUME NEW id \in Live, NEW fd \in Fds, NEW cmd \in Commands, ElfBegin(fd, cmd, id)
      PROVE  DescriptorsInv'
  BY <1>5, BeginKeeps
<1>6. ASSUME NEW id \in Live, NEW offset \in Offsets, ElfRand(id, offset)
      PROVE  DescriptorsInv'
  BY <1>6, RandKeeps
<1>7. ASSUME NEW id \in Live, NEW cmd \in {"FDREAD", "FDDONE"}, ElfCntl(id, cmd)
      PROVE  DescriptorsInv'
  BY <1>7, CntlKeeps
<1>8. ASSUME NEW id \in Live, ElfEnd(id)
      PROVE  DescriptorsInv'
  BY <1>8, EndKeeps
<1>9. ASSUME NEW id \in Live, ElfNext(id)
      PROVE  DescriptorsInv'
  BY <1>9, NextKeeps
<1>10. ASSUME NEW id \in Live, ElfGetident(id) \/ ElfGetdata(id)
       PROVE  DescriptorsInv'
  BY <1>10, ReadKeeps
<1>11. ASSUME NEW id \in Live, ElfRawfile(id) \/ ElfGetarsym(id)
       PROVE  DescriptorsInv'
  BY <1>11, RawfileKeeps, GetarsymKeeps
<1> QED  BY <1>1, <1>2, <1>3, <1>4, <1>5, <1>6, <1>7, <1>8, <1>9, <1>10, <1>11 DEF Next

(* The strengthened invariant of the calls on descriptors (begin.c, end.c, next.c). *)
THEOREM DescriptorsInvariant == Spec => []DescriptorsInv
BY InitInv, NextKeepsInv, PTL DEF Spec

(* Descriptors are whole, their archives live, and the program holds live ones only,
   whatever it calls (begin.c, end.c, cook.c). *)
THEOREM DescriptorsTyped == Spec => []DescriptorsTypeOK
BY DescriptorsInvariant, PTL DEF DescriptorsInv

(* e_count is the references there are, so that elf_end() frees what nobody uses
   (begin.c:361-364, end.c:84-98). *)
THEOREM CountsAreReferences == Spec => []CountsReferences
BY DescriptorsInvariant, PTL DEF DescriptorsInv

(* A member has one descriptor however often it is asked for (begin.c:299-313). *)
THEOREM MembersOnce == Spec => []OneDescriptorPerMember
BY DescriptorsInvariant, PTL DEF DescriptorsInv

-----------------------------------------------------------------------------
(* Special().strtab and Arhdr(), of an archive at a place of a file: no descriptor is
   needed to know what they say. *)
StringsIn(f, base, size) ==
    LET Has(off) == off + ArHdr <= size /\ base + off \in DOMAIN f.hdrs
        Hdr(off) == f.hdrs[base + off]
        Ends(off) == \/ ~Has(off)
                     \/ Hdr(off).name \notin {"symbols", "strings"}
                     \/ ~Hdr(off).num \/ Hdr(off).size = 0
                     \/ off + ArHdr + Hdr(off).size > size
        find[off \in Nat] ==
            IF Ends(off) THEN [strtab |-> FALSE, symtab |-> FALSE]
            ELSE IF Hdr(off).name = "strings" THEN [strtab |-> TRUE, symtab |-> FALSE]
            ELSE [find[Behind(off, Hdr(off).size)] EXCEPT !.symtab = TRUE]
    IN  find[SARMAG].strtab

ArhdrOf(f, base, size, off) ==
    IF off = size THEN "end"
    ELSE IF off > size THEN "OUTSIDE"
    ELSE IF off + ArHdr > size THEN "TRUNC_ARHDR"
    ELSE IF ~(off + ArHdr <= size /\ base + off \in DOMAIN f.hdrs) THEN "ARFMAG"
    ELSE LET hdr == f.hdrs[base + off]
         IN  IF hdr.name = "odd" THEN "ARSPECIAL"
             ELSE IF hdr.name = "lost" \/ (hdr.name = "long" /\ ~StringsIn(f, base, size))
             THEN "ARSTRTAB"
             ELSE IF ~hdr.num THEN "ARHDR"
             ELSE IF off + ArHdr + hdr.size > size THEN "TRUNC_MEMBER"
             ELSE "none"

(* A member lies inside its archive, behind a header that _elf_arhdr() reads. *)
InArchive(f, m, a) ==
    /\ a.base + ArHdr <= m.base /\ m.base + m.size <= a.base + a.size
    /\ ArhdrOf(f, a.base, a.size, m.base - a.base - ArHdr) = "none"

(***************************************************************************)
(* What a member shares with its archive: its bytes, so that it is frozen  *)
(* (raw is "data") and never cooked in place; an image that is cooked was   *)
(* opened by itself.                                                       *)
(***************************************************************************)
Sharing ==
    \A id \in Live :
        LET d == elf[id]
        IN  /\ d.cooked => d.parent = Null /\ d.kind = "elf" /\ d.raw # "data"
            /\ d.parent # Null =>
                   /\ elf[d.parent].kind = "ar" /\ InArchive(file, d, elf[d.parent])
                   /\ d.kind = "elf" => d.raw = "data"

(* Whether an archive has a string table depends on where it is in the file. *)
LEMMA StringsInIs ==
    ASSUME NEW d
    PROVE  Special(d).strtab = StringsIn(file, d.base, d.size)
BY DEF Special, StringsIn, Stops, HasHdr, HdrAt

(* So does what _elf_arhdr() says of the header at e_off. *)
LEMMA ArhdrIs ==
    ASSUME NEW d
    PROVE  Arhdr(d) = ArhdrOf(file, d.base, d.size, d.off)
BY StringsInIs DEF Arhdr, ArhdrOf, HasHdr, HdrAt

(* A function from descriptors to the one at the upper end of the chain. *)
Roots(root) ==
    \A id \in Live :
        root[id] = IF elf[id].parent = Null THEN id ELSE root[elf[id].parent]

RootsExist == \E root \in [Live -> Ids] : Roots(root)

(* What a call leaves of a descriptor that stays. *)
Kept(d, e) ==
    /\ d.base = e.base /\ d.size = e.size /\ d.parent = e.parent /\ d.kind = e.kind
    /\ e.raw = "data" => d.raw = "data"
    /\ d.cooked => e.cooked \/ (e.kind = "elf" /\ e.raw # "data")
    /\ d.cooked /\ (e.cooked => e.raw # "data") => d.raw # "data"

(* What elf_begin() and elf_memory() give one that is new. *)
Joins(d) ==
    /\ ~d.cooked
    /\ d.parent # Null =>
           /\ d.parent \in Live /\ d.parent \in Live' /\ elf[d.parent].kind = "ar"
           /\ InArchive(file, d, elf[d.parent])
           /\ d.kind = "elf" => d.raw = "data"

(* Sharing and RootsExist look at fields that Kept() keeps, and a new member's
   archive is there already. *)
LEMMA SharingKept ==
    ASSUME DescriptorsInv, DescriptorsInv', Sharing, RootsExist, file' = file,
           \A i \in Live' : IF i \in Live THEN Kept(elf'[i], elf[i]) ELSE Joins(elf'[i])
    PROVE  Sharing' /\ RootsExist'
<1>1. /\ \A i \in Live : elf[i].parent # Null => elf[i].parent \in Live
      /\ \A i \in Live' : elf'[i].parent # Null => elf'[i].parent \in Live'
      /\ Live' \subseteq Ids
  BY DEF DescriptorsInv, DescriptorsTypeOK
<1>2. \A i \in Live' : i \in Live =>
          Kept(elf'[i], elf[i]) /\ elf'[i].parent = elf[i].parent
  BY DEF Kept
<1>3. ASSUME NEW i \in Live', elf'[i].parent # Null
      PROVE  LET p == elf'[i].parent
             IN  /\ p \in Live /\ p \in Live' /\ elf'[p].kind = elf[p].kind
                 /\ elf'[p].base = elf[p].base /\ elf'[p].size = elf[p].size
  <2>1. elf'[i].parent \in Live /\ elf'[i].parent \in Live'
    BY <1>1, <1>2, <1>3 DEF Joins
  <2> QED BY <1>2, <2>1 DEF Kept
<1>4. ASSUME NEW i \in Live'
      PROVE  LET d == elf'[i]
             IN  /\ d.cooked => d.parent = Null /\ d.kind = "elf" /\ d.raw # "data"
                 /\ d.parent # Null =>
                        /\ elf'[d.parent].kind = "ar" /\ InArchive(file', d, elf'[d.parent])
                        /\ d.kind = "elf" => d.raw = "data"
  <2>1. CASE i \in Live
    <3>1. Kept(elf'[i], elf[i])
      BY <2>1
    <3>2. LET e == elf[i]
          IN  /\ e.cooked => e.parent = Null /\ e.kind = "elf" /\ e.raw # "data"
              /\ e.parent # Null =>
                     /\ elf[e.parent].kind = "ar" /\ InArchive(file, e, elf[e.parent])
                     /\ e.kind = "elf" => e.raw = "data"
      BY <2>1 DEF Sharing
    <3>3. PICK d, e : d = elf'[i] /\ e = elf[i]
      OBVIOUS
    <3>4. d.cooked => d.parent = Null /\ d.kind = "elf" /\ d.raw # "data"
      BY <3>1, <3>2, <3>3 DEF Kept
    <3>5. ASSUME d.parent # Null
          PROVE  /\ elf'[d.parent].kind = "ar" /\ InArchive(file', d, elf'[d.parent])
                 /\ d.kind = "elf" => d.raw = "data"
      <4>1. PICK a, b : a = elf'[d.parent] /\ b = elf[d.parent]
        OBVIOUS
      <4>2. a.kind = b.kind /\ a.base = b.base /\ a.size = b.size
        BY <1>3, <3>3, <3>5, <4>1
      <4>3. b.kind = "ar" /\ InArchive(file, e, b) /\ (e.kind = "elf" => e.raw = "data")
        BY <3>1, <3>2, <3>3, <3>5, <4>1 DEF Kept
      <4>4. InArchive(file', d, a)
        BY <3>1, <3>3, <4>2, <4>3 DEF Kept, InArchive
      <4> QED BY <3>1, <3>3, <4>1, <4>2, <4>3, <4>4 DEF Kept
    <3> QED BY <3>3, <3>4, <3>5
  <2>2. CASE i \notin Live
    <3>1. Joins(elf'[i])
      BY <2>2
    <3>2. PICK d : d = elf'[i]
      OBVIOUS
    <3>3. ASSUME d.parent # Null
          PROVE  elf'[d.parent].kind = "ar" /\ InArchive(file', d, elf'[d.parent])
      <4>1. PICK a, b : a = elf'[d.parent] /\ b = elf[d.parent]
        OBVIOUS
      <4>2. a.kind = b.kind /\ a.base = b.base /\ a.size = b.size
        BY <1>3, <3>2, <3>3, <4>1
      <4>3. b.kind = "ar" /\ InArchive(file, d, b)
        BY <3>1, <3>2, <3>3, <4>1 DEF Joins
      <4> QED BY <4>1, <4>2, <4>3 DEF InArchive
    <3> QED BY <3>1, <3>2, <3>3 DEF Joins
  <2> QED BY <2>1, <2>2
<1>5. Sharing'
  BY <1>4 DEF Sharing
<1>6. RootsExist'
  <2>1. PICK root \in [Live -> Ids] : Roots(root)
    BY DEF RootsExist
  <2> DEFINE new == [i \in Live' |->
                 IF i \in Live THEN root[i]
                 ELSE IF elf'[i].parent = Null THEN i ELSE root[elf'[i].parent]]
  <2>2. new \in [Live' -> Ids]
    BY <1>1, <1>3, <2>1
  <2>3. ASSUME NEW i \in Live'
        PROVE  new[i] = IF elf'[i].parent = Null THEN i ELSE new[elf'[i].parent]
    <3>1. CASE elf'[i].parent = Null
      BY <1>2, <2>1, <3>1 DEF Roots
    <3>2. CASE elf'[i].parent # Null
      <4>1. new[elf'[i].parent] = root[elf'[i].parent]
        BY <1>3, <3>2
      <4>2. new[i] = root[elf'[i].parent]
        BY <1>2, <2>1, <3>2 DEF Roots
      <4> QED BY <3>2, <4>1, <4>2
    <3> QED BY <3>1, <3>2
  <2> HIDE DEF new
  <2>4. PICK n : n = new
    OBVIOUS
  <2>5. Roots(n)'
    BY <2>3, <2>4 DEF Roots
  <2>6. n \in [Live' -> Ids]
    BY <2>2, <2>4
  <2> QED BY <2>5, <2>6 DEF RootsExist
<1> QED BY <1>5, <1>6

-----------------------------------------------------------------------------
(* What is allocated. *)
(* What reading allocates for a descriptor, and what it owns with that. *)
OfCook(d) ==
    {w \in {"ehdr", "scns", "buffer"} :
        \/ w = "ehdr" /\ d.ehdr
        \/ w = "scns" /\ d.tables
        \/ w = "buffer" /\ d.loaded /\ ~d.cooked}

Owns(d) ==
    {w \in {"elf", "arhdr", "data", "raw", "syms"} :
        \/ w = "elf"
        \/ w = "arhdr" /\ d.parent # Null
        \/ w = "data" /\ d.parent = Null /\ ~d.memory /\ d.readable /\ d.size > 0
        \/ w = "raw" /\ d.raw = "own"
        \/ w = "syms" /\ d.syms}
    \cup OfCook(d)

Of(id, whats) == {<<id, w>> : w \in whats}

(* The pieces of a descriptor, by name. *)
LEMMA PiecesIs ==
    ASSUME NEW id, NEW d
    PROVE  Pieces(id, d) = Of(id, OfCook(d))
<1>1. \A x : x \in Pieces(id, d) <=>
          \/ x = <<id, "ehdr">> /\ d.ehdr
          \/ x = <<id, "scns">> /\ d.tables
          \/ x = <<id, "buffer">> /\ d.loaded /\ ~d.cooked
  BY DEF Pieces
<1>2. \A x : x \in Of(id, OfCook(d)) <=> \E w \in OfCook(d) : x = <<id, w>>
  BY DEF Of
<1>3. \A w : w \in OfCook(d) <=>
          \/ w = "ehdr" /\ d.ehdr
          \/ w = "scns" /\ d.tables
          \/ w = "buffer" /\ d.loaded /\ ~d.cooked
  BY DEF OfCook
<1>4. \A x : x \in Pieces(id, d) <=> x \in Of(id, OfCook(d))
  BY <1>1, <1>2, <1>3
<1> QED BY <1>4

(* FreedOf(), of a descriptor with the fields of d. *)
FreedBy(id, d) ==
    LET When(cond, what) == IF cond THEN {<<id, what>>} ELSE {}
    IN  {<<id, "elf">>}
        \cup When(d.parent # Null, "arhdr")
        \cup When(d.parent = Null /\ ~d.memory /\ d.readable /\ d.size > 0, "data")
        \cup When(d.ehdr, "ehdr") \cup When(d.tables, "scns")
        \cup When(d.loaded /\ ~d.cooked, "buffer")
        \cup When(d.raw = "own", "raw") \cup When(d.syms, "syms")

(* _elf_end frees what a descriptor owns. *)
LEMMA FreedByIs ==
    ASSUME NEW id, NEW d
    PROVE  FreedBy(id, d) = Of(id, Owns(d))
<1> DEFINE data == d.parent = Null /\ ~d.memory /\ d.readable /\ d.size > 0
<1>1. \A x : x \in FreedBy(id, d) <=>
          \/ x = <<id, "elf">>
          \/ x = <<id, "arhdr">> /\ d.parent # Null
          \/ x = <<id, "data">> /\ data
          \/ x = <<id, "ehdr">> /\ d.ehdr
          \/ x = <<id, "scns">> /\ d.tables
          \/ x = <<id, "buffer">> /\ d.loaded /\ ~d.cooked
          \/ x = <<id, "raw">> /\ d.raw = "own"
          \/ x = <<id, "syms">> /\ d.syms
  BY DEF FreedBy
<1>2. \A x : x \in Of(id, Owns(d)) <=> \E w \in Owns(d) : x = <<id, w>>
  BY DEF Of
<1>3. \A w : w \in Owns(d) <=>
          \/ w = "elf"
          \/ w = "arhdr" /\ d.parent # Null
          \/ w = "data" /\ data
          \/ w = "ehdr" /\ d.ehdr
          \/ w = "scns" /\ d.tables
          \/ w = "buffer" /\ d.loaded /\ ~d.cooked
          \/ w = "raw" /\ d.raw = "own"
          \/ w = "syms" /\ d.syms
  BY DEF Owns, OfCook
<1> HIDE DEF data
<1>4. \A x : x \in FreedBy(id, d) <=> x \in Of(id, Owns(d))
  BY <1>1, <1>2, <1>3
<1> QED BY <1>4

(* So FreedOf() is what the descriptor owns. *)
LEMMA FreedIs ==
    ASSUME NEW id
    PROVE  FreedOf(id) = Of(id, Owns(elf[id])) /\ FreedOf(id)' = Of(id, Owns(elf'[id]))
<1>1. FreedOf(id) = FreedBy(id, elf[id]) /\ FreedOf(id)' = FreedBy(id, elf'[id])
  BY DEF FreedOf, FreedBy
<1> QED BY <1>1, FreedByIs

(* All that is left belongs to a live descriptor. *)
Belongs(live, d, h) ==
    \A x : x \in h /\ x # <<Null, "arhdr">> <=> \E id \in live : x \in Of(id, Owns(d[id]))

(* All that belongs, as one set. *)
LEMMA BelongsIs ==
    ASSUME NEW live, NEW d, NEW h
    PROVE  h \ {<<Null, "arhdr">>} = UNION {Of(id, Owns(d[id])) : id \in live} <=> Belongs(live, d, h)
<1> DEFINE H == h \ {<<Null, "arhdr">>}
           U == UNION {Of(id, Owns(d[id])) : id \in live}
<1>1. \A x : x \in H <=> x \in h /\ x # <<Null, "arhdr">>
  OBVIOUS
<1>2. \A x : x \in U <=> \E id \in live : x \in Of(id, Owns(d[id]))
  OBVIOUS
<1>3. H = U <=> \A x : x \in H <=> x \in U
  OBVIOUS
<1> HIDE DEF H, U
<1>4. H = U <=> Belongs(live, d, h)
  BY <1>1, <1>2, <1>3 DEF Belongs
<1> QED BY <1>4 DEF H, U

(* NothingLeaks says that the heap is what the live descriptors own. *)
LEMMA LeaksNot ==
    /\ NothingLeaks <=> Belongs(Live, elf, heap) /\ ~faults
    /\ NothingLeaks' <=> Belongs(Live', elf', heap') /\ ~faults'
<1>1. /\ {FreedOf(id) : id \in Live} = {Of(id, Owns(elf[id])) : id \in Live}
      /\ {FreedOf(id)' : id \in Live'} = {Of(id, Owns(elf'[id])) : id \in Live'}
  BY FreedIs
<1>2. NothingLeaks <=> /\ heap \ {<<Null, "arhdr">>} = UNION {FreedOf(id) : id \in Live}
                       /\ ~faults
  BY DEF NothingLeaks
<1>3. NothingLeaks' <=> /\ heap' \ {<<Null, "arhdr">>} = UNION {FreedOf(id)' : id \in Live'}
                        /\ ~faults'
  BY DEF NothingLeaks
<1> QED BY <1>1, <1>2, <1>3, BelongsIs

(* Some descriptors get pieces. *)
LEMMA HeapGrows ==
    ASSUME NEW live, NEW d, NEW h, NEW after, NEW e, NEW k, NEW more, 0 \notin after,
           Belongs(live, d, h), live \subseteq after,
           \A i \in after : Owns(e[i]) = more[i] \cup IF i \in live THEN Owns(d[i]) ELSE {},
           \A x : x \in k <=> x \in h \/ \E i \in after : x \in Of(i, more[i])
    PROVE  Belongs(after, e, k)
<1> SUFFICES ASSUME NEW x
             PROVE  x \in k /\ x # <<Null, "arhdr">> <=> \E i \in after : x \in Of(i, Owns(e[i]))
  BY DEF Belongs
<1>1. x \in h /\ x # <<Null, "arhdr">> <=> \E i \in live : x \in Of(i, Owns(d[i]))
  BY DEF Belongs
<1>2. \A i \in after : x \in Of(i, Owns(e[i]))
          <=> x \in Of(i, more[i]) \/ (i \in live /\ x \in Of(i, Owns(d[i])))
  BY DEF Of
<1>3. \A i \in after : x \in Of(i, more[i]) => x # <<Null, "arhdr">>
  BY DEF Of
<1> QED BY <1>1, <1>2, <1>3

-----------------------------------------------------------------------------
(* The second strengthened invariant. *)
SharingInv == DescriptorsInv /\ Sharing /\ RootsExist /\ NothingLeaks

(* Descriptors that stay or are new, some of them with new pieces. *)
LEMMA Grows ==
    ASSUME SharingInv, DescriptorsInv', file' = file, faults' = faults, Live \subseteq Live',
           NEW more,
           \A i \in Live' : IF i \in Live THEN Kept(elf'[i], elf[i]) ELSE Joins(elf'[i]),
           \A i \in Live' : Owns(elf'[i]) = more[i] \cup IF i \in Live THEN Owns(elf[i]) ELSE {},
           heap' = heap \cup UNION {Of(i, more[i]) : i \in Live'}
    PROVE  SharingInv'
<1>1. Sharing' /\ RootsExist'
  BY SharingKept DEF SharingInv
<1>2. Belongs(Live, elf, heap) /\ ~faults
  BY LeaksNot DEF SharingInv
<1>3. \A x : x \in heap' <=> x \in heap \/ \E i \in Live' : x \in Of(i, more[i])
  OBVIOUS
<1>4. 0 \notin Live'
  BY DEF DescriptorsInv, DescriptorsTypeOK, Ids
<1>5. Belongs(Live', elf', heap')
  BY <1>2, <1>3, <1>4, HeapGrows
<1>6. NothingLeaks'
  BY <1>2, <1>5, LeaksNot
<1> QED BY <1>1, <1>6 DEF SharingInv

(* Of a descriptor, what neither its archive nor its pieces depend on may change. *)
Aside(d, e) ==
    /\ d.base = e.base /\ d.size = e.size /\ d.parent = e.parent /\ d.kind = e.kind
    /\ d.raw = e.raw /\ d.cooked = e.cooked /\ d.memory = e.memory /\ d.readable = e.readable
    /\ d.ehdr = e.ehdr /\ d.tables = e.tables /\ d.loaded = e.loaded /\ d.syms = e.syms

(* Such a descriptor is kept and owns what it owned. *)
LEMMA AsideKept ==
    ASSUME NEW d, NEW e, Aside(d, e), e.cooked => e.raw # "data"
    PROVE  Kept(d, e) /\ Owns(d) = Owns(e)
<1>1. Kept(d, e)
  BY DEF Aside, Kept
<1>2. OfCook(d) = OfCook(e)
  BY DEF Aside, OfCook
<1>3. Owns(d) = Owns(e)
  BY <1>2 DEF Aside, Owns
<1> QED BY <1>1, <1>3

(* The reference count, the position, the list of members and the switch are aside. *)
LEMMA AsideIs ==
    ASSUME NEW e \in Descriptor, NEW v
    PROVE  /\ Aside(e, e)
           /\ Aside([e EXCEPT !.count = v], e) /\ Aside([e EXCEPT !.off = v], e)
           /\ Aside([e EXCEPT !.disabled = v], e)
           /\ \A w : Aside([e EXCEPT !.count = v, !.members = w], e)
           /\ \A w, x : Aside([e EXCEPT !.members = w, !.count = v, !.off = x], e)
<1>1. Aside([e EXCEPT !.count = v], e) /\ Aside([e EXCEPT !.off = v], e)
  BY DEF Aside, Descriptor
<1>2. Aside([e EXCEPT !.disabled = v], e)
  BY DEF Aside, Descriptor
<1>3. \A w : Aside([e EXCEPT !.count = v, !.members = w], e)
  BY DEF Aside, Descriptor
<1>4. \A w, x : Aside([e EXCEPT !.members = w, !.count = v, !.off = x], e)
  BY DEF Aside, Descriptor
<1> QED BY <1>1, <1>2, <1>3, <1>4 DEF Aside

(* What the type invariant says of one descriptor. *)
LEMMA Typed ==
    ASSUME SharingInv
    PROVE  /\ DescriptorsInv /\ Live = DOMAIN elf
           /\ \A i \in Live : /\ elf[i] \in Descriptor /\ (elf[i].cooked => elf[i].raw # "data")
                              /\ (elf[i].loaded => elf[i].tables) /\ (elf[i].tables => elf[i].ehdr)
                              /\ Kept(elf[i], elf[i])
<1>1. DescriptorsInv /\ Live = DOMAIN elf
  BY DEF SharingInv, Live
<1>2. ASSUME NEW i \in Live
      PROVE  /\ elf[i] \in Descriptor /\ (elf[i].cooked => elf[i].raw # "data")
             /\ (elf[i].loaded => elf[i].tables) /\ (elf[i].tables => elf[i].ehdr)
  BY DEF SharingInv, Sharing, DescriptorsInv, DescriptorsTypeOK
<1> QED BY <1>1, <1>2, AsideIs, AsideKept

(* One descriptor changes. *)
LEMMA OneGrows ==
    ASSUME SharingInv, DescriptorsInv', NEW id \in Live, NEW d, NEW w,
           Kept(d, elf[id]), Owns(d) = w \cup Owns(elf[id]),
           elf' = [elf EXCEPT ![id] = d], heap' = heap \cup Of(id, w),
           file' = file, faults' = faults
    PROVE  SharingInv'
<1> DEFINE more == [i \in Live |-> IF i = id THEN w ELSE {}]
<1>1. DOMAIN elf = Live /\ Live' = Live
  BY DEF Live
<1>2. \A i \in Live : elf'[i] = IF i = id THEN d ELSE elf[i]
  BY <1>1
<1>3. \A i \in Live' : IF i \in Live THEN Kept(elf'[i], elf[i]) ELSE Joins(elf'[i])
  BY <1>1, <1>2, Typed
<1>4. ASSUME NEW i \in Live'
      PROVE  Owns(elf'[i]) = more[i] \cup IF i \in Live THEN Owns(elf[i]) ELSE {}
  <2>1. CASE i = id
    BY <1>1, <1>2, <2>1
  <2>2. CASE i # id
    BY <1>1, <1>2, <2>2
  <2> QED BY <2>1, <2>2
<1>5. heap' = heap \cup UNION {Of(i, more[i]) : i \in Live'}
  <2>1. \A i \in Live : i # id => Of(i, more[i]) = {}
    BY DEF Of
  <2>2. UNION {Of(i, more[i]) : i \in Live} = Of(id, w)
    <3>1. more[id] = w
      OBVIOUS
    <3> HIDE DEF more
    <3> QED BY <2>1, <3>1
  <2> QED BY <1>1, <2>2
<1> HIDE DEF more
<1> QED BY <1>1, <1>3, <1>4, <1>5, Grows

(* Nothing new is allocated. *)
LEMMA NoPieces ==
    ASSUME NEW id, NEW h
    PROVE  h = h \cup Of(id, {})
BY DEF Of

(* Nothing but the position, or the number of references. *)
LEMMA AsideShares ==
    ASSUME SharingInv, DescriptorsInv', NEW id \in Live, NEW d, Aside(d, elf[id]),
           elf' = [elf EXCEPT ![id] = d], UNCHANGED <<file, heap, faults>>
    PROVE  SharingInv'
<1>1. Kept(d, elf[id]) /\ Owns(d) = Owns(elf[id])
  BY Typed, AsideKept
<1>2. Owns(d) = {} \cup Owns(elf[id]) /\ heap' = heap \cup Of(id, {})
  BY <1>1, NoPieces
<1> QED BY <1>1, <1>2, OneGrows

(* No descriptor changes. *)
LEMMA SameShares ==
    ASSUME SharingInv, DescriptorsInv', UNCHANGED <<file, elf, faults>>,
           heap' \ {<<Null, "arhdr">>} = heap \ {<<Null, "arhdr">>}
    PROVE  SharingInv'
<1>1. Live' = Live
  BY DEF Live
<1>2. \A i \in Live' : IF i \in Live THEN Kept(elf'[i], elf[i]) ELSE Joins(elf'[i])
  BY <1>1, Typed
<1>3. Sharing' /\ RootsExist'
  BY <1>2, SharingKept DEF SharingInv
<1>4. NothingLeaks'
  <2>1. Belongs(Live, elf, heap) /\ ~faults
    BY LeaksNot DEF SharingInv
  <2>2. \A x : x \in heap' /\ x # <<Null, "arhdr">> <=> x \in heap /\ x # <<Null, "arhdr">>
    <3>1. \A h, x : x \in h \ {<<Null, "arhdr">>} <=> x \in h /\ x # <<Null, "arhdr">>
      OBVIOUS
    <3> QED BY <3>1
  <2>3. Belongs(Live', elf', heap')
    BY <1>1, <2>1, <2>2 DEF Belongs
  <2> QED BY <2>1, <2>3, LeaksNot
<1> QED BY <1>3, <1>4 DEF SharingInv

(* _elf_cook() and elf_getdata(). *)
LEMMA CookKept ==
    ASSUME NEW d \in Descriptor, d.loaded => d.tables, d.tables => d.ehdr,
           d.cooked => d.raw # "data", d.kind = "elf", NEW c, c = Cooked(d).d
    PROVE  /\ Kept(c, d) /\ Owns(c) = OfCook(c) \cup Owns(d)
           /\ c.raw = d.raw /\ c.kind = "elf" /\ (c.cooked => c.raw # "data")
           /\ c \in Descriptor
<1>1. CASE d.ehdr
  <2>1. c = d
    BY <1>1 DEF Cooked
  <2> QED BY <2>1, AsideIs, AsideKept DEF Owns
<1>2. CASE ~d.ehdr
  <2> DEFINE hdr == file.at[d.base].cooks # "nothing"
             all == file.at[d.base].cooks \in {"all", "sections"}
  <2>1. c = [d EXCEPT !.ehdr = hdr, !.tables = all]
    BY <1>2 DEF Cooked
  <2>2. hdr \in BOOLEAN /\ all \in BOOLEAN
    OBVIOUS
  <2> HIDE DEF hdr, all
  <2>3. /\ c.base = d.base /\ c.size = d.size /\ c.parent = d.parent /\ c.kind = d.kind
        /\ c.raw = d.raw /\ c.cooked = d.cooked /\ c.memory = d.memory
        /\ c.readable = d.readable /\ c.loaded = d.loaded /\ c.syms = d.syms
        /\ c \in Descriptor
    BY <2>1, <2>2 DEF Descriptor
  <2>4. OfCook(d) = {}
    BY <1>2 DEF OfCook
  <2>5. Owns(c) = OfCook(c) \cup Owns(d)
    BY <2>3, <2>4 DEF Owns
  <2> QED BY <2>3, <2>5 DEF Kept
<1> QED BY <1>1, <1>2

(* elf_getdata(), of a descriptor that is cooked or an image of its own. *)
LEMMA DataKept ==
    ASSUME NEW d \in Descriptor, d.loaded => d.tables, d.cooked => d.raw # "data", d.kind = "elf",
           NEW c, c = DataRead(d).d
    PROVE  Kept(c, d) /\ Owns(c) = OfCook(c) \cup Owns(d)
<1>1. CASE c = d
  <2>1. Kept(d, d)
    BY AsideIs, AsideKept
  <2> QED BY <1>1, <2>1 DEF Owns
<1>2. CASE ~d.loaded /\ c = [d EXCEPT !.loaded = TRUE, !.cooked = (@ \/ d.raw # "data")]
  <2>1. /\ c.base = d.base /\ c.size = d.size /\ c.parent = d.parent /\ c.kind = d.kind
        /\ c.raw = d.raw /\ c.memory = d.memory /\ c.readable = d.readable
        /\ c.ehdr = d.ehdr /\ c.tables = d.tables /\ c.syms = d.syms
        /\ c.loaded /\ c.cooked = (d.cooked \/ d.raw # "data")
    BY <1>2 DEF Descriptor
  <2>2. OfCook(d) \subseteq OfCook(c)
    BY <1>2, <2>1 DEF OfCook
  <2>3. Owns(c) = OfCook(c) \cup Owns(d)
    BY <2>1, <2>2 DEF Owns
  <2> QED BY <1>2, <2>1, <2>3 DEF Kept
<1> QED BY <1>1, <1>2 DEF DataRead

(* A descriptor that elf_getdata() or another reader has cooked or read. *)
LEMMA ReadKept ==
    ASSUME SharingInv, NEW id \in Live, elf[id].kind = "elf", NEW c,
           c = Cooked(elf[id]).d \/ c = AllRead(elf[id]).d
    PROVE  Kept(c, elf[id]) /\ Owns(c) = OfCook(c) \cup Owns(elf[id])
<1> DEFINE e == elf[id]
           k == Cooked(e).d
<1>1. /\ e \in Descriptor /\ (e.loaded => e.tables) /\ (e.tables => e.ehdr)
      /\ (e.cooked => e.raw # "data")
  BY Typed
<1>2. /\ Kept(k, e) /\ Owns(k) = OfCook(k) \cup Owns(e)
      /\ k.raw = e.raw /\ k.kind = "elf" /\ (k.cooked => k.raw # "data") /\ k \in Descriptor
  BY <1>1, CookKept
<1>3. k.loaded => k.tables
  <2>1. DescriptorsInv
    BY Typed
  <2> QED BY <2>1, SelfAlike DEF Alike
<1>4. CASE c = k
  BY <1>2, <1>4
<1>5. CASE c = DataRead(k).d
  <2> HIDE DEF k, e
  <2>1. Kept(c, k) /\ Owns(c) = OfCook(c) \cup Owns(k)
    BY <1>2, <1>3, <1>5, DataKept
  <2>2. Kept(c, e)
    BY <1>1, <1>2, <2>1 DEF Kept
  <2>3. OfCook(k) \subseteq OfCook(c)
    <3>1. c = k \/ (c = [k EXCEPT !.loaded = TRUE, !.cooked = (@ \/ k.raw # "data")] /\ ~k.loaded)
      BY <1>5 DEF DataRead
    <3>2. CASE c # k
      <4>1. c.ehdr = k.ehdr /\ c.tables = k.tables /\ ~k.loaded
        BY <1>2, <3>1, <3>2 DEF Descriptor
      <4> QED BY <4>1 DEF OfCook
    <3> QED BY <3>2
  <2>4. Owns(c) = OfCook(c) \cup Owns(e)
    BY <1>2, <2>1, <2>3
  <2> QED BY <2>2, <2>4 DEF e
<1>6. c = k \/ c = DataRead(k).d
  BY DEF AllRead
<1> QED BY <1>4, <1>5, <1>6

(* elf_next() and elf_rand() move e_off. *)
LEMMA PositionShares ==
    ASSUME SharingInv, DescriptorsInv', NEW id \in Live,
           ElfNext(id) \/ \E offset \in Offsets : ElfRand(id, offset)
    PROVE  SharingInv'
<1>1. ASSUME UNCHANGED <<file, elf, heap, faults>> PROVE SharingInv'
  BY <1>1, SameShares
<1>2. ASSUME NEW i \in Live, NEW off, elf' = [elf EXCEPT ![i].off = off],
             UNCHANGED <<file, heap, faults>>
      PROVE  SharingInv'
  <2>1. Aside([elf[i] EXCEPT !.off = off], elf[i])
    BY Typed, AsideIs
  <2>2. elf' = [elf EXCEPT ![i] = [elf[i] EXCEPT !.off = off]]
    BY <1>2, Typed
  <2> QED BY <1>2, <2>1, <2>2, AsideShares
<1>3. CASE ElfNext(id)
  <2>1. CASE elf[id].parent = Null
    BY <1>1, <1>3, <2>1 DEF ElfNext
  <2>2. CASE elf[id].parent # Null
    <3>1. elf[id].parent \in Live
      BY <2>2, Typed DEF DescriptorsInv, DescriptorsTypeOK
    <3> QED BY <1>2, <1>3, <2>2, <3>1 DEF ElfNext
  <2> QED BY <2>1, <2>2
<1>4. ASSUME NEW offset \in Offsets, ElfRand(id, offset) PROVE SharingInv'
  <2>1. UNCHANGED <<file, heap, faults>> /\ (elf' = elf \/ elf' = [elf EXCEPT ![id].off = offset])
    BY <1>4 DEF ElfRand
  <2> QED BY <1>1, <1>2, <2>1
<1> QED BY <1>3, <1>4

(* The calls that read: the image is cooked, or a section's data loaded. *)
LEMMA ReadShares ==
    ASSUME SharingInv, DescriptorsInv', NEW id \in Live, ElfGetident(id) \/ ElfGetdata(id)
    PROVE  SharingInv'
<1>1. PICK d : /\ d = Cooked(elf[id]).d \/ d = AllRead(elf[id]).d
               /\ elf[id].kind = "elf" /\ elf' = [elf EXCEPT ![id] = d]
               /\ heap' = heap \cup Pieces(id, d) /\ UNCHANGED <<file, faults>>
  BY DEF ElfGetident, ElfGetdata
<1>2. Kept(d, elf[id]) /\ Owns(d) = OfCook(d) \cup Owns(elf[id])
  BY <1>1, ReadKept
<1> QED BY <1>1, <1>2, PiecesIs, OneGrows

(* elf_rawfile(): a cooked descriptor gets a copy of its own. *)
LEMMA RawShares ==
    ASSUME SharingInv, DescriptorsInv', NEW id \in Live, ElfRawfile(id)
    PROVE  SharingInv'
<1> DEFINE e == elf[id]
           raw == RawFrom(e)
           d == [e EXCEPT !.raw = raw]
           w == IF raw = "own" THEN {"raw"} ELSE {}
<1>1. /\ elf' = [elf EXCEPT ![id].raw = RawFrom(elf[id])]
      /\ heap' = heap \cup IF raw = "own" THEN {<<id, "raw">>} ELSE {}
      /\ UNCHANGED <<file, faults>>
  BY DEF ElfRawfile
<1>2. e \in Descriptor /\ (e.cooked => e.raw # "data")
  BY Typed
<1>3. /\ e.raw = "none" \/ raw = e.raw
      /\ e.cooked => raw # "data"
  BY <1>2 DEF RawFrom
<1>4. elf' = [elf EXCEPT ![id] = d]
  BY <1>1, Typed
<1>5. heap' = heap \cup Of(id, w)
  BY <1>1 DEF Of
<1> HIDE DEF raw, e
<1>6. /\ d.base = e.base /\ d.size = e.size /\ d.parent = e.parent /\ d.kind = e.kind
      /\ d.raw = raw /\ d.cooked = e.cooked /\ d.memory = e.memory /\ d.readable = e.readable
      /\ d.ehdr = e.ehdr /\ d.tables = e.tables /\ d.loaded = e.loaded /\ d.syms = e.syms
  BY <1>2 DEF Descriptor
<1> HIDE DEF d
<1>7. Kept(d, e)
  BY <1>3, <1>6 DEF Kept
<1>8. Owns(d) = w \cup Owns(e)
  <2>1. OfCook(d) = OfCook(e)
    BY <1>6 DEF OfCook
  <2> QED BY <1>3, <1>6, <2>1 DEF Owns
<1> HIDE DEF w
<1> QED BY <1>1, <1>4, <1>5, <1>7, <1>8, OneGrows DEF e

(* elf_getarsym(): an archive gets its table of symbols. *)
LEMMA ArsymShares ==
    ASSUME SharingInv, DescriptorsInv', NEW id \in Live, ElfGetarsym(id)
    PROVE  SharingInv'
<1> DEFINE e == elf[id]
           d == [e EXCEPT !.syms = TRUE]
<1>1. /\ elf' = [elf EXCEPT ![id].syms = TRUE] /\ heap' = heap \cup {<<id, "syms">>}
      /\ UNCHANGED <<file, faults>>
  BY DEF ElfGetarsym
<1>2. e \in Descriptor /\ (e.cooked => e.raw # "data")
  BY Typed
<1>3. elf' = [elf EXCEPT ![id] = d]
  BY <1>1, Typed
<1>4. heap' = heap \cup Of(id, {"syms"})
  BY <1>1 DEF Of
<1> HIDE DEF e
<1>5. /\ d.base = e.base /\ d.size = e.size /\ d.parent = e.parent /\ d.kind = e.kind
      /\ d.raw = e.raw /\ d.cooked = e.cooked /\ d.memory = e.memory /\ d.readable = e.readable
      /\ d.ehdr = e.ehdr /\ d.tables = e.tables /\ d.loaded = e.loaded /\ d.syms
  BY <1>2 DEF Descriptor
<1> HIDE DEF d
<1>6. Kept(d, e)
  BY <1>2, <1>5 DEF Kept
<1>7. Owns(d) = {"syms"} \cup Owns(e)
  <2>1. OfCook(d) = OfCook(e)
    BY <1>5 DEF OfCook
  <2> QED BY <1>5, <2>1 DEF Owns
<1> QED BY <1>1, <1>3, <1>4, <1>6, <1>7, OneGrows DEF e

(* elf_cntl(): whichever descriptors it reaches, and disables. *)
LEMMA CntlShares ==
    ASSUME SharingInv, DescriptorsInv', NEW id \in Live, NEW cmd, ElfCntl(id, cmd)
    PROVE  SharingInv'
<1> DEFINE result  == Disabling(id, cmd)
           Read(d) == IF d.kind = "elf" /\ cmd = "FDREAD" THEN AllRead(d).d ELSE d
<1>1. /\ elf' = [i \in Live |->
             IF i \in result.reached
             THEN [Read(elf[i]) EXCEPT !.disabled = @ \/ i \in result.disabled]
             ELSE elf[i]]
      /\ heap' = heap \cup UNION {Pieces(i, elf'[i]) : i \in Live \cap result.reached}
      /\ file' = file /\ faults' = faults
  BY DEF ElfCntl
<1> HIDE DEF result
<1> DEFINE more == [i \in Live |-> IF i \in result.reached THEN OfCook(elf'[i]) ELSE {}]
<1>2. Live' = Live
  BY <1>1 DEF Live
<1>3. ASSUME NEW i \in Live
      PROVE  Kept(elf'[i], elf[i]) /\ Owns(elf'[i]) = more[i] \cup Owns(elf[i])
  <2>1. CASE i \in result.reached
    <3> DEFINE e == elf[i]
               c == Read(e)
               flag == c.disabled \/ i \in result.disabled
    <3>1. elf'[i] = [c EXCEPT !.disabled = flag]
      BY <1>1, <2>1
    <3>2. c \in Descriptor
      BY Typed, SelfAlike DEF Alike
    <3>3. Kept(c, e) /\ Owns(c) = OfCook(c) \cup Owns(e)
      <4>1. CASE e.kind = "elf" /\ cmd = "FDREAD"
        BY <4>1, ReadKept
      <4>2. CASE ~(e.kind = "elf" /\ cmd = "FDREAD")
        BY <4>2, Typed DEF Owns
      <4> QED BY <4>1, <4>2
    <3>4. e.cooked => e.raw # "data"
      BY Typed
    <3> HIDE DEF c, e, flag
    <3>5. PICK d : d = [c EXCEPT !.disabled = flag]
      OBVIOUS
    <3>6. Aside(d, c)
      BY <3>2, <3>5, AsideIs
    <3>7. Kept(d, c) /\ Owns(d) = Owns(c)
      <4>1. c.cooked => c.raw # "data"
        BY <3>3, <3>4 DEF Kept
      <4> QED BY <3>6, <4>1, AsideKept
    <3>8. Kept(d, e)
      BY <3>3, <3>4, <3>6, <3>7 DEF Kept, Aside
    <3>9. OfCook(d) = OfCook(c)
      BY <3>6 DEF Aside, OfCook
    <3> QED BY <2>1, <3>1, <3>3, <3>5, <3>7, <3>8, <3>9 DEF e
  <2>2. CASE i \notin result.reached
    BY <1>1, <2>2, Typed
  <2> QED BY <2>1, <2>2
<1>4. heap' = heap \cup UNION {Of(i, more[i]) : i \in Live}
  <2>1. \A i \in Live \cap result.reached : Pieces(i, elf'[i]) = Of(i, more[i])
    BY PiecesIs
  <2>2. \A i \in Live : i \notin result.reached => Of(i, more[i]) = {}
    BY DEF Of
  <2> HIDE DEF more
  <2>3. UNION {Pieces(i, elf'[i]) : i \in Live \cap result.reached} = UNION {Of(i, more[i]) : i \in Live}
    BY <2>1, <2>2
  <2> QED BY <1>1, <2>3
<1> HIDE DEF more
<1> QED BY <1>1, <1>2, <1>3, <1>4, Grows

(* elf_end() frees what those that go had, and those that stay keep theirs. *)
LEMMA EndShares ==
    ASSUME SharingInv, DescriptorsInv', NEW id \in Live, ElfEnd(id)
    PROVE  SharingInv'
<1> DEFINE G == Gone(id)
           freed == UNION {FreedOf(i) : i \in G}
           Shorter(i) == [elf[i] EXCEPT !.count = @ - 1, !.members = Unlinked(@, G)]
<1>1. /\ elf' = [i \in Live \ G |-> IF i \in Ending(id) THEN Shorter(i) ELSE elf[i]]
      /\ heap' = heap \ freed /\ faults' = (faults \/ ~(freed \subseteq heap)) /\ file' = file
  BY DEF ElfEnd, Gone
<1>2. G \subseteq Live
  BY Typed, EndingCarries DEF Gone, DescriptorsInv
<1> HIDE DEF G
<1>3. Live' = Live \ G
  BY <1>1 DEF Live
<1>4. ASSUME NEW i \in Live'
      PROVE  Kept(elf'[i], elf[i]) /\ Owns(elf'[i]) = Owns(elf[i])
  <2>1. elf[i] \in Descriptor /\ (elf[i].cooked => elf[i].raw # "data")
    BY <1>3, Typed
  <2>2. elf'[i] = Shorter(i) \/ elf'[i] = elf[i]
    BY <1>1, <1>3
  <2>3. Aside(elf'[i], elf[i])
    <3> DEFINE n == elf[i].count - 1
               m == Unlinked(elf[i].members, G)
    <3>1. Shorter(i) = [elf[i] EXCEPT !.count = n, !.members = m]
      OBVIOUS
    <3> HIDE DEF n, m, Shorter
    <3>2. PICK e : e = elf[i]
      OBVIOUS
    <3>3. ASSUME NEW w PROVE Aside([e EXCEPT !.count = n, !.members = w], e)
      BY <2>1, <3>2, AsideIs
    <3>4. Aside([e EXCEPT !.count = n, !.members = m], e)
      BY <3>3
    <3> QED BY <2>1, <2>2, <3>1, <3>2, <3>4, AsideIs
  <2> QED BY <2>1, <2>3, AsideKept
<1>5. Sharing' /\ RootsExist'
  BY <1>1, <1>3, <1>4, SharingKept DEF SharingInv
<1>6. Belongs(Live, elf, heap) /\ ~faults
  BY LeaksNot DEF SharingInv
<1>7. \A x : x \in freed <=> \E i \in G : x \in Of(i, Owns(elf[i]))
  <2>1. \A x : x \in freed <=> \E i \in G : x \in FreedOf(i)
    OBVIOUS
  <2> QED BY <2>1, FreedIs
<1> HIDE DEF freed
<1>8. \A i \in Live : \A x : x \in Of(i, Owns(elf[i])) => x # <<Null, "arhdr">>
  <2>1. \A i \in Live : i # Null
    BY Typed DEF DescriptorsInv, DescriptorsTypeOK, Ids
  <2> QED BY <2>1 DEF Of
<1>9. freed \subseteq heap
  <2> SUFFICES ASSUME NEW x \in freed PROVE x \in heap
    OBVIOUS
  <2>1. PICK i \in G : x \in Of(i, Owns(elf[i]))
    BY <1>7
  <2> QED BY <1>2, <1>6, <2>1 DEF Belongs
<1>10. \A i, j, x : x \in Of(i, Owns(elf[i])) /\ x \in Of(j, Owns(elf[j])) => i = j
  BY DEF Of
<1>11. Belongs(Live', elf', heap')
  <2> SUFFICES ASSUME NEW x
               PROVE  x \in heap' /\ x # <<Null, "arhdr">>
                          <=> \E i \in Live' : x \in Of(i, Owns(elf'[i]))
    BY DEF Belongs
  <2>1. x \in heap /\ x # <<Null, "arhdr">> <=> \E i \in Live : x \in Of(i, Owns(elf[i]))
    BY <1>6 DEF Belongs
  <2>2. x \in heap' <=> x \in heap /\ ~\E i \in G : x \in Of(i, Owns(elf[i]))
    BY <1>1, <1>7
  <2>3. (\E i \in Live' : x \in Of(i, Owns(elf'[i]))) <=> \E i \in Live \ G : x \in Of(i, Owns(elf[i]))
    BY <1>3, <1>4
  <2> QED BY <1>2, <1>10, <2>1, <2>2, <2>3
<1>12. NothingLeaks'
  BY <1>1, <1>6, <1>9, <1>11, LeaksNot
<1> QED BY <1>5, <1>12 DEF SharingInv

-----------------------------------------------------------------------------
(* What _elf_check_type() makes of a new descriptor. *)
LEMMA CheckTypeSame ==
    ASSUME NEW d \in Descriptor, NEW c, c = CheckType(d)
    PROVE  /\ c.base = d.base /\ c.size = d.size /\ c.parent = d.parent /\ c.raw = d.raw
           /\ c.cooked = d.cooked /\ Owns(c) = Owns(d)
           /\ c.kind = "elf" => d.size > 0
<1>1. /\ c.base = d.base /\ c.size = d.size /\ c.parent = d.parent /\ c.raw = d.raw
      /\ c.cooked = d.cooked /\ c.memory = d.memory /\ c.readable = d.readable
      /\ c.ehdr = d.ehdr /\ c.tables = d.tables /\ c.loaded = d.loaded /\ c.syms = d.syms
  BY DEF CheckType, Descriptor
<1>2. c.kind = "elf" => d.size >= EI_NIDENT
  BY DEF CheckType, Descriptor
<1>3. c.kind = "elf" => d.size > 0
  BY <1>2 DEF EI_NIDENT, Descriptor
<1>4. OfCook(c) = OfCook(d)
  BY <1>1 DEF OfCook
<1>5. Owns(c) = Owns(d)
  BY <1>1, <1>4 DEF Owns
<1> QED BY <1>1, <1>3, <1>5

(* The first descriptor. *)
LEMMA FirstShares ==
    ASSUME SharingInv, DescriptorsInv', Live = {}, Room, NEW d, d.parent = Null, ~d.cooked,
           elf' = With(Fresh, d), heap' = heap \cup Of(Fresh, Owns(d)),
           file' = file, faults' = faults
    PROVE  SharingInv'
<1> DEFINE more == [i \in Live' |-> Owns(elf'[i])]
<1>1. Live' = {Fresh} /\ elf'[Fresh] = d
  BY DEF Live, With
<1>2. Joins(d)
  BY DEF Joins
<1>3. \A i \in Live' : /\ IF i \in Live THEN Kept(elf'[i], elf[i]) ELSE Joins(elf'[i])
                       /\ Owns(elf'[i]) = more[i] \cup IF i \in Live THEN Owns(elf[i]) ELSE {}
  BY <1>1, <1>2
<1>4. heap' = heap \cup UNION {Of(i, more[i]) : i \in Live'}
  BY <1>1
<1> HIDE DEF more
<1> QED BY <1>3, <1>4, Grows

(* The calls that open a file, a new one, or memory. *)
LEMMA OpenShares ==
    ASSUME SharingInv, DescriptorsInv',
           \/ \E cmd \in Commands : BeginFile(FirstFd, cmd)
           \/ BeginNew(FirstFd) \/ ElfMemory
    PROVE  SharingInv'
<1>1. file.size \in Nat /\ FirstFd \in Nat
  BY Typed, FileSize, BoundsAssumption DEF FirstFd
<1>2. ASSUME NEW d, d \in Descriptor, d.parent = Null, ~d.cooked, Closed, Room,
             elf' = With(Fresh, CheckType(d)), heap' = heap \cup Of(Fresh, Owns(d)),
             file' = file, faults' = faults
      PROVE  SharingInv'
  <2>1. PICK c : c = CheckType(d)
    OBVIOUS
  <2>2. c.parent = Null /\ ~c.cooked /\ Owns(c) = Owns(d)
    BY <1>2, <2>1, CheckTypeSame
  <2> QED BY <1>2, <2>1, <2>2, FirstShares DEF Closed
<1>3. ASSUME NEW cmd \in Commands, BeginFile(FirstFd, cmd) PROVE SharingInv'
  <2> DEFINE d == [InitElf EXCEPT !.fd = FirstFd, !.size = file.size, !.readable = TRUE,
                                  !.writable = (cmd = "RDWR")]
             pieces == {"elf"} \cup IF file.size > 0 THEN {"data"} ELSE {}
  <2>1. /\ Closed /\ Room /\ elf' = With(Fresh, CheckType(d))
        /\ heap' = heap \cup ({Fresh} \X pieces) /\ file' = file /\ faults' = faults
    BY <1>3 DEF BeginFile, Begun
  <2>2. /\ d \in Descriptor /\ d.parent = Null /\ ~d.cooked /\ ~d.ehdr /\ ~d.tables /\ ~d.loaded
        /\ ~d.syms /\ d.raw = "none" /\ ~d.memory /\ d.readable /\ d.size = file.size
    BY <1>1, InitElfIs DEF Descriptor, InitElf
  <2> HIDE DEF d
  <2>3. Owns(d) = pieces
    BY <2>2 DEF Owns, OfCook
  <2>4. {Fresh} \X pieces = Of(Fresh, pieces)
    BY DEF Of
  <2> QED BY <1>2, <2>1, <2>2, <2>3, <2>4
<1>4. CASE BeginNew(FirstFd)
  <2> DEFINE d == [InitElf EXCEPT !.fd = FirstFd, !.writable = TRUE]
  <2>1. /\ Live = {} /\ Room /\ elf' = With(Fresh, d)
        /\ heap' = heap \cup {<<Fresh, "elf">>} /\ file' = file /\ faults' = faults
    BY <1>4 DEF BeginNew, Closed
  <2>2. /\ d.parent = Null /\ ~d.cooked /\ ~d.ehdr /\ ~d.tables /\ ~d.loaded
        /\ ~d.syms /\ d.raw = "none" /\ ~d.readable
    BY <1>1, InitElfIs DEF Descriptor, InitElf
  <2> HIDE DEF d
  <2>3. Owns(d) = {"elf"}
    BY <2>2 DEF Owns, OfCook
  <2>4. {<<Fresh, "elf">>} = Of(Fresh, {"elf"})
    BY DEF Of
  <2> QED BY <2>1, <2>2, <2>3, <2>4, FirstShares
<1>5. CASE ElfMemory
  <2> DEFINE d == [InitElf EXCEPT !.size = file.size, !.readable = TRUE, !.disabled = TRUE,
                                  !.memory = TRUE, !.raw = "data"]
  <2>1. /\ Closed /\ Room /\ elf' = With(Fresh, CheckType(d))
        /\ heap' = heap \cup ({Fresh} \X {"elf"}) /\ file' = file /\ faults' = faults
    BY <1>5 DEF ElfMemory, Begun
  <2>2. /\ d \in Descriptor /\ d.parent = Null /\ ~d.cooked /\ ~d.ehdr /\ ~d.tables /\ ~d.loaded
        /\ ~d.syms /\ d.raw = "data" /\ d.memory
    BY <1>1, InitElfIs DEF Descriptor, InitElf
  <2> HIDE DEF d
  <2>3. Owns(d) = {"elf"}
    BY <2>2 DEF Owns, OfCook
  <2>4. {Fresh} \X {"elf"} = Of(Fresh, {"elf"})
    BY DEF Of
  <2> QED BY <1>2, <2>1, <2>2, <2>3, <2>4
<1> QED BY <1>3, <1>4, <1>5

(* The member at e_off lies inside its archive, and is frozen. *)
LEMMA MemberJoins ==
    ASSUME SharingInv, NEW fd \in Fds, NEW ref \in Live, elf[ref].kind = "ar",
           Refusal(fd, "READ", elf[ref]) = "none", NEW d, d = MemberOf(ref, fd)
    PROVE  /\ ~d.cooked /\ d.parent = ref /\ InArchive(file, d, elf[ref])
           /\ (d.kind = "elf" => d.raw = "data")
           /\ Owns(d) = {"elf", "arhdr"}
<1> DEFINE r    == elf[ref]
           size == HdrAt(r, r.off).size
           base == r.base + r.off + ArHdr
           fd0  == IF r.memory THEN r.fd ELSE fd
           next == Behind(r.off, size)
           m    == [InitElf EXCEPT
                       !.fd = fd0, !.parent = ref, !.size = size, !.base = base,
                       !.readable = TRUE, !.next = next, !.disabled = r.disabled,
                       !.memory = r.memory]
<1>1. /\ r.base \in Nat /\ r.off \in Nat /\ r.fd \in Nat /\ r.memory \in BOOLEAN /\ r.size \in Nat
      /\ r.disabled \in BOOLEAN /\ ref \in Ids /\ ref # Null /\ fd \in Nat
  BY BoundsAssumption, Typed DEF DescriptorsInv, DescriptorsTypeOK, Descriptor, Ids
<1>2. Arhdr(r) = "none"
  BY DEF Refusal
<1>3. size \in Nat /\ r.off + ArHdr + size <= r.size
  <2>1. HasHdr(r, r.off)
    BY <1>2 DEF Arhdr
  <2>2. size \in Nat
    BY <2>1, FilesAssumption, Typed DEF HasHdr, HdrAt, DescriptorsInv, DescriptorsTypeOK
  <2>3. ~(r.off + ArHdr + size > r.size)
    BY <1>2 DEF Arhdr
  <2> HIDE DEF r, size
  <2> QED BY <1>1, <2>2, <2>3 DEF ArHdr
<1>4. d = CheckType(Frozen(m))
  BY DEF MemberOf
<1>5. /\ InitElf \in Descriptor /\ ~InitElf.cooked /\ ~InitElf.ehdr /\ ~InitElf.tables
      /\ ~InitElf.loaded /\ ~InitElf.syms /\ InitElf.raw = "none"
  BY InitElfIs DEF InitElf
<1>6. base \in Nat /\ next \in Nat /\ fd0 \in Nat /\ r.base + ArHdr <= base
      /\ base + size <= r.base + r.size /\ base - r.base - ArHdr = r.off
  <2> HIDE DEF r, size
  <2> QED BY <1>1, <1>3 DEF ArHdr, Behind
<1>7. /\ m \in Descriptor /\ m.parent = ref /\ m.size = size /\ m.base = base /\ m.raw = "none"
      /\ ~m.cooked /\ ~m.ehdr /\ ~m.tables /\ ~m.loaded /\ ~m.syms
  <2> DEFINE dis == r.disabled
             mem == r.memory
             n == [InitElf EXCEPT !.fd = fd0, !.parent = ref, !.size = size, !.base = base]
  <2>1. dis \in BOOLEAN /\ mem \in BOOLEAN
    BY <1>1
  <2>2. m = [n EXCEPT !.readable = TRUE, !.next = next, !.disabled = dis, !.memory = mem]
    OBVIOUS
  <2> HIDE DEF dis, mem, size, base, fd0, next, m, r
  <2>3. n \in Descriptor
    BY <1>1, <1>3, <1>5, <1>6 DEF Descriptor
  <2>4. /\ n.parent = ref /\ n.size = size /\ n.base = base /\ n.raw = "none"
        /\ ~n.cooked /\ ~n.ehdr /\ ~n.tables /\ ~n.loaded /\ ~n.syms
    BY <1>5 DEF Descriptor
  <2> HIDE DEF n
  <2>5. m \in Descriptor
    BY <1>6, <2>1, <2>2, <2>3 DEF Descriptor
  <2> QED BY <2>2, <2>3, <2>4, <2>5 DEF Descriptor
<1> HIDE DEF m, size, base, fd0, next
<1>8. PICK f : f = Frozen(m)
  OBVIOUS
<1>9. /\ f \in Descriptor /\ f.parent = ref /\ f.size = size /\ f.base = base
      /\ (size > 0 => f.raw = "data") /\ f.raw # "own"
      /\ ~f.cooked /\ ~f.ehdr /\ ~f.tables /\ ~f.loaded /\ ~f.syms
  <2>1. CASE m.size = 0
    BY <1>3, <1>7, <1>8, <2>1 DEF Frozen
  <2>2. CASE m.size # 0
    <3>1. f = [m EXCEPT !.raw = "data"]
      BY <1>8, <2>2 DEF Frozen
    <3> QED BY <1>7, <3>1 DEF Descriptor
  <2> QED BY <2>1, <2>2
<1>10. Owns(f) = {"elf", "arhdr"}
  BY <1>1, <1>9 DEF Owns, OfCook
<1>11. /\ d.base = base /\ d.size = size /\ d.parent = ref /\ d.raw = f.raw /\ ~d.cooked
       /\ Owns(d) = {"elf", "arhdr"} /\ (d.kind = "elf" => d.raw = "data")
  BY <1>4, <1>8, <1>9, <1>10, CheckTypeSame
<1>12. ArhdrOf(file, r.base, r.size, d.base - r.base - ArHdr) = "none"
  BY <1>2, <1>6, <1>11, ArhdrIs
<1>13. InArchive(file, d, r)
  BY <1>6, <1>11, <1>12 DEF InArchive
<1> QED BY <1>11, <1>13

(* elf_begin() of an archive: a member. *)
LEMMA MemberShares ==
    ASSUME SharingInv, DescriptorsInv', NEW fd \in Fds, NEW ref \in Live, BeginMember(fd, ref)
    PROVE  SharingInv'
<1> DEFINE r == elf[ref]
           ms == <<Fresh>> \o r.members
           n == r.count + 1
<1>1. PICK d : d = MemberOf(ref, fd)
  OBVIOUS
<1>2. /\ Room /\ elf[ref].kind = "ar" /\ Refusal(fd, "READ", elf[ref]) = "none"
      /\ elf' = [With(Fresh, d) EXCEPT ![ref].members = <<Fresh>> \o @,
                                       ![ref].count = @ + 1, ![ref].off = d.next]
      /\ heap' = heap \cup {<<Fresh, "elf">>, <<Fresh, "arhdr">>}
      /\ file' = file /\ faults' = faults
  BY <1>1 DEF BeginMember
<1>3. /\ ~d.cooked /\ d.parent = ref /\ InArchive(file, d, r)
      /\ (d.kind = "elf" => d.raw = "data") /\ Owns(d) = {"elf", "arhdr"}
  BY <1>1, <1>2, MemberJoins
<1>4. Fresh \notin Live /\ ref # Fresh
  BY <1>2, FreshIs
<1>5. /\ Live' = Live \cup {Fresh} /\ elf'[Fresh] = d
      /\ \A i \in Live : elf'[i] =
             IF i = ref THEN [r EXCEPT !.members = ms, !.count = n, !.off = d.next] ELSE elf[i]
  <2>1. With(Fresh, d)[ref] = r /\ With(Fresh, d)[Fresh] = d
        /\ DOMAIN With(Fresh, d) = Live \cup {Fresh}
        /\ \A i \in Live : With(Fresh, d)[i] = elf[i]
    BY <1>4 DEF With
  <2>2. elf' = [With(Fresh, d) EXCEPT ![ref] = [r EXCEPT !.members = ms, !.count = n, !.off = d.next]]
    BY <1>2, <2>1
  <2> HIDE DEF r, ms, n
  <2> QED BY <1>4, <2>1, <2>2 DEF Live
<1>6. ASSUME NEW i \in Live
      PROVE  Kept(elf'[i], elf[i]) /\ Owns(elf'[i]) = Owns(elf[i])
  <2>1. elf[i] \in Descriptor /\ (elf[i].cooked => elf[i].raw # "data")
    BY Typed
  <2>2. CASE i # ref
    BY <1>5, <2>1, <2>2, AsideIs, AsideKept
  <2>3. CASE i = ref
    <3> DEFINE off == d.next
    <3>1. elf'[i] = [r EXCEPT !.members = ms, !.count = n, !.off = off]
      BY <1>5, <2>3
    <3> HIDE DEF ms, n, off
    <3>2. PICK e : e = elf[i]
      OBVIOUS
    <3>3. ASSUME NEW w, NEW x PROVE Aside([e EXCEPT !.members = w, !.count = n, !.off = x], e)
      BY <2>1, <3>2, AsideIs
    <3>4. Aside([e EXCEPT !.members = ms, !.count = n, !.off = off], e)
      BY <3>3
    <3> QED BY <2>1, <2>3, <3>1, <3>2, <3>4, AsideKept
  <2> QED BY <2>2, <2>3
<1> DEFINE more == [i \in Live' |-> IF i = Fresh THEN {"elf", "arhdr"} ELSE {}]
<1>7. ASSUME NEW i \in Live'
      PROVE  /\ IF i \in Live THEN Kept(elf'[i], elf[i]) ELSE Joins(elf'[i])
             /\ Owns(elf'[i]) = more[i] \cup IF i \in Live THEN Owns(elf[i]) ELSE {}
  <2>1. CASE i \in Live
    BY <1>4, <1>6, <2>1
  <2>2. CASE i = Fresh
    <3>1. Joins(d)
      BY <1>2, <1>3, <1>5 DEF Joins
    <3> QED BY <1>3, <1>4, <1>5, <2>2, <3>1
  <2> QED BY <1>5, <2>1, <2>2
<1>8. heap' = heap \cup UNION {Of(i, more[i]) : i \in Live'}
  <2>1. \A i \in Live : Of(i, more[i]) = {}
    BY <1>4, <1>5 DEF Of
  <2>2. Of(Fresh, more[Fresh]) = {<<Fresh, "elf">>, <<Fresh, "arhdr">>}
    BY <1>5 DEF Of
  <2> HIDE DEF more
  <2>3. UNION {Of(i, more[i]) : i \in Live \cup {Fresh}} = {<<Fresh, "elf">>, <<Fresh, "arhdr">>}
    BY <2>1, <2>2
  <2> QED BY <1>2, <1>5, <2>3
<1> HIDE DEF more
<1> QED BY <1>2, <1>5, <1>7, <1>8, Grows

(* elf_begin(), whatever it is called with. *)
LEMMA BeginShares ==
    ASSUME SharingInv, DescriptorsInv', NEW fd \in Fds, NEW cmd, NEW ref \in Live,
           ElfBegin(fd, cmd, ref)
    PROVE  SharingInv'
<1>1. ASSUME NEW id \in Live, elf' = [elf EXCEPT ![id].count = @ + 1],
             UNCHANGED <<file, heap, faults>>
      PROVE  SharingInv'
  <2> DEFINE n == elf[id].count + 1
  <2>1. elf' = [elf EXCEPT ![id] = [elf[id] EXCEPT !.count = n]]
    BY <1>1, Typed
  <2> HIDE DEF n
  <2>2. Aside([elf[id] EXCEPT !.count = n], elf[id])
    BY Typed, AsideIs
  <2> QED BY <1>1, <2>1, <2>2, AsideShares
<1>2. CASE BeginSame(fd, cmd, ref)
  BY <1>1, <1>2 DEF BeginSame
<1>3. CASE BeginAgain(fd, ref)
  <2> DEFINE base == elf[ref].base + elf[ref].off + ArHdr
             id   == Opened(ref, base)
  <2>1. /\ id # Null /\ elf' = [elf EXCEPT ![id].count = @ + 1]
        /\ UNCHANGED <<file, heap, faults>>
    BY <1>3 DEF BeginAgain
  <2>2. id \in Live
    <3> HIDE DEF base
    <3>1. id \in {m \in Range(elf[ref].members) : elf[m].base = base}
      BY <2>1 DEF Opened
    <3> QED BY <3>1, Typed DEF DescriptorsInv, CountsReferences
  <2> HIDE DEF id
  <2> QED BY <1>1, <2>1, <2>2
<1>4. CASE BeginRefused(fd, cmd, ref)
  BY <1>4, SameShares DEF BeginRefused, Same, vars
<1>5. CASE BeginMember(fd, ref)
  BY <1>5, MemberShares
<1>6. CASE BeginNoMemory(fd, ref)
  <2>1. heap' = heap \cup {<<Null, "arhdr">>} /\ UNCHANGED <<file, elf, faults>>
    BY <1>6 DEF BeginNoMemory
  <2>2. heap' \ {<<Null, "arhdr">>} = heap \ {<<Null, "arhdr">>}
    BY <2>1
  <2> QED BY <2>1, <2>2, SameShares
<1> QED BY <1>2, <1>3, <1>4, <1>5, <1>6 DEF ElfBegin

(* Before the first call there is nothing. *)
LEMMA InitShares == Init => SharingInv
<1> SUFFICES ASSUME Init PROVE SharingInv
  OBVIOUS
<1>1. Live = {} /\ elf = [id \in {} |-> InitElf] /\ heap = {} /\ ~faults
  BY DEF Init, Live
<1>2. Sharing
  BY <1>1 DEF Sharing
<1>3. RootsExist
  <2>1. PICK root : root = [i \in {} |-> 0]
    OBVIOUS
  <2>2. root \in [Live -> Ids] /\ Roots(root)
    BY <1>1, <2>1 DEF Roots
  <2> QED BY <2>2 DEF RootsExist
<1>4. NothingLeaks
  BY <1>1 DEF NothingLeaks
<1> QED BY <1>2, <1>3, <1>4, InitInv DEF SharingInv

(* Every call keeps the invariant. *)
LEMMA NextShares == SharingInv /\ [Next]_vars => SharingInv'
<1> SUFFICES ASSUME SharingInv, [Next]_vars PROVE SharingInv'
  OBVIOUS
<1>1. DescriptorsInv'
  BY NextKeepsInv DEF SharingInv
<1>2. CASE UNCHANGED vars
  BY <1>1, <1>2, SameShares DEF vars
<1>3. CASE \/ \E cmd \in Commands : BeginFile(FirstFd, cmd)
           \/ BeginNew(FirstFd) \/ ElfMemory
  BY <1>1, <1>3, OpenShares
<1>4. ASSUME NEW id \in Live, NEW fd \in Fds, NEW cmd \in Commands, ElfBegin(fd, cmd, id)
      PROVE  SharingInv'
  BY <1>1, <1>4, BeginShares
<1>5. ASSUME NEW id \in Live, ElfNext(id) \/ \E offset \in Offsets : ElfRand(id, offset)
      PROVE  SharingInv'
  BY <1>1, <1>5, PositionShares
<1>6. ASSUME NEW id \in Live, NEW cmd \in {"FDREAD", "FDDONE"}, ElfCntl(id, cmd)
      PROVE  SharingInv'
  BY <1>1, <1>6, CntlShares
<1>7. ASSUME NEW id \in Live, ElfEnd(id)
      PROVE  SharingInv'
  BY <1>1, <1>7, EndShares
<1>8. ASSUME NEW id \in Live, ElfGetident(id) \/ ElfGetdata(id)
      PROVE  SharingInv'
  BY <1>1, <1>8, ReadShares
<1>9. ASSUME NEW id \in Live, ElfRawfile(id) \/ ElfGetarsym(id)
      PROVE  SharingInv'
  BY <1>1, <1>9, RawShares, ArsymShares
<1> QED BY <1>2, <1>3, <1>4, <1>5, <1>6, <1>7, <1>8, <1>9 DEF Next

(***************************************************************************)
(* What descriptors share, for every file: a member lies inside of its     *)
(* archive and is frozen when it is an ELF file, so that only a descriptor *)
(* that shares its image with none translates data where it is; and each   *)
(* live allocation is a piece of one descriptor, which has it (begin.c,    *)
(* getdata.c, end.c).                                                      *)
(***************************************************************************)
THEOREM SharingInvariant == Spec => []SharingInv
BY InitShares, NextShares, PTL DEF Spec

(* elf_end() frees all that the calls on a descriptor allocated, once, and nothing that
   another uses (end.c:101-117). *)
THEOREM EndFreesItsOwn == Spec => []NothingLeaks
BY SharingInvariant, PTL DEF SharingInv

Lt == OpToRel(<, Nat)

(* The least of the numbers that a non-empty set of descriptors is at. *)
LEMMA LeastBase ==
    ASSUME NEW T, T # {}, NEW f, \A i \in T : f[i] \in Nat
    PROVE  \E k \in T : \A m \in T : f[k] <= f[m]
<1> DEFINE B == {f[i] : i \in T}
<1>1. B \subseteq Nat /\ B # {}
  OBVIOUS
<1> HIDE DEF B
<1>2. PICK b \in B : \A c \in B : <<c, b>> \notin Lt
  BY <1>1, NatLessThanWellFounded, WFMin DEF Lt
<1>3. \A c \in B : ~(c < b)
  BY <1>1, <1>2 DEF Lt, OpToRel
<1>4. PICK k \in T : b = f[k]
  BY DEF B
<1>5. \A m \in T : ~(f[m] < f[k])
  BY <1>3, <1>4 DEF B
<1> QED BY <1>5

(* The upper end of the chain, as RawIsRaw has it. *)
LEMMA RootIs ==
    ASSUME RootsExist, NEW id \in Live
    PROVE  Root[id] = IF elf[id].parent = Null THEN id ELSE Root[elf[id].parent]
<1> DEFINE F(g) == [i \in Live |-> IF elf[i].parent = Null THEN i ELSE g[elf[i].parent]]
<1>1. PICK root \in [Live -> Ids] : Roots(root)
  BY DEF RootsExist
<1>2. root = F(root)
  BY <1>1 DEF Roots
<1>3. Root = CHOOSE g : g = F(g)
  BY DEF Root
<1> HIDE DEF F
<1>4. Root = F(Root)
  BY <1>2, <1>3
<1> QED BY <1>4 DEF F

(***************************************************************************)
(* Raw data stays the bytes of the file: what elf_rawfile() returned is in *)
(* no image that a call translates (rawfile.c:42-52, getdata.c:68-87).     *)
(***************************************************************************)
THEOREM RawStaysRaw == Spec => []RawIsRaw
<1>1. SharingInv => RawIsRaw
  <2> SUFFICES ASSUME SharingInv, NEW a \in Live, NEW b \in Live, elf[a].raw = "data",
                      Root[a] = Root[b], elf[b].cooked
               PROVE  FALSE
    BY DEF RawIsRaw
  <2>1. /\ elf[b].parent = Null /\ elf[b].kind = "elf" /\ elf[b].raw # "data"
        /\ \A i \in Live : elf[i].parent # Null => elf[elf[i].parent].kind = "ar"
    BY DEF SharingInv, Sharing
  <2>2. \A i \in Live : Root[i] = IF elf[i].parent = Null THEN i ELSE Root[elf[i].parent]
    BY RootIs DEF SharingInv
  <2> DEFINE Under == {i \in Live : Root[i] = b /\ i # b}
             base == [i \in Live |-> elf[i].base]
  <2>3. a \in Under
    BY <2>1, <2>2
  <2>4. \A i \in Live : base[i] \in Nat
    BY Typed DEF Descriptor
  <2>5. PICK k \in Under : \A m \in Under : base[k] <= base[m]
    <3> HIDE DEF base
    <3>1. \A i \in Under : base[i] \in Nat
      BY <2>4
    <3> HIDE DEF Under
    <3> QED BY <2>3, <3>1, LeastBase
  <2>6. /\ elf[k].parent # Null /\ elf[k].parent \in Live /\ Root[elf[k].parent] = b
        /\ elf[elf[k].parent].base < elf[k].base
    BY <2>2, <2>5, Typed DEF DescriptorsInv, DescriptorsTypeOK, Above
  <2>7. elf[k].parent = b
    <3>1. elf[k].parent \notin Under
      <4>1. base[elf[k].parent] < base[k] /\ base[k] \in Nat /\ base[elf[k].parent] \in Nat
        BY <2>4, <2>6
      <4> HIDE DEF Under, base
      <4> QED BY <2>5, <4>1
    <3> QED BY <2>6, <3>1
  <2> QED BY <2>1, <2>6, <2>7
<1> QED BY <1>1, SharingInvariant, PTL

(***************************************************************************)
(* What elf_getaroff() says of an open member is where elf_rand() goes for *)
(* elf_begin() to open it again, whatever was called since                 *)
(* (getaroff.c:38-39, rand.c:35-40).                                       *)
(***************************************************************************)
THEOREM AroffReturns == Spec => []AroffLeadsBack
<1>1. SharingInv => AroffLeadsBack
  <2> SUFFICES ASSUME SharingInv, NEW id \in Live, elf[id].parent # Null
               PROVE  LET m == elf[id]
                          r == [elf[m.parent] EXCEPT !.off = Aroff(m)]
                      IN  /\ m.base + m.size <= r.base + r.size
                          /\ Arhdr(r) = "none"
                          /\ Opened(m.parent, r.base + r.off + ArHdr) = id
    BY DEF AroffLeadsBack
  <2> DEFINE m == elf[id]
             p == m.parent
             off == Aroff(m)
             r == [elf[p] EXCEPT !.off = off]
  <2>1. /\ DescriptorsInv /\ p \in Live /\ p # Null
        /\ m \in Descriptor /\ elf[p] \in Descriptor /\ m.base \in Nat /\ elf[p].base \in Nat
    BY Typed DEF DescriptorsInv, DescriptorsTypeOK, Descriptor
  <2>2. InArchive(file, m, elf[p])
    BY DEF SharingInv, Sharing
  <2>3. off = m.base - elf[p].base - ArHdr
    BY DEF Aroff
  <2>4. r.base = elf[p].base /\ r.size = elf[p].size /\ r.off = off
    <3> HIDE DEF off, p
    <3> QED BY <2>1 DEF Descriptor
  <2>5. m.base + m.size <= r.base + r.size
    BY <2>2, <2>4 DEF InArchive
  <2>6. Arhdr(r) = "none"
    <3>1. ArhdrOf(file, elf[p].base, elf[p].size, off) = "none"
      BY <2>2, <2>3 DEF InArchive
    <3> HIDE DEF r, off, p
    <3> QED BY <2>4, <3>1, ArhdrIs
  <2>7. r.base + r.off + ArHdr = m.base
    <3> HIDE DEF r, off, m, p
    <3> QED BY <2>1, <2>3, <2>4 DEF ArHdr
  <2>8. Opened(p, m.base) = id
    <3> DEFINE same == {i \in Range(elf[p].members) : elf[i].base = m.base}
    <3>1. Range(elf[p].members) = {i \in Live : elf[i].parent = p}
      BY <2>1 DEF DescriptorsInv, CountsReferences
    <3>2. same = {id}
      <4>1. \A i \in same : i = id
        BY <2>1, <3>1 DEF DescriptorsInv, OneDescriptorPerMember
      <4>2. id \in same
        BY <3>1
      <4> QED BY <4>1, <4>2
    <3>3. Opened(p, m.base) = CHOOSE i \in same : TRUE
      BY <3>2 DEF Opened
    <3> QED BY <3>2, <3>3
  <2> QED BY <2>5, <2>6, <2>7, <2>8
<1> QED BY <1>1, SharingInvariant, PTL

-----------------------------------------------------------------------------
(* The step of elf_cntl() over the members of an archive, when g is what it does with a
   descriptor, and with that what it does with the archive. *)
Member(g, acc, m) ==
    IF ~acc.ok THEN acc
    ELSE [reached  |-> acc.reached \cup g[m].reached,
          disabled |-> acc.disabled \cup g[m].disabled,
          ok       |-> g[m].ok]

(* Of a fold so far: what is disabled was reached, with it its members, and, unless one
   failed, the elements so far. *)
Closes(v) ==
    /\ v.disabled \subseteq v.reached /\ v.reached \subseteq Live
    /\ \A m \in Live : elf[m].parent \in v.disabled => elf[m].disabled \/ m \in v.disabled

ClosesAll(g, seq, n, acc) ==
    /\ Closes(acc)
    /\ acc.ok => \A k \in 1 .. n : elf[seq[k]].disabled \/ seq[k] \in acc.disabled

V == INSTANCE FoldProofs WITH Op <- Member, Inv <- ClosesAll

NoneVisited == [reached |-> {}, disabled |-> {}, ok |-> TRUE]

Below(g, members) == V!Fold(g, NoneVisited, members)

Fine(cmd, d, b) == IF d.kind = "elf" /\ cmd = "FDREAD" THEN AllRead(d).ok ELSE b.ok

Visit(cmd, g, i) ==
    IF elf[i].disabled THEN NoneVisited
    ELSE [reached  |-> Below(g, elf[i].members).reached \cup {i},
          disabled |-> Below(g, elf[i].members).disabled
                       \cup (IF Fine(cmd, elf[i], Below(g, elf[i].members)) THEN {i} ELSE {}),
          ok       |-> Fine(cmd, elf[i], Below(g, elf[i].members))]

Visits(cmd, g) == [i \in Live |-> Visit(cmd, g, i)]

(* The model's recursive function, by these names. *)
LEMMA DisablingIs ==
    ASSUME NEW id, NEW cmd
    PROVE  Disabling(id, cmd) = (CHOOSE g : g = Visits(cmd, g))[id]
BY DEF Disabling, Visits, Visit, Fine, Below, Member, NoneVisited, V!Fold, FoldLeft, MapThenFoldSet,
       Max, V!FoldLeft, V!MapThenFoldSet, V!Max

(* The open members of an archive are smaller than it, which is what ends the recursion. *)
LEMMA MembersAre ==
    ASSUME SharingInv, NEW i \in Live, NEW s, s = elf[i].members
    PROVE  /\ Len(s) \in Nat /\ DOMAIN s = 1 .. Len(s)
           /\ \A k \in 1 .. Len(s) :
                  s[k] \in Live /\ elf[s[k]].parent = i /\ elf[s[k]].size < elf[i].size
           /\ \A m \in Live : elf[m].parent = i =>
                  elf[i].kind = "ar" /\ \E k \in 1 .. Len(s) : s[k] = m
<1>1. s \in Seq(Ids)
  BY Typed DEF Descriptor
<1>2. Len(s) \in Nat /\ DOMAIN s = 1 .. Len(s)
  BY <1>1, LenProperties
<1>3. Range(s) = {m \in Live : elf[m].parent = i}
  BY DEF SharingInv, DescriptorsInv, CountsReferences
<1>4. \A k \in 1 .. Len(s) : s[k] \in Range(s)
  BY <1>2 DEF Range
<1>5. \A m \in Range(s) : \E k \in 1 .. Len(s) : s[k] = m
  BY <1>2 DEF Range
<1>6. i # Null
  BY DEF SharingInv, DescriptorsInv, DescriptorsTypeOK, Ids
<1>7. ASSUME NEW m \in Live, elf[m].parent = i
      PROVE  elf[i].kind = "ar" /\ elf[m].size < elf[i].size
  <2>1. elf[i].kind = "ar" /\ InArchive(file, elf[m], elf[i])
    BY <1>6, <1>7 DEF SharingInv, Sharing
  <2>2. /\ elf[m].size \in Nat /\ elf[m].base \in Nat
        /\ elf[i].size \in Nat /\ elf[i].base \in Nat
    BY Typed DEF Descriptor
  <2>3. /\ elf[i].base + ArHdr <= elf[m].base
        /\ elf[m].base + elf[m].size <= elf[i].base + elf[i].size
    BY <2>1 DEF InArchive
  <2> QED BY <2>1, <2>2, <2>3 DEF ArHdr
<1> QED BY <1>2, <1>3, <1>4, <1>5, <1>7

(* What elf_cntl() does with a descriptor depends on smaller ones only. *)
LEMMA VisitAgrees ==
    ASSUME SharingInv, NEW cmd, NEW g, NEW h, NEW i \in Live,
           \A m \in Live : elf[m].size < elf[i].size => g[m] = h[m]
    PROVE  Visit(cmd, g, i) = Visit(cmd, h, i)
<1>1. PICK s : s = elf[i].members
  OBVIOUS
<1>2. PICK n : n = Len(s)
  OBVIOUS
<1>3. /\ n \in Nat /\ DOMAIN s = 1 .. n
      /\ \A k \in 1 .. n : s[k] \in Live /\ elf[s[k]].size < elf[i].size
  BY <1>1, <1>2, MembersAre
<1>4. \A k \in 1 .. n : \A acc : Member(g, acc, s[k]) = Member(h, acc, s[k])
  <2>1. \A k \in 1 .. n : g[s[k]] = h[s[k]]
    BY <1>3
  <2> QED BY <2>1 DEF Member
<1>5. \A base : V!Fold(g, base, s) = V!Fold(h, base, s)
  BY <1>3, <1>4, V!FoldAgrees
<1>6. V!Fold(g, NoneVisited, s) = V!Fold(h, NoneVisited, s)
  BY <1>5
<1>7. Below(g, s) = Below(h, s)
  BY <1>6 DEF Below
<1> QED BY <1>1, <1>7 DEF Visit

(* Finitely many descriptors have sizes below some bound. *)
LEMMA SizesBounded ==
    ASSUME SharingInv
    PROVE  \E b \in Nat : \A i \in Live : elf[i].size < b
<1> DEFINE Bounded(k) == \E b \in Nat : \A i \in Live : i <= k => elf[i].size < b
           Bad == {k \in 0 .. MaxElfs : ~Bounded(k)}
<1>1. MaxElfs \in Nat /\ \A i \in Live : i \in 1 .. MaxElfs /\ elf[i].size \in Nat
  BY Typed, BoundsAssumption DEF SharingInv, DescriptorsInv, DescriptorsTypeOK, Descriptor, Ids
<1>2. SUFFICES ASSUME Bad # {} PROVE FALSE
  <2>1. Bounded(MaxElfs)
    <3> HIDE DEF Bounded
    <3>1. MaxElfs \in 0 .. MaxElfs
      BY <1>1
    <3> QED BY <1>2, <3>1
  <2>2. PICK b \in Nat : \A i \in Live : i <= MaxElfs => elf[i].size < b
    BY <2>1
  <2> QED BY <1>1, <2>2
<1>3. PICK k \in Bad : \A m \in Bad : k <= m
  <2>1. \A i \in Bad : [j \in Bad |-> j][i] \in Nat
    BY <1>1
  <2> HIDE DEF Bad
  <2>2. PICK f : f = [j \in Bad |-> j]
    OBVIOUS
  <2>3. PICK k \in Bad : \A m \in Bad : f[k] <= f[m]
    BY <1>2, <2>1, <2>2, LeastBase
  <2> QED BY <2>2, <2>3
<1>4. k # 0
  BY <1>1
<1>5. k \in 1 .. MaxElfs /\ k - 1 \in 0 .. MaxElfs /\ ~(k <= k - 1)
  BY <1>1, <1>3, <1>4
<1>6. k - 1 \notin Bad
  BY <1>3, <1>5
<1>7. PICK b \in Nat : \A i \in Live : i <= k - 1 => elf[i].size < b
  <2>1. Bounded(k - 1)
    <3> HIDE DEF Bounded
    <3> QED BY <1>5, <1>6
  <2> QED BY <2>1
<1>8. ASSUME k \notin Live PROVE FALSE
  <2>1. \A i \in Live : i <= k => i <= k - 1
    BY <1>1, <1>5, <1>8
  <2> QED BY <1>3, <1>7, <2>1
<1>9. CASE k \in Live
  <2> DEFINE top == b + elf[k].size + 1
  <2>1. top \in Nat /\ b <= top /\ elf[k].size < top
    BY <1>1, <1>9
  <2> HIDE DEF top
  <2>2. \A i \in Live : i <= k => i <= k - 1 \/ i = k
    BY <1>1, <1>5
  <2>3. \A i \in Live : i <= k => elf[i].size < top
    BY <1>1, <1>7, <2>1, <2>2
  <2> QED BY <1>3, <2>1, <2>3
<1> QED BY <1>8, <1>9

(* There is a function that elf_cntl() computes: its values for descriptors below a size
   give those for that size. *)
LEMMA VisitsExist ==
    ASSUME SharingInv, NEW cmd
    PROVE  \E g : g = Visits(cmd, g)
<1> DEFINE Solves(g, n) == \A i \in Live : elf[i].size < n => g[i] = Visit(cmd, g, i)
           Bad == {n \in Nat : ~\E g : Solves(g, n)}
<1>0. \A i \in Live : elf[i].size \in Nat
  BY Typed DEF Descriptor
<1>1. ASSUME Bad # {} PROVE FALSE
  <2>1. PICK k \in Bad : \A m \in Bad : k <= m
    <3>1. \A i \in Bad : [j \in Bad |-> j][i] \in Nat
      OBVIOUS
    <3> HIDE DEF Bad
    <3>2. PICK f : f = [j \in Bad |-> j]
      OBVIOUS
    <3>3. PICK k \in Bad : \A m \in Bad : f[k] <= f[m]
      BY <1>1, <3>1, <3>2, LeastBase
    <3> QED BY <3>2, <3>3
  <2>2. k # 0
    <3>1. Solves([i \in Live |-> NoneVisited], 0)
      BY <1>0
    <3> HIDE DEF Solves
    <3> QED BY <3>1
  <2>3. k - 1 \in Nat /\ ~(k <= k - 1)
    BY <2>2
  <2>4. PICK g : Solves(g, k - 1)
    <3> HIDE DEF Solves
    <3> QED BY <2>1, <2>3
  <2>5. PICK h : h = [i \in Live |-> IF elf[i].size < k - 1 THEN g[i] ELSE Visit(cmd, g, i)]
    OBVIOUS
  <2>6. ASSUME NEW i \in Live, elf[i].size < k
        PROVE  h[i] = Visit(cmd, h, i)
    <3>1. \A m \in Live : elf[m].size < elf[i].size => h[m] = g[m]
      BY <1>0, <2>3, <2>5, <2>6
    <3>2. Visit(cmd, h, i) = Visit(cmd, g, i)
      BY <3>1, VisitAgrees
    <3>3. h[i] = Visit(cmd, g, i)
      BY <2>4, <2>5
    <3> QED BY <3>2, <3>3
  <2>7. Solves(h, k)
    BY <2>6
  <2> HIDE DEF Solves
  <2> QED BY <2>1, <2>7
<1>2. PICK b \in Nat : \A i \in Live : elf[i].size < b
  BY SizesBounded
<1>3. PICK g : Solves(g, b)
  <2> HIDE DEF Solves
  <2> QED BY <1>1, <1>2
<1>4. PICK h : h = [i \in Live |-> g[i]]
  OBVIOUS
<1>5. ASSUME NEW i \in Live
      PROVE  h[i] = Visit(cmd, h, i)
  <2>1. \A m \in Live : h[m] = g[m]
    BY <1>4
  <2>2. Visit(cmd, h, i) = Visit(cmd, g, i)
    BY <2>1, VisitAgrees
  <2> QED BY <1>2, <1>3, <2>1, <2>2
<1>6. h = Visits(cmd, h)
  BY <1>4, <1>5 DEF Visits
<1> QED BY <1>6

(* So Disabling() is what its equation says. *)
LEMMA DisablingVisits ==
    ASSUME SharingInv, NEW cmd
    PROVE  \E g : /\ \A i \in Live : g[i] = Visit(cmd, g, i)
                  /\ \A i \in Live : Disabling(i, cmd) = g[i]
<1>1. PICK g : g = (CHOOSE f : f = Visits(cmd, f))
  OBVIOUS
<1>2. g = Visits(cmd, g)
  BY <1>1, VisitsExist
<1>3. \A i \in Live : g[i] = Visit(cmd, g, i)
  BY <1>2 DEF Visits
<1>4. \A i \in Live : Disabling(i, cmd) = g[i]
  BY <1>1, DisablingIs
<1> QED BY <1>3, <1>4

(* What elf_cntl() disables is closed under members, and without a failure it has the
   descriptor itself. *)
Settles(v, i) == Closes(v) /\ (v.ok => elf[i].disabled \/ i \in v.disabled)

(* So it is for a descriptor when it is for smaller ones. *)
LEMMA VisitCloses ==
    ASSUME SharingInv, NEW cmd, NEW g, NEW i \in Live,
           \A m \in Live : elf[m].size < elf[i].size => Settles(g[m], m)
    PROVE  Settles(Visit(cmd, g, i), i)
<1>1. PICK s : s = elf[i].members
  OBVIOUS
<1>2. PICK n : n = Len(s)
  OBVIOUS
<1>3. /\ n \in Nat /\ DOMAIN s = 1 .. n
      /\ \A k \in 1 .. n : s[k] \in Live /\ elf[s[k]].size < elf[i].size
      /\ \A m \in Live : elf[m].parent = i => elf[i].kind = "ar" /\ \E k \in 1 .. n : s[k] = m
  BY <1>1, <1>2, MembersAre
<1>4. \A k \in 1 .. n : Settles(g[s[k]], s[k])
  BY <1>3
<1>5. ClosesAll(g, s, 0, NoneVisited)
  <2>1. 1 .. 0 = {}
    OBVIOUS
  <2>2. Null \notin Live /\ \A m \in Live : elf[m].parent \notin {}
    BY DEF SharingInv, DescriptorsInv, DescriptorsTypeOK, Ids
  <2> QED BY <2>1, <2>2 DEF ClosesAll, Closes, NoneVisited
<1>6. ASSUME NEW k \in 1 .. n, NEW acc, ClosesAll(g, s, k - 1, acc)
      PROVE  ClosesAll(g, s, k, Member(g, acc, s[k]))
  <2>1. CASE ~acc.ok
    <3>1. Member(g, acc, s[k]) = acc
      BY <2>1 DEF Member
    <3> QED BY <1>6, <2>1, <3>1 DEF ClosesAll
  <2>2. CASE acc.ok
    <3> DEFINE v == g[s[k]]
    <3>1. PICK w : w = Member(g, acc, s[k])
      OBVIOUS
    <3>2. /\ w.reached = acc.reached \cup v.reached /\ w.disabled = acc.disabled \cup v.disabled
          /\ w.ok = v.ok
      BY <2>2, <3>1 DEF Member
    <3>3. Settles(v, s[k])
      BY <1>4
    <3> HIDE DEF v
    <3>4. Closes(w)
      BY <1>6, <3>2, <3>3 DEF ClosesAll, Settles, Closes
    <3>5. ASSUME w.ok, NEW j \in 1 .. k
          PROVE  elf[s[j]].disabled \/ s[j] \in w.disabled
      <4>1. CASE j = k
        BY <3>2, <3>3, <3>5, <4>1 DEF Settles
      <4>2. CASE j # k
        <5>1. j \in 1 .. k - 1
          BY <1>3, <4>2
        <5> QED BY <1>6, <2>2, <3>2, <5>1 DEF ClosesAll
      <4> QED BY <4>1, <4>2
    <3> QED BY <3>1, <3>4, <3>5 DEF ClosesAll
  <2> QED BY <2>1, <2>2
<1>7. PICK b : b = Below(g, s)
  OBVIOUS
<1>8. ClosesAll(g, s, n, b)
  <2>1. ClosesAll(g, s, n, V!Fold(g, NoneVisited, s))
    BY <1>3, <1>5, <1>6, V!FoldInvariant
  <2> QED BY <1>7, <2>1 DEF Below
<1>9. CASE elf[i].disabled
  <2>1. Visit(cmd, g, i) = NoneVisited
    BY <1>9 DEF Visit
  <2> QED BY <1>5, <1>9, <2>1 DEF ClosesAll, Settles
<1>10. CASE ~elf[i].disabled
  <2>1. PICK v : v = Visit(cmd, g, i)
    OBVIOUS
  <2>2. PICK ok : ok = Fine(cmd, elf[i], b)
    OBVIOUS
  <2>3. /\ v.reached = b.reached \cup {i} /\ v.ok = ok
        /\ v.disabled = b.disabled \cup (IF ok THEN {i} ELSE {})
    BY <1>1, <1>7, <1>10, <2>1, <2>2 DEF Visit
  <2>4. ASSUME ok, NEW m \in Live, elf[m].parent = i
        PROVE  elf[m].disabled \/ m \in b.disabled
    <3>1. elf[i].kind = "ar" /\ \E k \in 1 .. n : s[k] = m
      BY <1>3, <2>4
    <3>2. b.ok
      BY <2>2, <2>4, <3>1 DEF Fine
    <3> QED BY <1>8, <3>1, <3>2 DEF ClosesAll
  <2>5. Closes(b)
    BY <1>8 DEF ClosesAll
  <2>6. Closes(v)
    BY <2>3, <2>4, <2>5 DEF Closes
  <2>7. v.ok => i \in v.disabled
    BY <2>3
  <2> QED BY <2>1, <2>6, <2>7 DEF Settles
<1> QED BY <1>9, <1>10

(* Hence for all. *)
LEMMA DisablingCloses ==
    ASSUME SharingInv, NEW cmd, NEW id \in Live
    PROVE  Closes(Disabling(id, cmd))
<1>1. PICK g : /\ \A i \in Live : g[i] = Visit(cmd, g, i)
               /\ \A i \in Live : Disabling(i, cmd) = g[i]
  BY DisablingVisits
<1> DEFINE Bad == {i \in Live : ~Settles(g[i], i)}
<1>2. ASSUME Bad # {} PROVE FALSE
  <2>1. PICK f : f = [i \in Bad |-> elf[i].size]
    OBVIOUS
  <2>2. \A i \in Bad : f[i] \in Nat
    BY <2>1, Typed DEF Descriptor
  <2>3. PICK k \in Bad : \A m \in Bad : f[k] <= f[m]
    <3> HIDE DEF Bad
    <3> QED BY <1>2, <2>2, LeastBase
  <2>4. \A m \in Live : elf[m].size < elf[k].size => Settles(g[m], m)
    <3>1. \A m \in Live : elf[m].size \in Nat
      BY Typed DEF Descriptor
    <3>2. \A m \in Bad : ~(elf[m].size < elf[k].size)
      BY <2>1, <2>3, <3>1
    <3> QED BY <3>2
  <2>5. Settles(Visit(cmd, g, k), k)
    BY <2>3, <2>4, VisitCloses
  <2> QED BY <1>1, <2>3, <2>5
<1> QED BY <1>1, <1>2 DEF Settles

-----------------------------------------------------------------------------
(* The third strengthened invariant. *)
TogetherInv == SharingInv /\ DisabledTogether

(* What DisabledTogether depends on. *)
SameSwitch(d, e) == d.parent = e.parent /\ d.disabled = e.disabled

(* Descriptors that stay as they are, and members that take after their archives. *)
LEMMA SwitchesStay ==
    ASSUME TogetherInv, DescriptorsInv',
           \A i \in Live' \cap Live : SameSwitch(elf'[i], elf[i]),
           \A i \in Live' \ Live : elf'[i].parent # Null =>
               elf'[i].parent \in Live /\ elf'[i].disabled = elf[elf'[i].parent].disabled
    PROVE  DisabledTogether'
<1> SUFFICES ASSUME NEW i \in Live', elf'[i].parent # Null, elf'[elf'[i].parent].disabled
             PROVE  elf'[i].disabled
  BY DEF DisabledTogether
<1>1. PICK p : p = elf'[i].parent
  OBVIOUS
<1>2. p \in Live'
  BY <1>1 DEF DescriptorsInv, DescriptorsTypeOK
<1>3. CASE i \in Live
  <2>1. elf[i].parent = p /\ elf'[i].disabled = elf[i].disabled
    BY <1>1, <1>3 DEF SameSwitch
  <2>2. p \in Live
    BY <1>1, <1>3, <2>1 DEF TogetherInv, SharingInv, DescriptorsInv, DescriptorsTypeOK
  <2>3. elf[p].disabled
    BY <1>1, <1>2, <2>2 DEF SameSwitch
  <2> QED BY <1>1, <1>3, <2>1, <2>3 DEF TogetherInv, DisabledTogether
<1>4. CASE i \notin Live
  BY <1>1, <1>2, <1>4 DEF SameSwitch
<1> QED BY <1>3, <1>4

(* One descriptor changes, but for its switch. *)
LEMMA OneSwitch ==
    ASSUME TogetherInv, DescriptorsInv', NEW id \in Live, NEW d, SameSwitch(d, elf[id]),
           elf' = [elf EXCEPT ![id] = d]
    PROVE  DisabledTogether'
<1>1. DOMAIN elf = Live /\ Live' = Live
  BY DEF Live
<1>2. \A i \in Live : elf'[i] = IF i = id THEN d ELSE elf[i]
  BY <1>1
<1>3. \A i \in Live : SameSwitch(elf[i], elf[i])
  BY DEF SameSwitch
<1> QED BY <1>1, <1>2, <1>3, SwitchesStay

(* None does. *)
LEMMA NoSwitch ==
    ASSUME TogetherInv, DescriptorsInv', elf' = elf
    PROVE  DisabledTogether'
<1>1. Live' = Live /\ \A i \in Live : SameSwitch(elf'[i], elf[i])
  BY DEF Live, SameSwitch
<1> QED BY <1>1, SwitchesStay

(* The fields that calls change one at a time. *)
LEMMA FieldSwitch ==
    ASSUME NEW e \in Descriptor, NEW v
    PROVE  /\ SameSwitch([e EXCEPT !.count = v], e) /\ SameSwitch([e EXCEPT !.off = v], e)
           /\ SameSwitch([e EXCEPT !.raw = v], e) /\ SameSwitch([e EXCEPT !.syms = v], e)
           /\ \A w : SameSwitch([e EXCEPT !.count = v, !.members = w], e)
           /\ \A w, x : SameSwitch([e EXCEPT !.members = w, !.count = v, !.off = x], e)
<1>1. SameSwitch([e EXCEPT !.count = v], e) /\ SameSwitch([e EXCEPT !.off = v], e)
  BY DEF SameSwitch, Descriptor
<1>2. SameSwitch([e EXCEPT !.raw = v], e) /\ SameSwitch([e EXCEPT !.syms = v], e)
  BY DEF SameSwitch, Descriptor
<1>3. \A w : SameSwitch([e EXCEPT !.count = v, !.members = w], e)
  BY DEF SameSwitch, Descriptor
<1>4. \A w, x : SameSwitch([e EXCEPT !.members = w, !.count = v, !.off = x], e)
  BY DEF SameSwitch, Descriptor
<1> QED BY <1>1, <1>2, <1>3, <1>4

(* Reading a file does not touch it. *)
LEMMA ReadSwitch ==
    ASSUME NEW e \in Descriptor
    PROVE  SameSwitch(Cooked(e).d, e) /\ SameSwitch(AllRead(e).d, e)
<1> DEFINE c == Cooked(e).d
<1>1. SameSwitch(c, e) /\ DOMAIN c = DOMAIN e
  <2>1. CASE e.ehdr
    BY <2>1 DEF Cooked, SameSwitch
  <2>2. CASE ~e.ehdr
    <3>1. c = [e EXCEPT !.ehdr = (file.at[e.base].cooks # "nothing"),
                        !.tables = (file.at[e.base].cooks \in {"all", "sections"})]
      BY <2>2 DEF Cooked
    <3> QED BY <3>1 DEF SameSwitch, Descriptor
  <2> QED BY <2>1, <2>2
<1>2. AllRead(e).d = c \/ AllRead(e).d = DataRead(c).d
  BY DEF AllRead
<1> HIDE DEF c
<1>3. SameSwitch(DataRead(c).d, c)
  <2>1. DataRead(c).d = c \/ \E x : DataRead(c).d = [c EXCEPT !.loaded = TRUE, !.cooked = x]
    BY DEF DataRead
  <2>2. \A x : SameSwitch([c EXCEPT !.loaded = TRUE, !.cooked = x], c)
    BY DEF SameSwitch
  <2> QED BY <2>1, <2>2 DEF SameSwitch
<1> QED BY <1>1, <1>2, <1>3 DEF SameSwitch, c

(* elf_cntl(): what it disables has its members disabled. *)
LEMMA CntlSwitch ==
    ASSUME TogetherInv, DescriptorsInv', NEW id \in Live, NEW cmd, ElfCntl(id, cmd)
    PROVE  DisabledTogether'
<1> DEFINE Read(d) == IF d.kind = "elf" /\ cmd = "FDREAD" THEN AllRead(d).d ELSE d
<1>1. PICK v : v = Disabling(id, cmd)
  OBVIOUS
<1>2. elf' = [i \in Live |->
             IF i \in v.reached THEN [Read(elf[i]) EXCEPT !.disabled = @ \/ i \in v.disabled]
             ELSE elf[i]]
  BY <1>1 DEF ElfCntl
<1>3. Closes(v)
  BY <1>1, DisablingCloses DEF TogetherInv
<1>4. Live' = Live
  BY <1>2 DEF Live
<1>5. ASSUME NEW i \in Live
      PROVE  elf'[i].parent = elf[i].parent /\ elf'[i].disabled = (elf[i].disabled \/ i \in v.disabled)
  <2>1. elf[i] \in Descriptor /\ elf[i].disabled \in BOOLEAN
    BY Typed DEF TogetherInv, Descriptor
  <2>2. CASE i \in v.reached
    <3>1. PICK c : c = Read(elf[i])
      OBVIOUS
    <3>2. c \in Descriptor /\ SameSwitch(c, elf[i])
      <4>1. DescriptorsInv
        BY DEF TogetherInv, SharingInv
      <4>2. c = elf[i] \/ c = AllRead(elf[i]).d
        BY <3>1
      <4>3. c \in Descriptor
        BY <2>1, <4>1, <4>2, SelfAlike DEF Alike
      <4> QED BY <2>1, <4>2, <4>3, ReadSwitch DEF SameSwitch
    <3>3. elf'[i] = [c EXCEPT !.disabled = (c.disabled \/ i \in v.disabled)]
      BY <1>2, <2>2, <3>1
    <3>4. /\ elf'[i].parent = c.parent
          /\ elf'[i].disabled = (c.disabled \/ i \in v.disabled)
      BY <3>2, <3>3 DEF Descriptor
    <3> QED BY <3>2, <3>4 DEF SameSwitch
  <2>3. CASE i \notin v.reached
    BY <1>2, <1>3, <2>1, <2>3 DEF Closes
  <2> QED BY <2>2, <2>3
<1> SUFFICES ASSUME NEW i \in Live, elf'[i].parent # Null, elf'[elf'[i].parent].disabled
             PROVE  elf'[i].disabled
  BY <1>4 DEF DisabledTogether
<1>6. PICK p : p = elf[i].parent
  OBVIOUS
<1>7. p # Null /\ p \in Live /\ elf'[i].parent = p
  BY <1>5, <1>6 DEF TogetherInv, SharingInv, DescriptorsInv, DescriptorsTypeOK
<1>8. elf[p].disabled \/ p \in v.disabled
  BY <1>5, <1>7
<1>9. elf[i].disabled \/ i \in v.disabled
  BY <1>3, <1>6, <1>7, <1>8 DEF TogetherInv, DisabledTogether, Closes
<1> QED BY <1>5, <1>9

(* elf_next() and elf_rand(), and what reads or copies. *)
LEMMA PlainSwitch ==
    ASSUME TogetherInv, DescriptorsInv', NEW id \in Live,
           \/ ElfNext(id) \/ \E offset \in Offsets : ElfRand(id, offset)
           \/ ElfGetident(id) \/ ElfGetdata(id) \/ ElfRawfile(id) \/ ElfGetarsym(id)
    PROVE  DisabledTogether'
<1>1. \A i \in Live : elf[i] \in Descriptor
  BY Typed DEF TogetherInv
<1>2. DOMAIN elf = Live
  BY DEF Live
<1>3. ASSUME NEW i \in Live, NEW off, elf' = [elf EXCEPT ![i].off = off]
      PROVE  DisabledTogether'
  <2>1. elf' = [elf EXCEPT ![i] = [elf[i] EXCEPT !.off = off]]
    BY <1>2, <1>3
  <2>2. SameSwitch([elf[i] EXCEPT !.off = off], elf[i])
    BY <1>1, FieldSwitch
  <2> QED BY <2>1, <2>2, OneSwitch
<1>4. CASE ElfNext(id)
  <2>1. PICK p : p = elf[id].parent
    OBVIOUS
  <2>2. PICK off : off = elf[id].next
    OBVIOUS
  <2>3. elf' = IF p = Null THEN elf ELSE [elf EXCEPT ![p].off = off]
    BY <1>4, <2>1, <2>2 DEF ElfNext
  <2>4. p # Null => p \in Live
    BY <2>1 DEF TogetherInv, SharingInv, DescriptorsInv, DescriptorsTypeOK
  <2> QED BY <1>3, <2>3, <2>4, NoSwitch
<1>5. ASSUME NEW offset \in Offsets, ElfRand(id, offset) PROVE DisabledTogether'
  <2>1. elf' = elf \/ elf' = [elf EXCEPT ![id].off = offset]
    BY <1>5 DEF ElfRand
  <2> QED BY <1>3, <2>1, NoSwitch
<1>6. CASE ElfGetident(id) \/ ElfGetdata(id)
  <2>1. PICK d : (d = Cooked(elf[id]).d \/ d = AllRead(elf[id]).d) /\ elf' = [elf EXCEPT ![id] = d]
    BY <1>6 DEF ElfGetident, ElfGetdata
  <2>2. SameSwitch(d, elf[id])
    BY <1>1, <2>1, ReadSwitch
  <2> QED BY <2>1, <2>2, OneSwitch
<1>7. CASE ElfRawfile(id)
  <2>1. PICK raw : raw = RawFrom(elf[id])
    OBVIOUS
  <2>2. elf' = [elf EXCEPT ![id].raw = raw]
    BY <1>7, <2>1 DEF ElfRawfile
  <2>3. elf' = [elf EXCEPT ![id] = [elf[id] EXCEPT !.raw = raw]]
    BY <1>2, <2>2
  <2>4. SameSwitch([elf[id] EXCEPT !.raw = raw], elf[id])
    BY <1>1, FieldSwitch
  <2> QED BY <2>3, <2>4, OneSwitch
<1>8. CASE ElfGetarsym(id)
  <2>1. elf' = [elf EXCEPT ![id].syms = TRUE]
    BY <1>8 DEF ElfGetarsym
  <2>2. elf' = [elf EXCEPT ![id] = [elf[id] EXCEPT !.syms = TRUE]]
    BY <1>2, <2>1
  <2>3. SameSwitch([elf[id] EXCEPT !.syms = TRUE], elf[id])
    BY <1>1, FieldSwitch
  <2> QED BY <2>2, <2>3, OneSwitch
<1> QED BY <1>4, <1>5, <1>6, <1>7, <1>8

(* elf_end() *)
LEMMA EndSwitch ==
    ASSUME TogetherInv, DescriptorsInv', NEW id \in Live, ElfEnd(id)
    PROVE  DisabledTogether'
<1> DEFINE G == Gone(id)
           Shorter(i) == [elf[i] EXCEPT !.count = @ - 1, !.members = Unlinked(@, G)]
<1>1. elf' = [i \in Live \ G |-> IF i \in Ending(id) THEN Shorter(i) ELSE elf[i]]
  BY DEF ElfEnd, Gone
<1> HIDE DEF G
<1>2. Live' = Live \ G
  BY <1>1 DEF Live
<1>3. ASSUME NEW i \in Live' PROVE SameSwitch(elf'[i], elf[i])
  <2>1. PICK e : e = elf[i]
    OBVIOUS
  <2>2. e \in Descriptor
    BY <1>2, <2>1, Typed DEF TogetherInv
  <2>3. PICK n : n = e.count - 1
    OBVIOUS
  <2>4. PICK m : m = Unlinked(e.members, G)
    OBVIOUS
  <2>5. elf'[i] = e \/ elf'[i] = [e EXCEPT !.count = n, !.members = m]
    BY <1>1, <1>2, <2>1, <2>3, <2>4
  <2>6. SameSwitch([e EXCEPT !.count = n, !.members = m], e)
    BY <2>2, FieldSwitch
  <2> QED BY <2>1, <2>5, <2>6 DEF SameSwitch
<1> QED BY <1>2, <1>3, SwitchesStay

(* The first descriptor has no archive. *)
LEMMA OpenSwitch ==
    ASSUME TogetherInv, DescriptorsInv',
           \/ \E cmd \in Commands : BeginFile(FirstFd, cmd)
           \/ BeginNew(FirstFd) \/ ElfMemory
    PROVE  DisabledTogether'
<1>1. file.size \in Nat /\ FirstFd \in Nat /\ DescriptorsInv
  BY Typed, FileSize, BoundsAssumption DEF FirstFd, TogetherInv
<1>2. ASSUME NEW d, d.parent = Null, Closed, elf' = With(Fresh, d) PROVE DisabledTogether'
  <2>1. Live' = {Fresh} /\ elf'[Fresh] = d /\ Live = {}
    BY <1>2 DEF Closed, Live, With
  <2> QED BY <1>2, <2>1, SwitchesStay
<1>3. ASSUME NEW d \in Descriptor, d.parent = Null, Closed, elf' = With(Fresh, CheckType(d))
      PROVE  DisabledTogether'
  <2>1. PICK c : c = CheckType(d)
    OBVIOUS
  <2>2. c.parent = Null
    BY <1>1, <1>3, <2>1, CheckTypeIs
  <2> QED BY <1>2, <1>3, <2>1, <2>2
<1>4. ASSUME NEW cmd \in Commands, BeginFile(FirstFd, cmd) PROVE DisabledTogether'
  <2> DEFINE d == [InitElf EXCEPT !.fd = FirstFd, !.size = file.size, !.readable = TRUE,
                                  !.writable = (cmd = "RDWR")]
  <2>1. Closed /\ elf' = With(Fresh, CheckType(d))
    BY <1>4 DEF BeginFile, Begun
  <2>2. d \in Descriptor /\ d.parent = Null
    BY <1>1, InitElfIs DEF Descriptor, InitElf
  <2> HIDE DEF d
  <2> QED BY <1>3, <2>1, <2>2
<1>5. CASE BeginNew(FirstFd)
  <2> DEFINE d == [InitElf EXCEPT !.fd = FirstFd, !.writable = TRUE]
  <2>1. Closed /\ elf' = With(Fresh, d) /\ d.parent = Null
    BY <1>5 DEF BeginNew, InitElf
  <2> HIDE DEF d
  <2> QED BY <1>2, <2>1
<1>6. CASE ElfMemory
  <2> DEFINE d == [InitElf EXCEPT !.size = file.size, !.readable = TRUE, !.disabled = TRUE,
                                  !.memory = TRUE, !.raw = "data"]
  <2>1. Closed /\ elf' = With(Fresh, CheckType(d))
    BY <1>6 DEF ElfMemory, Begun
  <2>2. d \in Descriptor /\ d.parent = Null
    BY <1>1, InitElfIs DEF Descriptor, InitElf
  <2> HIDE DEF d
  <2> QED BY <1>3, <2>1, <2>2
<1> QED BY <1>4, <1>5, <1>6

(* A new member takes after its archive. *)
LEMMA MemberSwitch ==
    ASSUME TogetherInv, DescriptorsInv', NEW fd \in Fds, NEW ref \in Live, BeginMember(fd, ref)
    PROVE  DisabledTogether'
<1> DEFINE r  == elf[ref]
           ms == <<Fresh>> \o r.members
           n  == r.count + 1
<1>1. PICK d : d = MemberOf(ref, fd)
  OBVIOUS
<1>2. /\ Room
      /\ elf' = [With(Fresh, d) EXCEPT ![ref].members = <<Fresh>> \o @,
                                       ![ref].count = @ + 1, ![ref].off = d.next]
  BY <1>1 DEF BeginMember
<1>3. Fresh \notin Live /\ ref # Fresh
  BY <1>2, FreshIs, Typed DEF TogetherInv
<1>4. d.parent = ref /\ d.disabled = r.disabled
  <2> DEFINE size == HdrAt(r, r.off).size
             m == [InitElf EXCEPT
                    !.fd = IF r.memory THEN r.fd ELSE fd, !.parent = ref, !.size = size,
                    !.base = r.base + r.off + ArHdr, !.readable = TRUE,
                    !.next = Behind(r.off, size), !.disabled = r.disabled,
                    !.memory = r.memory]
  <2>2. d = CheckType(Frozen(m))
    BY <1>1 DEF MemberOf
  <2>3. m.parent = ref /\ m.disabled = r.disabled /\ DOMAIN m = DOMAIN InitElf
    BY DEF InitElf
  <2> HIDE DEF m, size, r
  <2>4. PICK f : f = Frozen(m)
    OBVIOUS
  <2>5. f.parent = ref /\ f.disabled = r.disabled
    BY <2>3, <2>4 DEF Frozen
  <2> QED BY <2>2, <2>4, <2>5 DEF CheckType
<1>5. /\ Live' = Live \cup {Fresh} /\ elf'[Fresh] = d
      /\ \A i \in Live : elf'[i] =
             IF i = ref THEN [r EXCEPT !.members = ms, !.count = n, !.off = d.next] ELSE elf[i]
  <2>1. With(Fresh, d)[ref] = r /\ With(Fresh, d)[Fresh] = d
        /\ DOMAIN With(Fresh, d) = Live \cup {Fresh}
        /\ \A i \in Live : With(Fresh, d)[i] = elf[i]
    BY <1>3 DEF With
  <2>2. elf' = [With(Fresh, d) EXCEPT
                    ![ref] = [r EXCEPT !.members = ms, !.count = n, !.off = d.next]]
    BY <1>2, <2>1
  <2> HIDE DEF r, ms, n
  <2> QED BY <1>3, <2>1, <2>2 DEF Live
<1>6. ASSUME NEW i \in Live PROVE SameSwitch(elf'[i], elf[i])
  <2>1. PICK e : e = elf[i]
    OBVIOUS
  <2>2. e \in Descriptor
    BY <2>1, Typed DEF TogetherInv
  <2>3. CASE i # ref
    BY <1>5, <2>3 DEF SameSwitch
  <2>4. CASE i = ref
    <3> DEFINE off == d.next
    <3>1. elf'[i] = [e EXCEPT !.members = ms, !.count = n, !.off = off]
      BY <1>5, <2>1, <2>4
    <3> HIDE DEF ms, n, off
    <3>2. SameSwitch([e EXCEPT !.members = ms, !.count = n, !.off = off], e)
      BY <2>2, FieldSwitch
    <3> QED BY <2>1, <3>1, <3>2
  <2> QED BY <2>3, <2>4
<1> QED BY <1>3, <1>4, <1>5, <1>6, SwitchesStay

(* elf_begin(), whatever it is called with. *)
LEMMA BeginSwitch ==
    ASSUME TogetherInv, DescriptorsInv', NEW fd \in Fds, NEW cmd, NEW ref \in Live,
           ElfBegin(fd, cmd, ref)
    PROVE  DisabledTogether'
<1>1. ASSUME NEW id \in Live, elf' = [elf EXCEPT ![id].count = @ + 1]
      PROVE  DisabledTogether'
  <2>1. PICK n : n = elf[id].count + 1
    OBVIOUS
  <2>2. elf' = [elf EXCEPT ![id] = [elf[id] EXCEPT !.count = n]]
    BY <1>1, <2>1 DEF Live
  <2>3. SameSwitch([elf[id] EXCEPT !.count = n], elf[id])
    BY FieldSwitch, Typed DEF TogetherInv
  <2> QED BY <2>2, <2>3, OneSwitch
<1>2. CASE BeginSame(fd, cmd, ref)
  BY <1>1, <1>2 DEF BeginSame
<1>3. CASE BeginAgain(fd, ref)
  <2> DEFINE base == elf[ref].base + elf[ref].off + ArHdr
  <2>1. PICK id : id = Opened(ref, base)
    OBVIOUS
  <2>2. id # Null /\ elf' = [elf EXCEPT ![id].count = @ + 1]
    BY <1>3, <2>1 DEF BeginAgain
  <2>3. id \in Live
    <3> HIDE DEF base
    <3>1. id \in {m \in Range(elf[ref].members) : elf[m].base = base}
      BY <2>1, <2>2 DEF Opened
    <3> QED BY <3>1, Typed DEF TogetherInv, DescriptorsInv, CountsReferences
  <2> QED BY <1>1, <2>2, <2>3
<1>4. CASE BeginRefused(fd, cmd, ref) \/ BeginNoMemory(fd, ref)
  BY <1>4, NoSwitch DEF BeginRefused, Same, vars, BeginNoMemory
<1>5. CASE BeginMember(fd, ref)
  BY <1>5, MemberSwitch
<1> QED BY <1>2, <1>3, <1>4, <1>5 DEF ElfBegin

(***************************************************************************)
(* Once elf_cntl() has disabled an archive, its members are disabled with  *)
(* it, those opened later too, so that the program may close the file      *)
(* (cntl.c:48-69, begin.c:358).                                            *)
(***************************************************************************)
THEOREM ArchivesDisabledWhole == Spec => []DisabledTogether
<1>1. Init => TogetherInv
  <2> SUFFICES ASSUME Init PROVE TogetherInv
    OBVIOUS
  <2>1. Live = {}
    BY DEF Init, Live
  <2> QED BY <2>1, InitShares DEF TogetherInv, DisabledTogether
<1>2. TogetherInv /\ [Next]_vars => TogetherInv'
  <2> SUFFICES ASSUME TogetherInv, [Next]_vars PROVE DisabledTogether'
    BY NextShares DEF TogetherInv
  <2>1. DescriptorsInv'
    BY NextShares DEF TogetherInv, SharingInv
  <2>2. CASE UNCHANGED vars
    BY <2>1, <2>2, NoSwitch DEF vars
  <2>3. CASE \/ \E cmd \in Commands : BeginFile(FirstFd, cmd)
             \/ BeginNew(FirstFd) \/ ElfMemory
    BY <2>1, <2>3, OpenSwitch
  <2>4. ASSUME NEW id \in Live, NEW fd \in Fds, NEW cmd \in Commands, ElfBegin(fd, cmd, id)
        PROVE  DisabledTogether'
    BY <2>1, <2>4, BeginSwitch
  <2>5. ASSUME NEW id \in Live,
               \/ ElfNext(id) \/ \E offset \in Offsets : ElfRand(id, offset)
               \/ ElfGetident(id) \/ ElfGetdata(id) \/ ElfRawfile(id) \/ ElfGetarsym(id)
        PROVE  DisabledTogether'
    BY <2>1, <2>5, PlainSwitch
  <2>6. ASSUME NEW id \in Live, NEW cmd \in {"FDREAD", "FDDONE"}, ElfCntl(id, cmd)
        PROVE  DisabledTogether'
    BY <2>1, <2>6, CntlSwitch
  <2>7. ASSUME NEW id \in Live, ElfEnd(id)
        PROVE  DisabledTogether'
    BY <2>1, <2>7, EndSwitch
  <2> QED BY <2>2, <2>3, <2>4, <2>5, <2>6, <2>7 DEF Next
<1>3. TogetherInv => DisabledTogether
  BY DEF TogetherInv
<1> QED BY <1>1, <1>2, <1>3, PTL DEF Spec

=============================================================================
