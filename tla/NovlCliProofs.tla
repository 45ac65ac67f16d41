---------------------------- MODULE NovlCliProofs ----------------------------
(***************************************************************************)
(* For command lines of any length: the settings are at every point what   *)
(* the options processed so far ask for, each option told from its last    *)
(* occurrence, and so the process ends the way the whole line asks for.    *)
(***************************************************************************)
EXTENDS NovlCliProperties, FiniteSetTheorems, TLAPS

(* The places of some options among the first n, and of those with a number. *)
Places(letters, n) == {k \in 1 .. n : line.options[k].letter \in letters}
Numbers(n) == {k \in Places({"A"}, n) : line.options[k].value # NotHex}

Silences(n) == Places({"s"}, n)
LastSilence(n) == IF Silences(n) = {} THEN 0 ELSE Max(Silences(n))
Raises(n) == {k \in Places({"v"}, n) : k > LastSilence(n)}

ModeAfter(n) ==
    LET modes == Places(DOMAIN Modes, n)
    IN  IF modes = {} THEN NoMode ELSE Modes[line.options[Max(modes)].letter]

VerbosityAfter(n) == Cardinality(Raises(n)) - (IF Silences(n) = {} THEN 0 ELSE 1)

(* What the first n options ask for. *)
SettingsFollow(n) ==
    /\ settings.opmode = ModeAfter(n)
    /\ settings.no_colors = (Cardinality(Places({"g"}, n)) % 2 = 1)
    /\ settings.human_readable = (Places({"h"}, n) # {})
    /\ settings.base_addr = LastValue(Numbers(n), 0)
    /\ settings.oval = LastValue(Places({"o"}, n), NoOutput)
    /\ settings.flags = {line.options[k].letter : k \in 1 .. n}

(* None of the first n options is one that ends the process. *)
Passed(n) ==
    /\ Places({"V", "?"}, n) = {}
    /\ \A k \in Places(DOMAIN Modes, n) :
          \A j \in Places(DOMAIN Modes, n) :
              j < k => line.options[k].letter \in {"d", "D"}

IsSeq(s) == s \in Seq(Range(s))

(* Each message was treated the way the options up to it ask for. *)
Treated(m) ==
    m.shown = mk_mesg_f(m.message, VerbosityAfter(m.after),
                        Cardinality(Places({"g"}, m.after)) % 2 = 1)

(* An error or the usage, which only a silent process hides. *)
Complains(m) ==
    /\ m.message.level = Levels.notice
    /\ m.message.symbol \in {Symbol("31", "!"), Symbol("33", "?")}

AllOk(n) == done = [k \in 1 .. n |-> Asked(k, "ok")]

Whole == Len(line.options)

(* The settings follow from the options processed, of which none was refused. *)
Following ==
    /\ settings.verbosity = VerbosityAfter(optind)
    /\ settings.verbosity <= optind
    /\ DOMAIN settings = DOMAIN Fresh
    /\ at # "exit" => SettingsFollow(optind) /\ Passed(optind) /\ outcome = "running"

(* What is known once the options are processed, and while files are. *)
Working ==
    /\ at \in {"options", "dispatch"} => done = <<>>
    /\ at \in {"dispatch", "work"} => optind = Whole
    /\ at = "work" =>
          /\ line.files >= 1 /\ settings.opmode # NoMode /\ ~TooManyFiles
          /\ Len(done) < line.files
          /\ AllOk(Len(done))
    /\ Len(done) \in Nat

MessagesTreated ==
    /\ IsSeq(said)
    /\ \A k \in 1 .. Len(said) : Treated(said[k])

(* There is a complaint after the last option looked at, and after that nothing
   but debug messages. *)
Loud(messages, n) ==
    \E k \in 1 .. Len(messages) :
        /\ Complains(messages[k]) /\ messages[k].after = n
        /\ \A j \in (k + 1) .. Len(messages) : messages[j].message.level = Levels.debug

FailsLoudly == outcome = "failure" => Loud(said, optind)

(* What the program accepts: one of -clr at most, and that before any -d or -D. *)
Accepted ==
    /\ \A k \in 1 .. Len(line.options) : line.options[k].letter \notin {"V", "?"}
    /\ ModePlaces # {}
    /\ \A k \in ModePlaces \ {Min(ModePlaces)} : line.options[k].letter \in {"d", "D"}
    /\ line.files >= 1
    /\ ModeAsked = "convert" => line.files = 1 /\ Given("o") /\ Given("A")

EndsAsAccepted ==
    /\ outcome = "ok" =>
          Accepted /\ done = [k \in 1 .. line.files |-> Asked(k, "ok")]
    /\ outcome = "failure" =>
          IF Accepted
          THEN done = [k \in 1 .. Len(done) |->
                          Asked(k, IF k = Len(done) THEN "failure" ELSE "ok")]
               /\ done # <<>>
          ELSE done = <<>>

CliInv == CliTypeOK /\ Following /\ Working /\ MessagesTreated /\ FailsLoudly /\ EndsAsAccepted

-----------------------------------------------------------------------------
(***************************************************************************)
(* Places.                                                                 *)
(***************************************************************************)
LEMMA MaxIs ==
    ASSUME NEW S, S \subseteq Int, NEW m \in S, \A y \in S : y <= m
    PROVE  Max(S) = m
<1>1. \E x \in S : \A y \in S : x >= y
  OBVIOUS
<1>2. Max(S) \in S /\ \A y \in S : Max(S) >= y
  BY <1>1 DEF Max
<1>3. Max(S) \in Int /\ m \in Int /\ Max(S) <= m /\ Max(S) >= m
  BY <1>2
<1> QED BY <1>3

LEMMA PlacesType ==
    ASSUME NEW L, NEW n \in Nat
    PROVE  Places(L, n) \subseteq 1 .. n /\ IsFiniteSet(Places(L, n))
<1>1. Places(L, n) \subseteq 1 .. n
  BY DEF Places
<1>2. IsFiniteSet(1 .. n)
  BY FS_Interval
<1> QED BY <1>1, <1>2, FS_Subset

LEMMA PlacesStep ==
    ASSUME NEW L, NEW n \in Nat
    PROVE  Places(L, n + 1) = IF line.options[n + 1].letter \in L
                              THEN Places(L, n) \cup {n + 1} ELSE Places(L, n)
  BY DEF Places

LEMMA PlaceOrNew ==
    ASSUME NEW L, NEW n \in Nat, NEW k \in Places(L, n + 1)
    PROVE  k \in Places(L, n) \/ (k = n + 1 /\ line.options[n + 1].letter \in L)
  BY DEF Places

(* The last place is the new one. *)
LEMMA NewestPlace ==
    ASSUME NEW n \in Nat, NEW S, S \subseteq 1 .. n
    PROVE  Max(S \cup {n + 1}) = n + 1
<1>1. S \cup {n + 1} \subseteq Int /\ \A y \in S \cup {n + 1} : y <= n + 1
  OBVIOUS
<1> QED BY <1>1, MaxIs

Lt == {p \in Nat \X Nat : p[1] < p[2]}

LEMMA FirstPlace ==
    ASSUME NEW S \in SUBSET Nat, S # {}
    PROVE  Min(S) \in S /\ \A k \in S : Min(S) <= k
<1>1. IsWellFoundedOn(Lt, Nat)
  <2>1. OpToRel(<, Nat) = Lt
    BY DEF OpToRel, Lt
  <2> QED BY <2>1, NatLessThanWellFounded
<1>2. PICK m \in S : \A k \in S : ~(<<k, m>> \in Lt)
  BY <1>1, WFMin
<1>3. \A k \in S : m <= k
  <2> SUFFICES ASSUME NEW k \in S PROVE m <= k
    OBVIOUS
  <2>1. k \in Nat /\ m \in Nat
    OBVIOUS
  <2>2. <<k, m>> \in Nat \X Nat /\ <<k, m>>[1] = k /\ <<k, m>>[2] = m
    BY <2>1
  <2>3. ~(k < m)
    BY <1>2, <2>2 DEF Lt
  <2> QED BY <2>1, <2>3
<1> QED BY <1>3 DEF Min

LEMMA LastPlace ==
    ASSUME NEW n \in Nat, NEW S, S \subseteq 1 .. n, S # {}
    PROVE  Max(S) \in S /\ \A k \in S : k <= Max(S)
<1> DEFINE T == {n - k : k \in S}
<1>1. T \in SUBSET Nat
  <2> SUFFICES ASSUME NEW k \in S PROVE n - k \in Nat
    OBVIOUS
  <2>1. k \in 1 .. n
    OBVIOUS
  <2> QED BY <2>1
<1>2. T # {}
  OBVIOUS
<1> DEFINE t == Min(T)
<1>3. t \in T /\ \A u \in T : t <= u
  BY <1>1, <1>2, FirstPlace
<1>4. PICK m \in S : t = n - m
  BY <1>3
<1>5. \A k \in S : k <= m
  <2> SUFFICES ASSUME NEW k \in S PROVE k <= m
    OBVIOUS
  <2>1. n - m <= n - k
    BY <1>3, <1>4
  <2>2. k \in 1 .. n /\ m \in 1 .. n
    OBVIOUS
  <2> QED BY <2>1, <2>2
<1>6. S \subseteq Int
  OBVIOUS
<1> QED BY <1>5, <1>6, MaxIs

-----------------------------------------------------------------------------
(***************************************************************************)
(* One more option.                                                        *)
(***************************************************************************)
LEMMA SamePlaces ==
    ASSUME NEW L, NEW n \in Nat, line.options[n + 1].letter \notin L
    PROVE  Places(L, n + 1) = Places(L, n)
  BY PlacesStep

LEMMA MorePlaces ==
    ASSUME NEW L, NEW n \in Nat, line.options[n + 1].letter \in L
    PROVE  /\ Places(L, n + 1) = Places(L, n) \cup {n + 1}
           /\ Places(L, n + 1) # {}
           /\ Max(Places(L, n + 1)) = n + 1
           /\ Cardinality(Places(L, n)) \in Nat
           /\ Cardinality(Places(L, n + 1)) = Cardinality(Places(L, n)) + 1
<1>1. Places(L, n + 1) = Places(L, n) \cup {n + 1}
  BY PlacesStep
<1>2. Places(L, n) \subseteq 1 .. n /\ IsFiniteSet(Places(L, n)) /\ n + 1 \notin Places(L, n)
  <2>1. n + 1 \notin 1 .. n
    OBVIOUS
  <2> QED BY <2>1, PlacesType
<1>3. Max(Places(L, n + 1)) = n + 1
  BY <1>1, <1>2, NewestPlace
<1>4. /\ Cardinality(Places(L, n)) \in Nat
      /\ Cardinality(Places(L, n + 1)) = Cardinality(Places(L, n)) + 1
  BY <1>1, <1>2, FS_AddElement, FS_CardinalityType
<1> QED BY <1>1, <1>3, <1>4

LEMMA SameVerbosity ==
    ASSUME NEW n \in Nat, line.options[n + 1].letter \notin {"s", "v"}
    PROVE  VerbosityAfter(n + 1) = VerbosityAfter(n)
<1>1. Silences(n + 1) = Silences(n) /\ Places({"v"}, n + 1) = Places({"v"}, n)
  BY SamePlaces DEF Silences
<1> QED BY <1>1 DEF VerbosityAfter, Raises, LastSilence

LEMMA LouderVerbosity ==
    ASSUME NEW n \in Nat, line.options[n + 1].letter = "v"
    PROVE  VerbosityAfter(n) \in Int /\ VerbosityAfter(n + 1) = VerbosityAfter(n) + 1
<1>1. Silences(n + 1) = Silences(n)
  BY SamePlaces DEF Silences
<1>2. LastSilence(n + 1) = LastSilence(n) /\ LastSilence(n) < n + 1
  <2>1. Silences(n) \subseteq 1 .. n
    BY PlacesType DEF Silences
  <2>2. Silences(n) # {} => LastSilence(n) \in 1 .. n
    BY <2>1, LastPlace DEF LastSilence
  <2> QED BY <1>1, <2>2 DEF LastSilence
<1>3. Places({"v"}, n + 1) = Places({"v"}, n) \cup {n + 1}
  BY MorePlaces
<1>4. Raises(n + 1) = Raises(n) \cup {n + 1}
  BY <1>2, <1>3 DEF Raises
<1>5. IsFiniteSet(Raises(n)) /\ n + 1 \notin Raises(n)
  <2>1. Raises(n) \subseteq Places({"v"}, n) /\ n + 1 \notin 1 .. n
    BY DEF Raises
  <2> QED BY <2>1, PlacesType, FS_Subset
<1>6. Cardinality(Raises(n + 1)) = Cardinality(Raises(n)) + 1 /\ Cardinality(Raises(n)) \in Nat
  BY <1>4, <1>5, FS_AddElement, FS_CardinalityType
<1> QED BY <1>1, <1>6 DEF VerbosityAfter

LEMMA MutedVerbosity ==
    ASSUME NEW n \in Nat, line.options[n + 1].letter = "s"
    PROVE  VerbosityAfter(n + 1) = Mute
<1>1. Silences(n + 1) # {} /\ Max(Silences(n + 1)) = n + 1
  BY MorePlaces DEF Silences
<1>2. LastSilence(n + 1) = n + 1
  BY <1>1 DEF LastSilence
<1>3. Raises(n + 1) = {}
  <2>1. Places({"v"}, n + 1) \subseteq 1 .. (n + 1)
    BY PlacesType
  <2>2. \A k \in 1 .. (n + 1) : ~(k > n + 1)
    OBVIOUS
  <2> QED BY <1>2, <2>1, <2>2 DEF Raises
<1> QED BY <1>1, <1>3, FS_EmptySet DEF VerbosityAfter, Mute

(* The numbers given with -A, and their last one. *)
LEMMA NumbersStep ==
    ASSUME NEW n \in Nat
    PROVE  Numbers(n + 1) =
             IF line.options[n + 1].letter = "A" /\ line.options[n + 1].value # NotHex
             THEN Numbers(n) \cup {n + 1} ELSE Numbers(n)
<1>1. CASE line.options[n + 1].letter = "A"
  <2>1. Places({"A"}, n + 1) = Places({"A"}, n) \cup {n + 1}
    BY <1>1, MorePlaces
  <2> QED BY <1>1, <2>1 DEF Numbers
<1>2. CASE line.options[n + 1].letter # "A"
  <2>1. Places({"A"}, n + 1) = Places({"A"}, n)
    BY <1>2, SamePlaces
  <2> QED BY <1>2, <2>1 DEF Numbers
<1> QED BY <1>1, <1>2

LEMMA LastNumber ==
    ASSUME NEW n \in Nat
    PROVE  LastValue(Numbers(n + 1), 0) =
             IF line.options[n + 1].letter = "A" /\ line.options[n + 1].value # NotHex
             THEN line.options[n + 1].value ELSE LastValue(Numbers(n), 0)
<1>1. Numbers(n) \subseteq 1 .. n
  BY PlacesType DEF Numbers
<1>2. Max(Numbers(n) \cup {n + 1}) = n + 1
  BY <1>1, NewestPlace
<1> QED BY <1>2, NumbersStep DEF LastValue

LEMMA LastOutput ==
    ASSUME NEW n \in Nat
    PROVE  LastValue(Places({"o"}, n + 1), NoOutput) =
             IF line.options[n + 1].letter = "o"
             THEN line.options[n + 1].value ELSE LastValue(Places({"o"}, n), NoOutput)
  BY SamePlaces, MorePlaces DEF LastValue

LEMMA LastMode ==
    ASSUME NEW n \in Nat
    PROVE  ModeAfter(n + 1) =
             IF line.options[n + 1].letter \in DOMAIN Modes
             THEN Modes[line.options[n + 1].letter] ELSE ModeAfter(n)
<1> DEFINE M == DOMAIN Modes
<1> HIDE DEF M
<1>1. CASE line.options[n + 1].letter \in M
  BY <1>1, MorePlaces DEF ModeAfter, M
<1>2. CASE line.options[n + 1].letter \notin M
  BY <1>2, SamePlaces DEF ModeAfter, M
<1> QED BY <1>1, <1>2 DEF M

LEMMA ColorsToggle ==
    ASSUME NEW n \in Nat
    PROVE  (Cardinality(Places({"g"}, n + 1)) % 2 = 1) =
             IF line.options[n + 1].letter = "g"
             THEN ~(Cardinality(Places({"g"}, n)) % 2 = 1)
             ELSE (Cardinality(Places({"g"}, n)) % 2 = 1)
<1>1. CASE line.options[n + 1].letter = "g"
  <2>1. /\ Cardinality(Places({"g"}, n)) \in Nat
        /\ Cardinality(Places({"g"}, n + 1)) = Cardinality(Places({"g"}, n)) + 1
    BY <1>1, MorePlaces
  <2> QED BY <1>1, <2>1
<1>2. CASE line.options[n + 1].letter # "g"
  BY <1>2, SamePlaces
<1> QED BY <1>1, <1>2

LEMMA FlagsGrow ==
    ASSUME NEW n \in Nat
    PROVE  {line.options[k].letter : k \in 1 .. (n + 1)}
             = {line.options[k].letter : k \in 1 .. n} \cup {line.options[n + 1].letter}
<1>1. 1 .. (n + 1) = (1 .. n) \cup {n + 1}
  OBVIOUS
<1> QED BY <1>1

-----------------------------------------------------------------------------
(***************************************************************************)
(* Messages.                                                               *)
(***************************************************************************)
LEMMA SameLine ==
    ASSUME UNCHANGED line, NEW n
    PROVE  /\ VerbosityAfter(n)' = VerbosityAfter(n)
           /\ \A L : Places(L, n)' = Places(L, n)
  BY DEF VerbosityAfter, Raises, Silences, LastSilence, Places

LEMMA StillTreated ==
    ASSUME MessagesTreated, UNCHANGED line, Quiet
    PROVE  MessagesTreated'
<1>1. ASSUME NEW k \in 1 .. Len(said) PROVE Treated(said[k])'
  <2>1. Treated(said[k])
    BY DEF MessagesTreated
  <2> QED BY <2>1 DEF Quiet, Treated, VerbosityAfter, Raises, Silences, LastSilence, Places
<1>2. \A k \in 1 .. Len(said') : Treated(said[k])'
  BY <1>1 DEF Quiet
<1>3. IsSeq(said)'
  BY DEF MessagesTreated, Quiet, IsSeq
<1> QED BY <1>2, <1>3 DEF MessagesTreated

(* What the first n options ask for depends on the line alone. *)
LEMMA StillAsked ==
    ASSUME UNCHANGED line, NEW n, optind' = n
    PROVE  /\ ModeAfter(optind)' = ModeAfter(n)
           /\ VerbosityAfter(optind)' = VerbosityAfter(n)
           /\ LastValue(Numbers(optind), 0)' = LastValue(Numbers(n), 0)
           /\ LastValue(Places({"o"}, optind), NoOutput)' = LastValue(Places({"o"}, n), NoOutput)
           /\ Passed(optind)' = Passed(n)
<1>1. ModeAfter(optind)' = ModeAfter(n)
  BY DEF ModeAfter, Places
<1>2. VerbosityAfter(optind)' = VerbosityAfter(n)
  BY DEF VerbosityAfter, Raises, Silences, LastSilence, Places
<1>3. LastValue(Numbers(optind), 0)' = LastValue(Numbers(n), 0)
  BY DEF LastValue, Numbers, Places
<1>4. LastValue(Places({"o"}, optind), NoOutput)' = LastValue(Places({"o"}, n), NoOutput)
  BY DEF LastValue, Places
<1>5. Passed(optind)' = Passed(n)
  BY DEF Passed, Places
<1> QED BY <1>1, <1>2, <1>3, <1>4, <1>5

LEMMA Joined ==
    \A T : \A s, t \in Seq(T) :
           /\ s \o t \in Seq(T)
           /\ Len(s) \in Nat /\ Len(t) \in Nat /\ Len(s \o t) = Len(s) + Len(t)
           /\ \A k \in 1 .. Len(s) : (s \o t)[k] = s[k]
           /\ \A k \in 1 .. Len(t) : (s \o t)[Len(s) + k] = t[k]
  OBVIOUS

LEMMA Listed ==
    ASSUME NEW T, NEW n \in Nat, NEW f \in [1 .. n -> T]
    PROVE  f \in Seq(T) /\ Len(f) = n
  OBVIOUS

(* What Say() adds is treated as the settings ask for, and comes last. *)
LEMMA SayTreats ==
    ASSUME MessagesTreated, UNCHANGED line,
           NEW T, NEW messages \in Seq(T), Say(messages),
           settings.verbosity = VerbosityAfter(optind'),
           settings.no_colors = (Cardinality(Places({"g"}, optind')) % 2 = 1)
    PROVE  /\ MessagesTreated'
           /\ \A k \in 1 .. Len(said') :
                 (k \in 1 .. Len(said) /\ said'[k] = said[k]) \/ said'[k].after = optind'
           /\ messages # <<>> =>
                 /\ said' # <<>>
                 /\ Last(said').message = messages[Len(messages)]
                 /\ Last(said').after = optind'
           /\ Len(said) \in Nat /\ Len(said') = Len(said) + Len(messages)
           /\ \A j \in 1 .. Len(messages) :
                 /\ said'[Len(said) + j].message = messages[j]
                 /\ said'[Len(said) + j].after = optind'
<1> DEFINE Said(k) == [message |-> messages[k], after |-> optind',
                       shown |-> mk_mesg_f(messages[k], settings.verbosity, settings.no_colors)]
           more == [k \in 1 .. Len(messages) |-> Said(k)]
           U == Range(said) \cup {Said(k) : k \in 1 .. Len(messages)}
<1>1. said' = said \o more
  BY DEF Say
<1>2. Len(messages) \in Nat /\ said \in Seq(U) /\ more \in Seq(U) /\ Len(more) = Len(messages)
  <2>1. Len(messages) \in Nat
    OBVIOUS
  <2>2. more \in [1 .. Len(messages) -> U]
    <3> HIDE DEF Said
    <3> QED OBVIOUS
  <2> HIDE DEF more, U
  <2>3. more \in Seq(U) /\ Len(more) = Len(messages)
    BY <2>1, <2>2, Listed
  <2>4. said \in Seq(Range(said))
    BY DEF MessagesTreated, IsSeq
  <2>5. said \in Seq(U)
    BY <2>4 DEF U
  <2> QED BY <2>1, <2>3, <2>5
<1> HIDE DEF more, U
<1>3. /\ said' \in Seq(U) /\ Len(said) \in Nat
      /\ Len(said') = Len(said) + Len(messages)
      /\ \A k \in 1 .. Len(said) : said'[k] = said[k]
      /\ \A k \in 1 .. Len(messages) : said'[Len(said) + k] = more[k]
  <2>1. /\ said \o more \in Seq(U) /\ Len(said) \in Nat
        /\ Len(said \o more) = Len(said) + Len(more)
        /\ \A k \in 1 .. Len(said) : (said \o more)[k] = said[k]
        /\ \A k \in 1 .. Len(more) : (said \o more)[Len(said) + k] = more[k]
    <3>1. said \o more \in Seq(U) /\ Len(said) \in Nat
      BY <1>2, Joined
    <3>2. Len(said \o more) = Len(said) + Len(more)
      BY <1>2, Joined
    <3>3. \A k \in 1 .. Len(said) : (said \o more)[k] = said[k]
      BY <1>2, Joined
    <3>4. \A k \in 1 .. Len(more) : (said \o more)[Len(said) + k] = more[k]
      BY <1>2, Joined
    <3> QED BY <3>1, <3>2, <3>3, <3>4
  <2> QED BY <1>1, <1>2, <2>1
<1>4. \A k \in 1 .. Len(said') :
         \/ k \in 1 .. Len(said) /\ said'[k] = said[k]
         \/ \E j \in 1 .. Len(messages) : k = Len(said) + j /\ said'[k] = Said(j)
  <2> SUFFICES ASSUME NEW k \in 1 .. Len(said'), k \notin 1 .. Len(said)
               PROVE  \E j \in 1 .. Len(messages) : k = Len(said) + j /\ said'[k] = Said(j)
    BY <1>3
  <2>1. k - Len(said) \in 1 .. Len(messages) /\ k = Len(said) + (k - Len(said))
    BY <1>2, <1>3
  <2>2. said'[k] = more[k - Len(said)]
    BY <1>3, <2>1
  <2>3. more[k - Len(said)] = Said(k - Len(said))
    BY <2>1 DEF more
  <2> QED BY <2>1, <2>2, <2>3
<1>5. IsSeq(said)'
  <2>1. said' \in [1 .. Len(said') -> Range(said')] /\ Len(said') \in Nat
    BY <1>2, <1>3 DEF Range
  <2> QED BY <2>1, Listed DEF IsSeq
<1>6. \A k \in 1 .. Len(said') : Treated(said[k])'
  <2> SUFFICES ASSUME NEW k \in 1 .. Len(said') PROVE Treated(said[k])'
    OBVIOUS
  <2>1. said'[k].shown = mk_mesg_f(said'[k].message, VerbosityAfter(said'[k].after),
                                   Cardinality(Places({"g"}, said'[k].after)) % 2 = 1)
    <3>1. CASE k \in 1 .. Len(said) /\ said'[k] = said[k]
      BY <3>1 DEF MessagesTreated, Treated
    <3>2. CASE \E j \in 1 .. Len(messages) : said'[k] = Said(j)
      BY <3>2
    <3> QED BY <1>4, <3>1, <3>2
  <2> QED BY <2>1 DEF Treated, VerbosityAfter, Raises, Silences, LastSilence, Places
<1>7. ASSUME messages # <<>>
      PROVE  /\ said' # <<>>
             /\ Last(said').message = messages[Len(messages)]
             /\ Last(said').after = optind'
  <2>1. Len(messages) \in 1 .. Len(messages)
    BY <1>2, <1>7
  <2>2. said'[Len(said')] = Said(Len(messages)) /\ Len(said') > 0
    BY <1>2, <1>3, <2>1 DEF more
  <2> QED BY <1>3, <2>2 DEF Last
<1>8. MessagesTreated'
  BY <1>5, <1>6 DEF MessagesTreated
<1>9. \A j \in 1 .. Len(messages) : Said(j).after = optind' /\ Said(j).message = messages[j]
  OBVIOUS
<1> HIDE DEF Said
<1>10. \A j \in 1 .. Len(messages) : said'[Len(said) + j] = Said(j)
  BY <1>2, <1>3 DEF more
<1>11. \A j \in 1 .. Len(messages) :
          said'[Len(said) + j].message = messages[j] /\ said'[Len(said) + j].after = optind'
  BY <1>9, <1>10
<1> QED BY <1>3, <1>4, <1>7, <1>8, <1>9, <1>11

LEMMA LastIsLoud ==
    ASSUME NEW T, NEW messages \in Seq(T), messages # <<>>, Complains(Last(messages)),
           NEW n, Last(messages).after = n
    PROVE  Loud(messages, n)
<1>1. Len(messages) \in 1 .. Len(messages) /\ Last(messages) = messages[Len(messages)]
  BY DEF Last
<1>2. (Len(messages) + 1) .. Len(messages) = {}
  OBVIOUS
<1> QED BY <1>1, <1>2 DEF Loud

-----------------------------------------------------------------------------
(***************************************************************************)
(* Options.                                                                *)
(***************************************************************************)
LEMMA Members ==
    ASSUME NEW T, NEW s \in Seq(T)
    PROVE  Len(s) \in Nat /\ \A k \in 1 .. Len(s) : s[k] \in T
  OBVIOUS

LEMMA LineFacts ==
    ASSUME line \in CommandLines
    PROVE  /\ Whole \in Nat /\ line.files \in Nat
           /\ \A k \in 1 .. Whole :
                 /\ line.options[k].letter \in Letters
                 /\ line.options[k].value \in Addresses \cup {NotHex}
<1> DEFINE One == [letter : Letters, value : Addresses \cup {NotHex}]
<1>1. line.files \in Nat /\ line.options \in Seq(One)
  BY Called
<1>2. Whole \in Nat /\ \A k \in 1 .. Whole : line.options[k] \in One
  <2> HIDE DEF One
  <2> QED BY <1>1, Members DEF Whole
<1> QED BY <1>1, <1>2

LEMMA ModesAre ==
    /\ DOMAIN Modes = {"l", "r", "c", "d", "D"}
    /\ \A m \in DOMAIN Modes : Modes[m] \in Range(Modes) /\ Modes[m] # NoMode
  BY DEF Modes, NoMode, Range

LEMMA FreshFields ==
    DOMAIN Fresh = {"opmode", "verbosity", "no_colors", "human_readable",
                    "base_addr", "oval", "flags"}
  BY DEF Fresh

(* There is a mode exactly when one of the options before has set it. *)
LEMMA ModeOrNone ==
    ASSUME NEW n \in Nat
    PROVE  /\ ModeAfter(n) = NoMode <=> Places(DOMAIN Modes, n) = {}
           /\ ModeAfter(n) \in {NoMode} \cup Range(Modes)
<1> DEFINE P == Places(DOMAIN Modes, n)
<1>1. CASE P = {}
  BY <1>1 DEF ModeAfter
<1>2. CASE P # {}
  <2>1. P \subseteq 1 .. n
    BY PlacesType
  <2>2. Max(P) \in P
    BY <1>2, <2>1, LastPlace
  <2>3. line.options[Max(P)].letter \in DOMAIN Modes
    BY <2>2 DEF Places
  <2>4. ModeAfter(n) = Modes[line.options[Max(P)].letter]
    BY <1>2 DEF ModeAfter
  <2> QED BY <1>2, <2>3, <2>4, ModesAre
<1> QED BY <1>1, <1>2

LEMMA Taken ==
    ASSUME CliInv, NEW L, Takes(L)
    PROVE  /\ optind \in Nat /\ Whole \in Nat /\ optind + 1 \in 1 .. Whole
           /\ optind' = optind + 1
           /\ Option = line.options[optind + 1]
           /\ Option.letter \in L /\ Option.letter \in Letters
           /\ Option.value \in Addresses \cup {NotHex}
           /\ UNCHANGED line /\ UNCHANGED done
           /\ done = <<>> /\ at = "options" /\ outcome = "running"
           /\ SettingsFollow(optind) /\ Passed(optind)
<1>1. line \in CommandLines /\ optind \in 0 .. Whole
  BY DEF CliInv, CliTypeOK, Whole
<1>2. Whole \in Nat /\ optind \in Nat /\ optind + 1 \in 1 .. Whole
  BY <1>1, LineFacts DEF Takes, Whole
<1>3. at = "options" /\ Option.letter \in L /\ optind' = optind + 1
      /\ UNCHANGED line /\ UNCHANGED done
  BY DEF Takes
<1>4. SettingsFollow(optind) /\ Passed(optind) /\ outcome = "running"
  BY <1>3 DEF CliInv, Following
<1>5. done = <<>>
  BY <1>3 DEF CliInv, Working
<1>6. Option.letter \in Letters /\ Option.value \in Addresses \cup {NotHex}
  BY <1>1, <1>2, LineFacts DEF Option
<1> QED BY <1>2, <1>3, <1>4, <1>5, <1>6 DEF Option

(* The options so far have passed, and so does one more that is no reason to stop. *)
LEMMA PassedStep ==
    ASSUME NEW n \in Nat, Passed(n),
           line.options[n + 1].letter \notin {"V", "?"},
           line.options[n + 1].letter \in Checked => ModeAfter(n) = NoMode
    PROVE  Passed(n + 1)
<1> DEFINE M == DOMAIN Modes
<1>0. /\ \A k \in Places(M, n) : \A j \in Places(M, n) :
              j < k => line.options[k].letter \in {"d", "D"}
      /\ Places(M, n) # {} => ModeAfter(n) # NoMode
      /\ \A x \in M : x \notin Checked => x \in {"d", "D"}
  BY ModeOrNone, ModesAre DEF Passed, Checked
<1>1. Places({"V", "?"}, n + 1) = {}
  BY SamePlaces DEF Passed
<1> HIDE DEF M
<1>2. ASSUME NEW k \in Places(M, n + 1), NEW j \in Places(M, n + 1), j < k
      PROVE  line.options[k].letter \in {"d", "D"}
  <2>1. Places(M, n) \subseteq 1 .. n /\ Places(M, n + 1) \subseteq 1 .. (n + 1)
    BY PlacesType
  <2>2. CASE k \in Places(M, n)
    <3>1. j \in 1 .. (n + 1) /\ k \in 1 .. n
      BY <2>1, <2>2
    <3>2. j # n + 1
      BY <1>2, <3>1
    <3>3. j \in Places(M, n)
      BY <3>2, PlaceOrNew
    <3> QED BY <1>0, <1>2, <2>2, <3>3
  <2>3. CASE k \notin Places(M, n)
    <3>1. k = n + 1 /\ line.options[n + 1].letter \in M
      BY <2>3, PlaceOrNew
    <3>2. j \in Places(M, n)
      <4>1. j # n + 1
        BY <1>2, <2>1, <3>1
      <4> QED BY <4>1, PlaceOrNew
    <3>3. ModeAfter(n) # NoMode
      BY <1>0, <3>2
    <3> QED BY <1>0, <3>1, <3>3
  <2> QED BY <2>2, <2>3
<1> QED BY <1>1, <1>2 DEF Passed, M

(* The settings before and after an option, field by field. *)
FieldsOf(s) ==
    /\ DOMAIN s = DOMAIN Fresh
    /\ s.opmode = IF Option.letter \in DOMAIN Modes
                  THEN Modes[Option.letter] ELSE settings.opmode
    /\ s.verbosity = CASE Option.letter = "v" -> settings.verbosity + 1
                       [] Option.letter = "s" -> Mute
                       [] OTHER               -> settings.verbosity
    /\ s.no_colors = IF Option.letter = "g" THEN ~settings.no_colors
                                            ELSE settings.no_colors
    /\ s.human_readable = (settings.human_readable \/ Option.letter = "h")
    /\ s.base_addr = IF Option.letter = "A" /\ Option.value # NotHex
                     THEN Option.value ELSE settings.base_addr
    /\ s.oval = IF Option.letter = "o" THEN Option.value ELSE settings.oval
    /\ s.flags = settings.flags

(* What does not stop the process sets what the options up to it ask for. *)
LEMMA Kept ==
    ASSUME CliInv, NEW L, Takes(L), Option.letter \notin {"V", "?"},
           Option.letter \in Checked => settings.opmode = NoMode,
           NEW s, Sets(s), FieldsOf(s)
    PROVE  CliInv'
<1> DEFINE n == optind
<1>0. /\ n \in Nat /\ Whole \in Nat /\ n + 1 \in 1 .. Whole /\ optind' = n + 1
      /\ Option = line.options[n + 1] /\ Option.letter \in Letters
      /\ Option.value \in Addresses \cup {NotHex}
      /\ UNCHANGED <<line, done, said, at, outcome>>
      /\ done = <<>> /\ at = "options" /\ outcome = "running"
      /\ SettingsFollow(n) /\ Passed(n)
  BY Taken DEF Sets, Quiet
<1>1. /\ DOMAIN settings' = DOMAIN Fresh
      /\ settings'.opmode = s.opmode /\ settings'.verbosity = s.verbosity
      /\ settings'.no_colors = s.no_colors /\ settings'.human_readable = s.human_readable
      /\ settings'.base_addr = s.base_addr /\ settings'.oval = s.oval
      /\ settings'.flags = s.flags \cup {Option.letter}
  BY FreshFields DEF Sets, Noted, FieldsOf
<1>2. /\ settings'.verbosity = VerbosityAfter(n + 1)
      /\ settings'.verbosity \in -1 .. (n + 1)
  <2>1. settings.verbosity = VerbosityAfter(n) /\ settings.verbosity \in -1 .. n
    BY <1>0 DEF CliInv, Following, CliTypeOK
  <2>2. CASE Option.letter = "v"
    BY <1>0, <1>1, <2>1, <2>2, LouderVerbosity DEF FieldsOf
  <2>3. CASE Option.letter = "s"
    BY <1>0, <1>1, <2>3, MutedVerbosity DEF Mute, FieldsOf
  <2>4. CASE Option.letter \notin {"v", "s"}
    BY <1>0, <1>1, <2>1, <2>4, SameVerbosity DEF FieldsOf
  <2> QED BY <2>2, <2>3, <2>4
<1>3. /\ settings'.opmode = ModeAfter(n + 1)
      /\ settings'.no_colors = (Cardinality(Places({"g"}, n + 1)) % 2 = 1)
      /\ settings'.human_readable = (Places({"h"}, n + 1) # {})
      /\ settings'.base_addr = LastValue(Numbers(n + 1), 0)
      /\ settings'.oval = LastValue(Places({"o"}, n + 1), NoOutput)
      /\ settings'.flags = {line.options[k].letter : k \in 1 .. (n + 1)}
  <2>1. settings'.opmode = ModeAfter(n + 1)
    BY <1>0, <1>1, LastMode DEF SettingsFollow, FieldsOf
  <2>2. settings'.no_colors = (Cardinality(Places({"g"}, n + 1)) % 2 = 1)
    BY <1>0, <1>1, ColorsToggle DEF SettingsFollow, FieldsOf
  <2>3. settings'.human_readable = (Places({"h"}, n + 1) # {})
    <3>1. settings.human_readable = (Places({"h"}, n) # {})
      BY <1>0 DEF SettingsFollow
    <3>2. CASE Option.letter = "h"
      BY <1>0, <1>1, <3>2, MorePlaces DEF FieldsOf
    <3>3. CASE Option.letter # "h"
      <4>1. Places({"h"}, n + 1) = Places({"h"}, n)
        BY <1>0, <3>3, SamePlaces
      <4> QED BY <1>0, <1>1, <3>1, <3>3, <4>1 DEF FieldsOf
    <3> QED BY <3>2, <3>3
  <2>4. settings'.base_addr = LastValue(Numbers(n + 1), 0)
    BY <1>0, <1>1, LastNumber DEF SettingsFollow, FieldsOf
  <2>5. settings'.oval = LastValue(Places({"o"}, n + 1), NoOutput)
    BY <1>0, <1>1, LastOutput DEF SettingsFollow, FieldsOf
  <2>6. settings'.flags = {line.options[k].letter : k \in 1 .. (n + 1)}
    BY <1>0, <1>1, FlagsGrow DEF SettingsFollow, FieldsOf
  <2> QED BY <2>1, <2>2, <2>3, <2>4, <2>5, <2>6
<1>4. Passed(n + 1)
  BY <1>0, PassedStep DEF SettingsFollow
<1>5. SettingsFollow(optind)' /\ Passed(optind)' /\ settings'.verbosity = VerbosityAfter(optind)'
  <2>1. Passed(optind)' /\ settings'.verbosity = VerbosityAfter(optind)'
    BY <1>0, <1>2, <1>4, StillAsked
  <2>2. /\ settings'.opmode = ModeAfter(optind)'
        /\ settings'.base_addr = LastValue(Numbers(optind), 0)'
        /\ settings'.oval = LastValue(Places({"o"}, optind), NoOutput)'
    BY <1>0, <1>3, StillAsked
  <2>3. /\ settings'.no_colors = (Cardinality(Places({"g"}, optind)) % 2 = 1)'
        /\ settings'.human_readable = (Places({"h"}, optind) # {})'
    BY <1>0, <1>3 DEF Places
  <2>4. settings'.flags = {line'.options[k].letter : k \in 1 .. optind'}
    BY <1>0, <1>3
  <2> QED BY <2>1, <2>2, <2>3, <2>4 DEF SettingsFollow
<1>6. CliTypeOK'
  <2>1. /\ line' \in CommandLines /\ optind' \in 0 .. Len(line'.options)
        /\ at' \in {"options", "dispatch", "work", "exit"}
        /\ outcome' \in {"running", "ok", "failure"}
        /\ Len(done') <= line'.files
    BY <1>0 DEF CliInv, CliTypeOK, Whole
  <2>2. \A k \in 1 .. Len(said') : said'[k].after \in 0 .. optind'
    BY <1>0 DEF CliInv, CliTypeOK
  <2>3. settings'.opmode \in {NoMode} \cup Range(Modes)
    BY <1>0, <1>3, ModeOrNone
  <2>4. settings'.verbosity \in -1 .. Len(line'.options)
    BY <1>0, <1>2 DEF Whole
  <2>5. settings'.no_colors \in BOOLEAN /\ settings'.human_readable \in BOOLEAN
    BY <1>3
  <2>6. settings'.base_addr \in Addresses
    BY <1>0, <1>1 DEF CliInv, CliTypeOK, FieldsOf
  <2>7. settings'.flags \subseteq Letters
    BY <1>0, <1>1 DEF CliInv, CliTypeOK, FieldsOf
  <2> QED BY <2>1, <2>2, <2>3, <2>4, <2>5, <2>6, <2>7 DEF CliTypeOK
<1>7. Following'
  BY <1>0, <1>1, <1>2, <1>5 DEF Following
<1>8. Working' /\ FailsLoudly' /\ EndsAsAccepted'
  BY <1>0 DEF CliInv, Working, FailsLoudly, EndsAsAccepted
<1>9. MessagesTreated'
  BY <1>0, StillTreated DEF CliInv, Quiet
<1> QED BY <1>6, <1>7, <1>8, <1>9 DEF CliInv

LEMMA SameQuestion ==
    ASSUME UNCHANGED line
    PROVE  /\ Accepted' = Accepted
           /\ \A k, r : Asked(k, r)' = Asked(k, r)
  BY DEF Accepted, Asked, ModeAsked, ModePlaces, PlacesOf, Given, LastValue, WithNumber

LEMMA WholePlaces == \A L : PlacesOf(line.options, L) = Places(L, Whole)
  BY DEF PlacesOf, Places, Whole

(* The process ends on an option because of which the line is not acceptable. *)
LEMMA Stopped ==
    ASSUME CliInv, NEW L, Takes(L), Option.letter \notin {"s", "v", "g"}, ~Accepted,
           NEW T, NEW messages \in Seq(T), Gives(messages), messages # <<>>,
           Complains([message |-> messages[Len(messages)]])
    PROVE  CliInv'
<1> DEFINE n == optind
<1>0. /\ n \in Nat /\ Whole \in Nat /\ n + 1 \in 1 .. Whole /\ optind' = n + 1
      /\ Option = line.options[n + 1] /\ Option.letter \in Letters
      /\ UNCHANGED <<line, done>>
      /\ done = <<>> /\ at' = "exit" /\ outcome' = "failure"
      /\ SettingsFollow(n) /\ Passed(n)
  BY Taken DEF Gives, Exit
<1>1. /\ DOMAIN settings' = DOMAIN Fresh
      /\ settings'.opmode = settings.opmode /\ settings'.verbosity = settings.verbosity
      /\ settings'.no_colors = settings.no_colors
      /\ settings'.human_readable = settings.human_readable
      /\ settings'.base_addr = settings.base_addr
      /\ settings'.flags = settings.flags \cup {Option.letter}
  BY FreshFields DEF Gives, Noted, CliInv, Following
<1>2. /\ settings.verbosity = VerbosityAfter(n + 1)
      /\ settings.verbosity \in -1 .. n
      /\ settings.no_colors = (Cardinality(Places({"g"}, n + 1)) % 2 = 1)
  <2>1. settings.verbosity = VerbosityAfter(n) /\ settings.verbosity \in -1 .. n
    BY <1>0 DEF CliInv, Following, CliTypeOK
  <2>2. Places({"g"}, n + 1) = Places({"g"}, n) /\ VerbosityAfter(n + 1) = VerbosityAfter(n)
    BY <1>0, SamePlaces, SameVerbosity
  <2> QED BY <1>0, <2>1, <2>2 DEF SettingsFollow
<1>3. /\ MessagesTreated'
      /\ \A k \in 1 .. Len(said') :
            (k \in 1 .. Len(said) /\ said'[k] = said[k]) \/ said'[k].after = optind'
      /\ said' # <<>>
      /\ Last(said').message = messages[Len(messages)]
      /\ Last(said').after = optind'
  BY <1>0, <1>2, SayTreats DEF Gives, CliInv
<1>4. CliTypeOK'
  <2>1. /\ line' \in CommandLines /\ optind' \in 0 .. Len(line'.options)
        /\ at' \in {"options", "dispatch", "work", "exit"}
        /\ outcome' \in {"running", "ok", "failure"}
        /\ Len(done') <= line'.files
    BY <1>0 DEF CliInv, CliTypeOK, Whole
  <2>2. \A k \in 1 .. Len(said') : said'[k].after \in 0 .. optind'
    BY SMTT(30), <1>0, <1>3 DEF CliInv, CliTypeOK
  <2>3. /\ settings'.opmode \in {NoMode} \cup Range(Modes)
        /\ settings'.verbosity \in -1 .. Len(line'.options)
        /\ settings'.no_colors \in BOOLEAN /\ settings'.human_readable \in BOOLEAN
        /\ settings'.base_addr \in Addresses
        /\ settings'.flags \subseteq Letters
    BY <1>0, <1>1 DEF CliInv, CliTypeOK
  <2> QED BY <2>1, <2>2, <2>3 DEF CliTypeOK
<1>5. Following'
  <2>1. settings'.verbosity = VerbosityAfter(optind)'
    BY <1>0, <1>1, <1>2, StillAsked
  <2> QED BY <1>0, <1>1, <1>2, <2>1 DEF Following
<1>6. Working'
  BY <1>0 DEF CliInv, Working
<1>7. FailsLoudly'
  <2>1. Complains(Last(said')) /\ IsSeq(said)'
    BY <1>3 DEF Complains, MessagesTreated
  <2>2. Loud(said', optind')
    BY <1>3, <2>1, LastIsLoud DEF IsSeq
  <2> QED BY <2>2 DEF FailsLoudly, Loud, Complains
<1>8. EndsAsAccepted'
  BY <1>0, SameQuestion DEF EndsAsAccepted
<1> QED BY <1>3, <1>4, <1>5, <1>6, <1>7, <1>8 DEF CliInv

LEMMA OneMessage ==
    ASSUME NEW m
    PROVE  <<m>> \in Seq({m}) /\ <<m>> # <<>> /\ <<m>>[Len(<<m>>)] = m
  OBVIOUS

LEMMA ErrorComplains == \A text : Complains([message |-> ERROR(text)])
  BY DEF Complains, ERROR, Message

LEMMA UsageComplains ==
    /\ Usage \in Seq({Usage[1], Usage[2]}) /\ Usage # <<>> /\ Len(Usage) = 2
    /\ Complains([message |-> Usage[Len(Usage)]])
  BY DEF Usage, Complains, Message

LEMMA OptionsKeep ==
    ASSUME CliInv,
           \/ SetMode \/ SetDisassembly \/ SetAddress \/ SetOutput \/ SetHuman
           \/ ToggleColors \/ RaiseVerbosity \/ Silence
    PROVE  CliInv'
<1>0. DOMAIN settings = DOMAIN Fresh /\ settings.human_readable \in BOOLEAN
  BY DEF CliInv, Following, CliTypeOK
<1>1. CASE SetMode
  <2> DEFINE s == [settings EXCEPT !.opmode = Modes[Option.letter]]
  <2>1. Takes(Checked) /\ Sets(s) /\ settings.opmode = NoMode
    BY <1>1 DEF SetMode, ModeIsSet
  <2>2. Option.letter \in Checked
    BY <2>1, Taken
  <2>3. FieldsOf(s)
    BY <1>0, <2>2, FreshFields, ModesAre DEF FieldsOf, Checked
  <2>4. Option.letter \notin {"V", "?"} /\ (Option.letter \in Checked => settings.opmode = NoMode)
    BY <2>1, <2>2 DEF Checked
  <2> HIDE DEF s
  <2> QED BY <2>1, <2>3, <2>4, Kept
<1>2. CASE SetDisassembly
  <2> DEFINE s == [settings EXCEPT !.opmode = Modes[Option.letter]]
  <2>1. Takes({"d", "D"}) /\ Sets(s)
    BY <1>2 DEF SetDisassembly
  <2>2. Option.letter \in {"d", "D"}
    BY <2>1, Taken
  <2>3. FieldsOf(s)
    BY <1>0, <2>2, FreshFields, ModesAre DEF FieldsOf
  <2>4. Option.letter \notin {"V", "?"} /\ (Option.letter \in Checked => settings.opmode = NoMode)
    BY <2>1, <2>2 DEF Checked
  <2> HIDE DEF s
  <2> QED BY <2>1, <2>3, <2>4, Kept
<1>3. CASE SetAddress
  <2> DEFINE s == [settings EXCEPT !.base_addr = Scanned(Option.value)]
  <2>1. Takes({"A"}) /\ Sets(s)
    BY <1>3 DEF SetAddress
  <2>2. Option.letter \in {"A"}
    BY <2>1, Taken
  <2>3. FieldsOf(s)
    BY <1>0, <2>2, FreshFields, ModesAre DEF FieldsOf, Scanned
  <2>4. Option.letter \notin {"V", "?"} /\ (Option.letter \in Checked => settings.opmode = NoMode)
    BY <2>1, <2>2 DEF Checked
  <2> HIDE DEF s
  <2> QED BY <2>1, <2>3, <2>4, Kept
<1>4. CASE SetOutput
  <2> DEFINE s == [settings EXCEPT !.oval = Option.value]
  <2>1. Takes({"o"}) /\ Sets(s)
    BY <1>4 DEF SetOutput
  <2>2. Option.letter \in {"o"}
    BY <2>1, Taken
  <2>3. FieldsOf(s)
    BY <1>0, <2>2, FreshFields, ModesAre DEF FieldsOf
  <2>4. Option.letter \notin {"V", "?"} /\ (Option.letter \in Checked => settings.opmode = NoMode)
    BY <2>1, <2>2 DEF Checked
  <2> HIDE DEF s
  <2> QED BY <2>1, <2>3, <2>4, Kept
<1>5. CASE SetHuman
  <2> DEFINE s == [settings EXCEPT !.human_readable = TRUE]
  <2>1. Takes({"h"}) /\ Sets(s)
    BY <1>5 DEF SetHuman
  <2>2. Option.letter \in {"h"}
    BY <2>1, Taken
  <2>3. FieldsOf(s)
    BY <1>0, <2>2, FreshFields, ModesAre DEF FieldsOf
  <2>4. Option.letter \notin {"V", "?"} /\ (Option.letter \in Checked => settings.opmode = NoMode)
    BY <2>1, <2>2 DEF Checked
  <2> HIDE DEF s
  <2> QED BY <2>1, <2>3, <2>4, Kept
<1>6. CASE ToggleColors
  <2> DEFINE s == [settings EXCEPT !.no_colors = ~@]
  <2>1. Takes({"g"}) /\ Sets(s)
    BY <1>6 DEF ToggleColors
  <2>2. Option.letter \in {"g"}
    BY <2>1, Taken
  <2>3. FieldsOf(s)
    BY <1>0, <2>2, FreshFields, ModesAre DEF FieldsOf
  <2>4. Option.letter \notin {"V", "?"} /\ (Option.letter \in Checked => settings.opmode = NoMode)
    BY <2>1, <2>2 DEF Checked
  <2> HIDE DEF s
  <2> QED BY <2>1, <2>3, <2>4, Kept
<1>7. CASE RaiseVerbosity
  <2> DEFINE s == [settings EXCEPT !.verbosity = Louder(@)]
  <2>1. Takes({"v"}) /\ Sets(s)
    BY <1>7 DEF RaiseVerbosity
  <2>2. Option.letter \in {"v"}
    BY <2>1, Taken
  <2>3. FieldsOf(s)
    BY <1>0, <2>2, FreshFields, ModesAre DEF FieldsOf, Louder
  <2>4. Option.letter \notin {"V", "?"} /\ (Option.letter \in Checked => settings.opmode = NoMode)
    BY <2>1, <2>2 DEF Checked
  <2> HIDE DEF s
  <2> QED BY <2>1, <2>3, <2>4, Kept
<1>8. CASE Silence
  <2> DEFINE s == [settings EXCEPT !.verbosity = Mute]
  <2>1. Takes({"s"}) /\ Sets(s)
    BY <1>8 DEF Silence
  <2>2. Option.letter \in {"s"}
    BY <2>1, Taken
  <2>3. FieldsOf(s)
    BY <1>0, <2>2, FreshFields, ModesAre DEF FieldsOf
  <2>4. Option.letter \notin {"V", "?"} /\ (Option.letter \in Checked => settings.opmode = NoMode)
    BY <2>1, <2>2 DEF Checked
  <2> HIDE DEF s
  <2> QED BY <2>1, <2>3, <2>4, Kept
<1> QED BY <1>1, <1>2, <1>3, <1>4, <1>5, <1>6, <1>7, <1>8

(* Two options of which neither may follow the other. *)
LEMMA OptionsStop ==
    ASSUME CliInv, SecondMode \/ NoCase
    PROVE  CliInv'
<1>1. CASE SecondMode
  <2> DEFINE m == ERROR(Text("only one of the -clr options"))
  <2>1. Takes(Checked) /\ settings.opmode # NoMode /\ Gives(<<m>>)
    BY <1>1 DEF SecondMode, ModeIsSet
  <2>2. /\ optind \in Nat /\ Whole \in Nat /\ optind + 1 \in 1 .. Whole
        /\ Option = line.options[optind + 1] /\ Option.letter \in Checked
        /\ settings.opmode = ModeAfter(optind)
    BY <2>1, Taken DEF SettingsFollow
  <2>3. PICK j : j \in Places(DOMAIN Modes, optind)
    BY <2>1, <2>2, ModeOrNone
  <2>4. j \in 1 .. optind /\ line.options[j].letter \in DOMAIN Modes
    BY <2>3 DEF Places
  <2>5. j \in ModePlaces /\ optind + 1 \in ModePlaces
    <3>1. j \in 1 .. Whole
      BY <2>2, <2>4
    <3> QED BY <2>2, <2>4, <3>1, ModesAre DEF ModePlaces, PlacesOf, Checked, Whole
  <2>6. Min(ModePlaces) # optind + 1
    <3>1. ModePlaces \in SUBSET Nat
      BY <2>2 DEF ModePlaces, PlacesOf, Whole
    <3>2. Min(ModePlaces) <= j
      BY <2>5, <3>1, FirstPlace
    <3> QED BY <2>2, <2>4, <3>2
  <2>7. ~Accepted
    BY <2>2, <2>5, <2>6 DEF Accepted, Checked
  <2>8. Option.letter \notin {"s", "v", "g"}
    BY <2>2 DEF Checked
  <2> HIDE DEF m
  <2>9. Complains([message |-> m])
    BY ErrorComplains DEF m
  <2> QED BY <2>1, <2>7, <2>8, <2>9, OneMessage, Stopped
<1>2. CASE NoCase
  <2>1. Takes(Letters \ Cases) /\ Gives(Usage)
    BY <1>2 DEF NoCase
  <2>2. /\ optind + 1 \in 1 .. Whole /\ Option = line.options[optind + 1]
        /\ Option.letter \in Letters \ Cases
    BY <2>1, Taken
  <2>3. Option.letter \in {"V", "?"}
    BY <2>2 DEF Letters, Cases, Checked
  <2>4. ~Accepted
    BY <2>2, <2>3 DEF Accepted, Whole
  <2> QED BY <2>1, <2>3, <2>4, UsageComplains, Stopped
<1> QED BY <1>1, <1>2

-----------------------------------------------------------------------------
(***************************************************************************)
(* main().                                                                 *)
(***************************************************************************)

(* What main() leaves alone. *)
LEMMA MainStays ==
    ASSUME CliInv, MainFrame, at # "exit",
           at' \in {"options", "dispatch", "work", "exit"},
           outcome' \in {"running", "ok", "failure"},
           at' # "exit" => outcome' = "running",
           Len(done') <= line.files,
           \A k \in 1 .. Len(said') :
              (k \in 1 .. Len(said) /\ said'[k] = said[k]) \/ said'[k].after = optind'
    PROVE  CliTypeOK' /\ Following'
<1>0. /\ UNCHANGED <<line, optind, settings>>
      /\ line \in CommandLines /\ optind \in 0 .. Whole /\ Whole \in Nat
      /\ SettingsFollow(optind) /\ Passed(optind)
  BY LineFacts DEF MainFrame, CliInv, CliTypeOK, Following, Whole
<1>1. CliTypeOK'
  <2>1. \A k \in 1 .. Len(said') : said'[k].after \in 0 .. optind'
    BY <1>0 DEF CliInv, CliTypeOK
  <2> QED BY <1>0, <2>1 DEF CliInv, CliTypeOK
<1>2. VerbosityAfter(optind)' = VerbosityAfter(optind)
  BY <1>0, StillAsked
<1>3. SettingsFollow(optind)' /\ Passed(optind)'
  <2>1. Passed(optind)'
    BY <1>0, StillAsked
  <2>2. SettingsFollow(optind)'
    BY <1>0 DEF SettingsFollow, ModeAfter, LastValue, Numbers, Places
  <2> QED BY <2>1, <2>2
<1>4. Following'
  BY <1>0, <1>2, <1>3 DEF CliInv, Following
<1> QED BY <1>1, <1>4

LEMMA MainSays ==
    ASSUME CliInv, MainFrame, at # "exit", NEW T, NEW messages \in Seq(T), Say(messages)
    PROVE  /\ MessagesTreated'
           /\ \A k \in 1 .. Len(said') :
                 (k \in 1 .. Len(said) /\ said'[k] = said[k]) \/ said'[k].after = optind'
           /\ messages # <<>> =>
                 /\ said' # <<>>
                 /\ Last(said').message = messages[Len(messages)]
                 /\ Last(said').after = optind'
           /\ Len(said) \in Nat /\ Len(said') = Len(said) + Len(messages)
           /\ \A j \in 1 .. Len(messages) :
                 /\ said'[Len(said) + j].message = messages[j]
                 /\ said'[Len(said) + j].after = optind'
<1>1. /\ MessagesTreated /\ UNCHANGED line
      /\ settings.verbosity = VerbosityAfter(optind')
      /\ settings.no_colors = (Cardinality(Places({"g"}, optind')) % 2 = 1)
  BY DEF CliInv, MainFrame, Following, SettingsFollow
<1> QED BY <1>1, SayTreats

LEMMA Refused ==
    ASSUME CliInv, at \in {"dispatch", "work"}, done = <<>>, ~Accepted,
           NEW T, NEW messages \in Seq(T), Refuse(messages), messages # <<>>,
           Complains([message |-> messages[Len(messages)]])
    PROVE  CliInv'
<1>0. /\ MainFrame /\ Say(messages) /\ UNCHANGED done
      /\ at' = "exit" /\ outcome' = "failure" /\ at # "exit"
      /\ UNCHANGED <<line, optind, settings>>
  BY DEF Refuse, Exit, MainFrame
<1>1. /\ MessagesTreated'
      /\ \A k \in 1 .. Len(said') :
            (k \in 1 .. Len(said) /\ said'[k] = said[k]) \/ said'[k].after = optind'
      /\ said' # <<>>
      /\ Last(said').message = messages[Len(messages)]
      /\ Last(said').after = optind'
  BY <1>0, MainSays
<1>2. CliTypeOK' /\ Following'
  <2>1. Len(done') <= line.files
    BY <1>0 DEF CliInv, CliTypeOK
  <2> QED BY <1>0, <1>1, <2>1, MainStays
<1>3. Working'
  BY <1>0 DEF CliInv, Working
<1>4. FailsLoudly'
  <2>1. Complains(Last(said')) /\ IsSeq(said)'
    BY <1>1 DEF Complains, MessagesTreated
  <2>2. Loud(said', optind')
    BY <1>1, <2>1, LastIsLoud DEF IsSeq
  <2> QED BY <2>2 DEF FailsLoudly, Loud, Complains
<1>5. EndsAsAccepted'
  BY <1>0, SameQuestion DEF EndsAsAccepted
<1> QED BY <1>1, <1>2, <1>3, <1>4, <1>5 DEF CliInv

LEMMA HeaderKeeps ==
    ASSUME CliInv, Header
    PROVE  CliInv'
<1> DEFINE intro == <<NOTICE(Bold("37") \o Text("nOVL") \o Reset \o Text("version and author")),
                      NOTICE(Text("built"))>>
           messages == intro \o Analysis
           debug == {DEBUG(Text(f)) : f \in Letters}
           T == {intro[1], intro[2]} \cup debug
<1>0. /\ MainFrame /\ Say(messages) /\ UNCHANGED <<done, outcome>>
      /\ at = "options" /\ at' = "dispatch" /\ optind = Whole /\ done = <<>>
      /\ outcome = "running" /\ UNCHANGED <<line, optind, settings>>
  BY DEF Header, MainFrame, CliInv, Working, Following, Whole
<1>1. messages \in Seq(T)
  <2>1. \A f \in Letters : Analysed(f) \in Seq(T)
    <3> SUFFICES ASSUME NEW f \in Letters PROVE Analysed(f) \in Seq(T)
      OBVIOUS
    <3>1. DEBUG(Text(f)) \in T
      OBVIOUS
    <3> HIDE DEF T
    <3> QED BY <3>1 DEF Analysed
  <2>2. intro \in Seq(T)
    OBVIOUS
  <2> HIDE DEF intro, T
  <2>3. Analysis \in Seq(T)
    BY <2>1 DEF Analysis, Letters
  <2> QED BY <2>2, <2>3
<1> HIDE DEF messages
<1>2. /\ MessagesTreated'
      /\ \A k \in 1 .. Len(said') :
            (k \in 1 .. Len(said) /\ said'[k] = said[k]) \/ said'[k].after = optind'
  BY <1>0, <1>1, MainSays
<1>3. CliTypeOK' /\ Following'
  <2>1. Len(done') <= line.files
    BY <1>0 DEF CliInv, CliTypeOK
  <2> QED BY <1>0, <1>2, <2>1, MainStays
<1>4. Working'
  BY <1>0 DEF CliInv, Working, Whole
<1>5. FailsLoudly' /\ EndsAsAccepted'
  BY <1>0 DEF FailsLoudly, EndsAsAccepted
<1> QED BY <1>2, <1>3, <1>4, <1>5 DEF CliInv

(* Once all options are processed, the settings are those asked for. *)
LEMMA SettingsAreAsked ==
    ASSUME CliInv, at \in {"dispatch", "work"}
    PROVE  /\ settings.opmode = NoMode <=> ModePlaces = {}
           /\ settings.opmode # NoMode => settings.opmode = ModeAsked
           /\ settings.base_addr = LastValue(WithNumber, 0)
           /\ settings.oval = LastValue(PlacesOf(line.options, {"o"}), NoOutput)
           /\ settings.human_readable = Given("h")
           /\ \A f : f \in settings.flags <=> Given(f)
           /\ Passed(Whole)
<1>1. optind = Whole /\ Whole \in Nat /\ SettingsFollow(Whole) /\ Passed(Whole)
  BY LineFacts DEF CliInv, CliTypeOK, Following, Working
<1>2. ModePlaces = Places(DOMAIN Modes, Whole) /\ WithNumber = Numbers(Whole)
  BY WholePlaces DEF ModePlaces, WithNumber, Numbers
<1>3. settings.opmode = NoMode <=> ModePlaces = {}
  BY <1>1, <1>2, ModeOrNone DEF SettingsFollow
<1>4. settings.opmode # NoMode => settings.opmode = ModeAsked
  BY <1>1, <1>2, <1>3 DEF SettingsFollow, ModeAfter, ModeAsked
<1>5. /\ settings.base_addr = LastValue(WithNumber, 0)
      /\ settings.oval = LastValue(PlacesOf(line.options, {"o"}), NoOutput)
      /\ settings.human_readable = Given("h")
  BY <1>1, <1>2, WholePlaces DEF SettingsFollow, Given
<1>6. ASSUME NEW f PROVE f \in settings.flags <=> Given(f)
  BY <1>1 DEF SettingsFollow, Given, PlacesOf, Whole
<1> QED BY <1>1, <1>3, <1>4, <1>5, <1>6

LEMMA AcceptedMeans ==
    Accepted =>
        /\ ModePlaces # {}
        /\ ModeAsked = "convert" => line.files = 1 /\ Given("o") /\ Given("A")
  BY DEF Accepted

(* What main() refuses after the options is not acceptable. *)
LEMMA MainRefuses ==
    ASSUME CliInv, NoFiles \/ NoModeGiven \/ ConvertTakesOne \/ Unprepared
    PROVE  CliInv'
<1>0. line.files \in Nat
  BY LineFacts DEF CliInv, CliTypeOK
<1>1. CASE NoFiles
  <2> DEFINE m == ERROR(Text("at least one filename"))
             messages == <<m>> \o Usage
             T == {m, Usage[1], Usage[2]}
  <2>1. at = "dispatch" /\ done = <<>> /\ line.files < 1 /\ Refuse(messages)
    BY <1>1 DEF NoFiles, CliInv, Working
  <2>2. /\ messages \in Seq(T) /\ messages # <<>>
        /\ Complains([message |-> messages[Len(messages)]])
    <3> HIDE DEF m
    <3>1. Usage \in Seq(T) /\ <<m>> \in Seq(T)
      BY UsageComplains
    <3>2. Len(Usage) = 2
      BY UsageComplains
    <3> HIDE DEF T
    <3>3. messages \in Seq(T) /\ Len(messages) = 3 /\ messages[3] = Usage[2]
      BY SMTT(30), <3>1, <3>2
    <3> QED BY <3>2, <3>3, UsageComplains
  <2>3. ~Accepted
    <3> HIDE DEF messages, T
    <3>1. ~(line.files >= 1)
      BY <1>0, <2>1
    <3> QED BY <3>1 DEF Accepted
  <2> HIDE DEF messages, T
  <2> QED BY <2>1, <2>2, <2>3, Refused
<1>2. CASE NoModeGiven
  <2>1. at = "dispatch" /\ done = <<>> /\ settings.opmode = NoMode /\ Refuse(Usage)
    BY <1>2 DEF NoModeGiven, CliInv, Working
  <2>2. ~Accepted
    BY <2>1, SettingsAreAsked, AcceptedMeans
  <2> QED BY <2>1, <2>2, UsageComplains, Refused
<1>3. CASE ConvertTakesOne
  <2> DEFINE m1 == MESG(Text("convert"))
             m2 == ERROR(Text("only one file argument"))
  <2>1. /\ at = "dispatch" /\ done = <<>> /\ settings.opmode = "convert" /\ line.files > 1
        /\ Refuse(<<m1, m2>>)
    BY <1>3 DEF ConvertTakesOne, TooManyFiles, CliInv, Working
  <2>2. ~Accepted
    <3>1. ModeAsked = "convert"
      BY <2>1, SettingsAreAsked DEF NoMode
    <3> HIDE DEF m1, m2
    <3>2. line.files # 1
      BY <1>0, <2>1
    <3> QED BY <3>1, <3>2, AcceptedMeans
  <2>3. Complains([message |-> m2])
    BY ErrorComplains
  <2> HIDE DEF m1, m2
  <2>4. <<m1, m2>> \in Seq({m1, m2}) /\ <<m1, m2>> # <<>> /\ <<m1, m2>>[Len(<<m1, m2>>)] = m2
    OBVIOUS
  <2> QED BY <2>1, <2>2, <2>3, <2>4, Refused
<1>4. CASE Unprepared
  <2> DEFINE m == ERROR(Text(IF "o" \in Lacking THEN "o" ELSE "A"))
  <2>1. at = "work" /\ Lacking # {} /\ Refuse(<<m>>)
    BY <1>4 DEF Unprepared
  <2>2. /\ settings.opmode = "convert"
        /\ "o" \notin settings.flags \/ "A" \notin settings.flags
    BY <2>1 DEF Lacking
  <2>3. ~Accepted
    <3>1. ModeAsked = "convert" /\ (~Given("o") \/ ~Given("A"))
      BY <2>1, <2>2, SettingsAreAsked DEF NoMode
    <3> QED BY <3>1, AcceptedMeans
  <2>4. done = <<>>
    <3>1. /\ Len(done) \in Nat /\ Len(done) < line.files /\ ~TooManyFiles /\ AllOk(Len(done))
      BY <2>1 DEF CliInv, Working
    <3>2. Len(done) = 0
      BY <1>0, <2>2, <3>1 DEF TooManyFiles
    <3> QED BY <3>1, <3>2 DEF AllOk
  <2> HIDE DEF m
  <2>5. Complains([message |-> m])
    BY ErrorComplains DEF m
  <2> QED BY <2>1, <2>3, <2>4, <2>5, OneMessage, Refused
<1> QED BY <1>1, <1>2, <1>3, <1>4

LEMMA DispatchKeeps ==
    ASSUME CliInv, Dispatch
    PROVE  CliInv'
<1> DEFINE m == MESG(Text(settings.opmode))
<1>0. /\ MainFrame /\ Say(<<m>>) /\ UNCHANGED <<done, outcome>>
      /\ at = "dispatch" /\ at' = "work" /\ optind = Whole /\ done = <<>>
      /\ line.files >= 1 /\ settings.opmode # NoMode /\ ~TooManyFiles
      /\ outcome = "running" /\ UNCHANGED <<line, optind, settings>>
      /\ line.files \in Nat
  BY LineFacts DEF Dispatch, MainFrame, CliInv, CliTypeOK, Working, Following
<1> HIDE DEF m
<1>2. /\ MessagesTreated'
      /\ \A k \in 1 .. Len(said') :
            (k \in 1 .. Len(said) /\ said'[k] = said[k]) \/ said'[k].after = optind'
  BY <1>0, OneMessage, MainSays
<1>3. CliTypeOK' /\ Following'
  <2>1. Len(done') <= line.files
    BY <1>0 DEF CliInv, CliTypeOK
  <2> QED BY <1>0, <1>2, <2>1, MainStays
<1>4. Working'
  <2>1. AllOk(Len(done))'
    BY <1>0 DEF AllOk
  <2> QED BY <1>0, <2>1 DEF Working, Whole, TooManyFiles
<1>5. FailsLoudly' /\ EndsAsAccepted'
  BY <1>0 DEF FailsLoudly, EndsAsAccepted
<1> QED BY <1>2, <1>3, <1>4, <1>5 DEF CliInv

LEMMA Appended ==
    ASSUME NEW T, NEW s \in Seq(T), NEW x \in T
    PROVE  /\ Append(s, x) = [k \in 1 .. (Len(s) + 1) |-> IF k = Len(s) + 1 THEN x ELSE s[k]]
           /\ Len(Append(s, x)) = Len(s) + 1
<1> DEFINE t == Append(s, x)
           u == [k \in 1 .. (Len(s) + 1) |-> IF k = Len(s) + 1 THEN x ELSE s[k]]
<1>1. t \in Seq(T) /\ Len(s) \in Nat /\ Len(t) = Len(s) + 1
  OBVIOUS
<1>2. \A k \in 1 .. (Len(s) + 1) : t[k] = u[k]
  OBVIOUS
<1> HIDE DEF t
<1>3. t = [k \in 1 .. (Len(s) + 1) |-> t[k]]
  BY <1>1
<1>4. [k \in 1 .. (Len(s) + 1) |-> t[k]] = u
  BY <1>2
<1> QED BY <1>1, <1>3, <1>4 DEF t

(* In front of the next file: what is known, and that the line is acceptable. *)
LEMMA AtNextFile ==
    ASSUME CliInv, Ready
    PROVE  /\ Accepted
           /\ Len(done) \in Nat /\ line.files \in Nat /\ Len(done) < line.files
           /\ AllOk(Len(done)) /\ at = "work" /\ outcome = "running"
           /\ line.files >= 1 /\ settings.opmode # NoMode /\ ~TooManyFiles
           /\ optind = Whole /\ UNCHANGED <<line, optind, settings>> /\ MainFrame
<1>1. /\ at = "work" /\ Lacking = {} /\ UNCHANGED <<line, optind, settings>> /\ MainFrame
  BY DEF Ready, MainFrame
<1>2. /\ Len(done) \in Nat /\ line.files \in Nat /\ Len(done) < line.files
      /\ AllOk(Len(done)) /\ outcome = "running"
      /\ line.files >= 1 /\ settings.opmode # NoMode /\ ~TooManyFiles /\ optind = Whole
  BY <1>1, LineFacts DEF CliInv, CliTypeOK, Working, Following
<1>3. Passed(Whole) /\ ModePlaces # {} /\ settings.opmode = ModeAsked
      /\ \A f : f \in settings.flags <=> Given(f)
  BY <1>1, <1>2, SettingsAreAsked
<1>4. \A k \in 1 .. Whole : line.options[k].letter \notin {"V", "?"}
  BY <1>3 DEF Passed, Places
<1>5. \A k \in ModePlaces \ {Min(ModePlaces)} : line.options[k].letter \in {"d", "D"}
  <2>1. ModePlaces = Places(DOMAIN Modes, Whole)
    BY WholePlaces DEF ModePlaces
  <2>2. Whole \in Nat
    BY LineFacts DEF CliInv, CliTypeOK
  <2>3. ModePlaces \in SUBSET Nat
    BY <2>2 DEF ModePlaces, PlacesOf, Whole
  <2>4. Min(ModePlaces) \in ModePlaces /\ \A k \in ModePlaces : Min(ModePlaces) <= k
    BY <1>3, <2>3, FirstPlace
  <2>5. ASSUME NEW k \in ModePlaces, k # Min(ModePlaces) PROVE Min(ModePlaces) < k
    <3>1. Min(ModePlaces) \in Nat /\ k \in Nat /\ Min(ModePlaces) <= k
      BY <2>3, <2>4
    <3> QED BY <2>5, <3>1
  <2> QED BY <1>3, <2>1, <2>4, <2>5 DEF Passed
<1>6. ModeAsked = "convert" => line.files = 1 /\ Given("o") /\ Given("A")
  <2> HAVE ModeAsked = "convert"
  <2>1. settings.opmode = "convert"
    BY <1>3
  <2>2. line.files = 1
    <3>1. ~(line.files > 1)
      BY <1>2, <2>1 DEF TooManyFiles
    <3> QED BY <1>2, <3>1
  <2>3. "o" \in settings.flags /\ "A" \in settings.flags
    BY <1>1, <2>1 DEF Lacking
  <2> QED BY <1>3, <2>2, <2>3
<1>7. Accepted
  BY <1>2, <1>3, <1>4, <1>5, <1>6 DEF Accepted, Whole
<1> QED BY <1>1, <1>2, <1>7

LEMMA OneMoreDone ==
    ASSUME CliInv, Ready, NEW r, Processed(r)
    PROVE  /\ Len(done') = Len(done) + 1
           /\ done' = [k \in 1 .. (Len(done) + 1) |->
                          Asked(k, IF k = Len(done) + 1 THEN r ELSE "ok")]
<1> DEFINE n == Len(done)
           T == {Asked(k, "ok") : k \in 1 .. n} \cup {Asked(n + 1, r)}
<1>1. n \in Nat /\ done = [k \in 1 .. n |-> Asked(k, "ok")] /\ at = "work"
      /\ settings.opmode # NoMode
  BY AtNextFile DEF AllOk
<1>2. done' = Append(done, Asked(n + 1, r))
  <2>1. /\ settings.opmode = ModeAsked
        /\ settings.base_addr = LastValue(WithNumber, 0)
        /\ settings.oval = LastValue(PlacesOf(line.options, {"o"}), NoOutput)
        /\ settings.human_readable = Given("h")
    BY <1>1, SettingsAreAsked
  <2> QED BY <2>1 DEF Processed, Asked
<1>3. done \in Seq(T) /\ Asked(n + 1, r) \in T
  <2>1. done \in [1 .. n -> T] /\ Asked(n + 1, r) \in T
    <3> HIDE DEF n
    <3> QED BY <1>1
  <2> HIDE DEF T
  <2> QED BY <1>1, <2>1, Listed
<1> HIDE DEF T
<1>4. /\ done' = [k \in 1 .. (n + 1) |-> IF k = n + 1 THEN Asked(n + 1, r) ELSE done[k]]
      /\ Len(done') = n + 1
  BY <1>2, <1>3, Appended
<1>5. \A k \in 1 .. (n + 1) : (IF k = n + 1 THEN Asked(n + 1, r) ELSE done[k])
                                 = Asked(k, IF k = n + 1 THEN r ELSE "ok")
  <2> SUFFICES ASSUME NEW k \in 1 .. (n + 1), k # n + 1
               PROVE  done[k] = Asked(k, "ok")
    OBVIOUS
  <2>1. k \in 1 .. n
    BY <1>1
  <2> HIDE DEF n
  <2> QED BY <1>1, <2>1
<1> QED BY <1>4, <1>5

LEMMA FileFailsKeeps ==
    ASSUME CliInv, FileFails
    PROVE  CliInv'
<1>0. /\ Ready /\ Processed("failure") /\ \E later \in Later : Say(Failure(later))
      /\ at' = "exit" /\ outcome' = "failure"
  BY DEF FileFails, Exit
<1> DEFINE m == ERROR(Text("cannot be processed"))
           d == DEBUG(Text("entry"))
<1>1. /\ Accepted /\ MainFrame /\ at = "work" /\ UNCHANGED <<line, optind, settings>>
      /\ Len(done) \in Nat /\ line.files \in Nat /\ Len(done) < line.files
  BY <1>0, AtNextFile
<1>2. /\ Len(done') = Len(done) + 1
      /\ done' = [k \in 1 .. (Len(done) + 1) |->
                     Asked(k, IF k = Len(done) + 1 THEN "failure" ELSE "ok")]
  BY <1>0, OneMoreDone
<1>3. Complains([message |-> m]) /\ d.level = Levels.debug
  BY ErrorComplains DEF DEBUG, Message
<1>4. PICK later \in Nat : Say(Failure(later))
  BY <1>0, Called DEF Later
<1> DEFINE messages == Failure(later)
<1>9. /\ messages \in Seq({m, d}) /\ Len(messages) = later + 1 /\ messages[1] = m
      /\ \A j \in 2 .. (later + 1) : messages[j] = d
  <2>1. [k \in 1 .. later |-> d] \in [1 .. later -> {m, d}]
    OBVIOUS
  <2> DEFINE more == [k \in 1 .. later |-> d]
  <2>2. more \in Seq({m, d}) /\ Len(more) = later
    BY <1>4, <2>1, Listed
  <2>3. messages = <<m>> \o more
    BY DEF Failure
  <2>4. \A k \in 1 .. later : more[k] = d
    OBVIOUS
  <2> HIDE DEF m, d, more, messages
  <2>5. <<m>> \in Seq({m, d}) /\ Len(<<m>>) = 1 /\ <<m>>[1] = m
    OBVIOUS
  <2>6. /\ messages \in Seq({m, d}) /\ Len(messages) = 1 + later
        /\ messages[1] = m
        /\ \A k \in 1 .. later : messages[1 + k] = d
    BY <2>2, <2>3, <2>4, <2>5, Joined
  <2>7. ASSUME NEW j \in 2 .. (later + 1) PROVE messages[j] = d
    <3>1. j - 1 \in 1 .. later /\ 1 + (j - 1) = j
      BY <1>4
    <3> QED BY <2>6, <3>1
  <2> QED BY <1>4, <2>6, <2>7
<1> HIDE DEF m, d, messages
<1>10. /\ MessagesTreated'
       /\ \A k \in 1 .. Len(said') :
             (k \in 1 .. Len(said) /\ said'[k] = said[k]) \/ said'[k].after = optind'
       /\ Len(said) \in Nat /\ Len(said') = Len(said) + (later + 1)
       /\ \A j \in 1 .. (later + 1) :
             /\ said'[Len(said) + j].message = messages[j]
             /\ said'[Len(said) + j].after = optind'
  <2>1. Say(messages) /\ at # "exit"
    BY <1>1, <1>4 DEF messages
  <2> QED BY <1>1, <1>9, <2>1, MainSays
<1>5. CliTypeOK' /\ Following'
  <2>1. Len(done') <= line.files
    BY <1>1, <1>2
  <2> QED BY <1>0, <1>1, <1>10, <2>1, MainStays
<1>6. Working'
  BY <1>0, <1>1, <1>2 DEF Working
<1>7. FailsLoudly'
  <2>1. Len(said) + 1 \in 1 .. Len(said') /\ 1 \in 1 .. (later + 1)
    BY <1>4, <1>10
  <2>2. Complains(said'[Len(said) + 1]) /\ said'[Len(said) + 1].after = optind'
    BY <1>3, <1>9, <1>10, <2>1 DEF Complains
  <2>3. ASSUME NEW k \in (Len(said) + 2) .. Len(said')
        PROVE  said'[k].message.level = Levels.debug
    <3>1. k - Len(said) \in 2 .. (later + 1) /\ Len(said) + (k - Len(said)) = k
      BY <1>4, <1>10
    <3>2. said'[Len(said) + (k - Len(said))].message = messages[k - Len(said)]
      BY <1>4, <1>10, <3>1
    <3> QED BY <1>3, <1>9, <3>1, <3>2
  <2>4. Len(said) + 1 + 1 = Len(said) + 2
    BY <1>10
  <2>5. Loud(said', optind')
    BY <2>1, <2>2, <2>3, <2>4 DEF Loud
  <2> QED BY <2>5 DEF FailsLoudly, Loud, Complains
<1>8. EndsAsAccepted'
  <2>1. Accepted' /\ done' # <<>>
    BY <1>1, <1>2, SameQuestion
  <2>2. done' = [k \in 1 .. Len(done') |->
                   Asked(k, IF k = Len(done') THEN "failure" ELSE "ok")]
    BY <1>2
  <2>3. (done = [k \in 1 .. Len(done) |->
                   Asked(k, IF k = Len(done) THEN "failure" ELSE "ok")])'
    <3>1. [k \in 1 .. Len(done) |->
             Asked(k, IF k = Len(done) THEN "failure" ELSE "ok")]'
            = [k \in 1 .. Len(done') |->
                 Asked(k, IF k = Len(done') THEN "failure" ELSE "ok")]
      BY <1>1 DEF Asked, ModeAsked, ModePlaces, PlacesOf, Given, LastValue, WithNumber
    <3> QED BY <2>2, <3>1
  <2> QED BY <1>0, <2>1, <2>3 DEF EndsAsAccepted
<1> QED BY <1>10, <1>5, <1>6, <1>7, <1>8 DEF CliInv

LEMMA FileSucceedsKeeps ==
    ASSUME CliInv, FileSucceeds
    PROVE  CliInv'
<1> DEFINE m == NOTICE(Text("finished"))
<1>0. /\ Ready /\ Processed("ok") /\ (Say(<<m>>) \/ Quiet)
      /\ \/ LastFile /\ at' = "exit" /\ outcome' = "ok"
         \/ ~LastFile /\ UNCHANGED <<at, outcome>>
  BY DEF FileSucceeds, Exit
<1>1. /\ Accepted /\ MainFrame /\ at = "work" /\ UNCHANGED <<line, optind, settings>>
      /\ Len(done) \in Nat /\ line.files \in Nat /\ Len(done) < line.files
      /\ line.files >= 1 /\ settings.opmode # NoMode /\ ~TooManyFiles /\ optind = Whole
      /\ outcome = "running"
  BY <1>0, AtNextFile
<1>2. /\ Len(done') = Len(done) + 1
      /\ done' = [k \in 1 .. (Len(done) + 1) |-> Asked(k, "ok")]
  BY <1>0, OneMoreDone
<1> HIDE DEF m
<1>4. /\ MessagesTreated'
      /\ \A k \in 1 .. Len(said') :
            (k \in 1 .. Len(said) /\ said'[k] = said[k]) \/ said'[k].after = optind'
  <2>1. CASE Say(<<m>>)
    BY <1>1, <2>1, OneMessage, MainSays
  <2>2. CASE Quiet
    <3>1. MessagesTreated'
      BY <1>1, <2>2, StillTreated DEF CliInv
    <3> QED BY <2>2, <3>1 DEF Quiet
  <2> QED BY <1>0, <2>1, <2>2
<1>5. CliTypeOK' /\ Following'
  <2>1. Len(done') <= line.files
    BY <1>1, <1>2
  <2> QED BY <1>0, <1>1, <1>4, <2>1, MainStays
<1>6. AllOk(Len(done))'
  BY <1>2, SameQuestion, <1>1 DEF AllOk
<1>7. CASE LastFile
  <2>1. at' = "exit" /\ outcome' = "ok" /\ Len(done') = line'.files
    BY <1>0, <1>1, <1>2, <1>7 DEF LastFile
  <2>2. Working' /\ FailsLoudly'
    BY <1>1, <1>2, <2>1 DEF Working, FailsLoudly
  <2>3. EndsAsAccepted'
    BY <1>1, <1>6, <2>1, SameQuestion DEF EndsAsAccepted, AllOk
  <2> QED BY <1>4, <1>5, <2>2, <2>3 DEF CliInv
<1>8. CASE ~LastFile
  <2>1. UNCHANGED <<at, outcome>> /\ Len(done') < line'.files
    BY <1>0, <1>1, <1>2, <1>8 DEF LastFile
  <2>2. Working'
    BY <1>1, <1>2, <1>6, <2>1 DEF Working, Whole, TooManyFiles
  <2>3. FailsLoudly' /\ EndsAsAccepted'
    BY <1>1, <2>1 DEF FailsLoudly, EndsAsAccepted
  <2> QED BY <1>4, <1>5, <2>2, <2>3 DEF CliInv
<1> QED BY <1>7, <1>8

-----------------------------------------------------------------------------
LEMMA CliInitially == Init => CliInv
<1> SUFFICES ASSUME Init PROVE CliInv
  OBVIOUS
<1>1. line \in CommandLines /\ Whole \in Nat /\ line.files \in Nat
  BY LineFacts DEF Init
<1>2. \A L : Places(L, 0) = {}
  BY DEF Places
<1>3. VerbosityAfter(0) = 0
  BY <1>2, FS_EmptySet DEF VerbosityAfter, Raises, Silences
<1>4. SettingsFollow(0)
  <2>1. ModeAfter(0) = NoMode /\ LastValue(Numbers(0), 0) = 0
        /\ LastValue(Places({"o"}, 0), NoOutput) = NoOutput
    BY <1>2 DEF ModeAfter, LastValue, Numbers
  <2>2. Cardinality(Places({"g"}, 0)) = 0 /\ ~(0 % 2 = 1)
    BY <1>2, FS_EmptySet
  <2>3. {line.options[k].letter : k \in 1 .. 0} = {}
    OBVIOUS
  <2> QED BY <1>2, <2>1, <2>2, <2>3 DEF SettingsFollow, Init, Fresh
<1>5. Passed(0)
  BY <1>2 DEF Passed
<1>6. CliTypeOK
  BY <1>1, Called DEF Init, CliTypeOK, Fresh, Whole
<1>7. Following
  BY <1>3, <1>4, <1>5 DEF Following, Init, Fresh
<1>8. Working /\ FailsLoudly /\ EndsAsAccepted /\ MessagesTreated
  BY DEF Working, FailsLoudly, EndsAsAccepted, MessagesTreated, IsSeq, Init
<1> QED BY <1>6, <1>7, <1>8 DEF CliInv

LEMMA CliStutters ==
    ASSUME CliInv, UNCHANGED vars
    PROVE  CliInv'
<1>1. UNCHANGED <<line, optind, settings, at, outcome, said, done>>
  BY DEF vars
<1>2. MessagesTreated'
  BY <1>1, StillTreated DEF CliInv, Quiet
<1>3. CliTypeOK' /\ FailsLoudly'
  BY <1>1 DEF CliInv, CliTypeOK, FailsLoudly
<1>4. Following'
  <2>1. VerbosityAfter(optind)' = VerbosityAfter(optind) /\ Passed(optind)' = Passed(optind)
    BY <1>1, StillAsked
  <2>2. SettingsFollow(optind)' = SettingsFollow(optind)
    BY <1>1 DEF SettingsFollow, ModeAfter, LastValue, Numbers, Places
  <2> QED BY <1>1, <2>1, <2>2 DEF CliInv, Following
<1>5. AllOk(Len(done))' = AllOk(Len(done))
  BY <1>1, SameQuestion DEF AllOk
<1>6. Working'
  BY <1>1, <1>5 DEF CliInv, Working, Whole, TooManyFiles
<1>7. EndsAsAccepted'
  BY <1>1, SameQuestion DEF CliInv, EndsAsAccepted
<1> QED BY <1>2, <1>3, <1>4, <1>6, <1>7 DEF CliInv

LEMMA CliStep == CliInv /\ [Next]_vars => CliInv'
<1> SUFFICES ASSUME CliInv, [Next]_vars PROVE CliInv'
  OBVIOUS
<1>1. CASE SetMode \/ SetDisassembly \/ SetAddress \/ SetOutput \/ SetHuman
           \/ ToggleColors \/ RaiseVerbosity \/ Silence
  BY <1>1, OptionsKeep
<1>2. CASE SecondMode \/ NoCase
  BY <1>2, OptionsStop
<1>3. CASE Header
  BY <1>3, HeaderKeeps
<1>4. CASE NoFiles \/ NoModeGiven \/ ConvertTakesOne \/ Unprepared
  BY <1>4, MainRefuses
<1>5. CASE Dispatch
  BY <1>5, DispatchKeeps
<1>6. CASE FileFails
  BY <1>6, FileFailsKeeps
<1>7. CASE FileSucceeds
  BY <1>7, FileSucceedsKeeps
<1>8. CASE Ended \/ UNCHANGED vars
  BY <1>8, CliStutters DEF Ended
<1> QED BY <1>1, <1>2, <1>3, <1>4, <1>5, <1>6, <1>7, <1>8 DEF Next

THEOREM CliInvariant == Spec => []CliInv
  BY CliInitially, CliStep, PTL DEF Spec

(* The variables stay what they are meant to be, the level of verbosity between
   "silent" and one more for each option (main.c:254-475). *)
THEOREM CliTypeCorrect == Spec => []CliTypeOK
<1>1. CliInv => CliTypeOK
  BY DEF CliInv
<1> QED BY <1>1, CliInvariant, PTL

(* On lines that are not disputed the program accepts what the manual does. *)
LEMMA EndsAsDocumented ==
    ASSUME CliTypeOK, EndsAsAccepted
    PROVE  EndsAsAsked
<1>1. ModePlaces \in SUBSET Nat
  <2>1. Whole \in Nat
    BY LineFacts DEF CliTypeOK
  <2> QED BY <2>1 DEF ModePlaces, PlacesOf, Whole
<1>2. Given("V") <=> \E k \in 1 .. Len(line.options) : line.options[k].letter = "V"
  BY DEF Given, PlacesOf
<1>3. ASSUME ModePlaces # {}
      PROVE  Min(ModePlaces) \in ModePlaces /\ \A k \in ModePlaces : Min(ModePlaces) <= k
  BY <1>1, <1>3, FirstPlace
<1>4. ASSUME ~Disputed, Acceptable PROVE Accepted
  <2>1. PICK k \in ModePlaces : ModePlaces = {k}
    BY <1>4 DEF Acceptable, OneMode
  <2>2. Min(ModePlaces) = k
    BY <1>3, <2>1
  <2>3. ModePlaces \ {Min(ModePlaces)} = {}
    BY <2>1, <2>2
  <2>4. \A j \in 1 .. Len(line.options) : line.options[j].letter \notin {"V", "?"}
    BY <1>2, <1>4 DEF Acceptable, Disputed
  <2> QED BY <1>4, <2>1, <2>3, <2>4 DEF Accepted, Acceptable
<1>5. ASSUME ~Disputed, Accepted PROVE Acceptable
  <2>1. ModePlaces # {}
    BY <1>5 DEF Accepted
  <2> DEFINE m == Min(ModePlaces)
  <2>2. m \in ModePlaces /\ m \in Nat /\ \A k \in ModePlaces : k \in Nat /\ m <= k
    BY <1>1, <1>3, <2>1
  <2> HIDE DEF m
  <2>3. ASSUME NEW k \in ModePlaces, k # m PROVE FALSE
    <3>1. m < k
      BY <2>2, <2>3
    <3>2. line.options[k].letter \in {"d", "D"}
      BY <1>5, <2>3 DEF Accepted, m
    <3> QED BY <1>5, <2>2, <3>1, <3>2 DEF Disputed
  <2>4. OneMode
    BY <2>2, <2>3 DEF OneMode
  <2>5. \A j \in 1 .. Len(line.options) : line.options[j].letter # "?"
    BY <1>5 DEF Accepted
  <2> QED BY <1>5, <2>4, <2>5 DEF Accepted, Acceptable
<1>6. ASSUME outcome = "ok"
      PROVE  done = [k \in 1 .. line.files |-> Asked(k, "ok")] /\ (Disputed \/ Acceptable)
  BY <1>5, <1>6 DEF EndsAsAccepted
<1>7. ASSUME outcome = "failure", ~Disputed
      PROVE  IF Acceptable
             THEN done = [k \in 1 .. Len(done) |->
                             Asked(k, IF k = Len(done) THEN "failure" ELSE "ok")]
                  /\ done # <<>>
             ELSE done = <<>>
  <2>1. Acceptable <=> Accepted
    BY <1>4, <1>5, <1>7
  <2> QED BY <1>7, <2>1 DEF EndsAsAccepted
<1> QED BY <1>6, <1>7 DEF EndsAsAsked

(* Whatever the options, their number, their order and the number of files: the
   exit status, the files touched, the mode and the base address they are
   processed with are those the line as a whole asks for, but for the two kinds
   of disputed line, of which only success is told (main.c:254-475). *)
THEOREM EndsRight == Spec => []EndsAsAsked
<1>1. CliInv => EndsAsAsked
  BY EndsAsDocumented DEF CliInv
<1> QED BY <1>1, CliInvariant, PTL

(* Every message is put through mk_mesg_f() with the verbosity and the choice of
   colours of the options up to it, and a process that fails says an error or its
   usage after the last option it looks at, and then nothing but debug messages
   (mesg.c:80-85, main.c:339-351, novl-conv.c:330-356). *)
THEOREM MessagesAsAsked == Spec => [](MessagesTreated /\ FailsLoudly)
<1>1. CliInv => MessagesTreated /\ FailsLoudly
  BY DEF CliInv
<1> QED BY <1>1, CliInvariant, PTL
=============================================================================
