-------------------------- MODULE NovlCliProperties --------------------------
(***************************************************************************)
(* What a command line asks for, told from the line as a whole, and that   *)
(* processing it option by option does just that.                          *)
(***************************************************************************)
EXTENDS NovlCli, FiniteSets

CliTypeOK ==
    /\ line \in CommandLines
    /\ optind \in 0 .. Len(line.options)
    /\ settings.opmode \in {NoMode} \cup Range(Modes)
    /\ settings.verbosity \in -1 .. Len(line.options)
    /\ settings.no_colors \in BOOLEAN /\ settings.human_readable \in BOOLEAN
    /\ settings.base_addr \in Addresses
    /\ settings.flags \subseteq Letters
    /\ at \in {"options", "dispatch", "work", "exit"}
    /\ outcome \in {"running", "ok", "failure"}
    /\ Len(done) <= line.files
    /\ \A k \in 1 .. Len(said) : said[k].after \in 0 .. optind

-----------------------------------------------------------------------------
(***************************************************************************)
(* Reading a command line.                                                 *)
(***************************************************************************)
PlacesOf(options, letters) == {k \in 1 .. Len(options) : options[k].letter \in letters}

Given(letter) == PlacesOf(line.options, {letter}) # {}

(* The value of the last of some options. *)
LastValue(places, default) ==
    IF places = {} THEN default ELSE line.options[Max(places)].value

WithNumber == {k \in PlacesOf(line.options, {"A"}) : line.options[k].value # NotHex}

ModePlaces == PlacesOf(line.options, DOMAIN Modes)

ModeAsked == Modes[line.options[Max(ModePlaces)].letter]

OneMode == \E k \in ModePlaces : ModePlaces = {k}

(* What doc/nOVL.1 asks of a command line: no option it does not list, "one of the
   -clrDd options", files; and for a conversion one file, -o and -A. *)
Acceptable ==
    /\ \A k \in 1 .. Len(line.options) : line.options[k].letter # "?"
    /\ OneMode
    /\ line.files >= 1
    /\ ModeAsked = "convert" => line.files = 1 /\ Given("o") /\ Given("A")

(* The two kinds of line that the program does not treat that way.  -V is in the manual
   (doc/nOVL.1:67-69), in the usage (main.c:70) and in flags_fmt, but has no case in the
   switch (main.c:354): it is refused.  -d and -D do not call check_opmode() and replace
   the mode before them (main.c:297-309): two modes are accepted. *)
Disputed ==
    \/ Given("V")
    \/ \E j, k \in ModePlaces : j < k /\ line.options[k].letter \in {"d", "D"}

Asked(k, result) ==
    [file |-> k, result |-> result, mode |-> ModeAsked,
     base |-> LastValue(WithNumber, 0),
     output |-> LastValue(PlacesOf(line.options, {"o"}), NoOutput), human |-> Given("h")]

(* When the exit status is zero, every file has been processed in the mode and at
   the base address that the line asks for last; and but for disputed lines it is
   zero only for an acceptable line, one that is refused has touched no file, and
   the first file that fails is the last that is looked at (main.c:254-475;
   doc/nOVL.1, DESCRIPTION and RETURN VALUE). *)
EndsAsAsked ==
    /\ outcome = "ok" =>
          /\ done = [k \in 1 .. line.files |-> Asked(k, "ok")]
          /\ Disputed \/ Acceptable
    /\ outcome = "failure" /\ ~Disputed =>
          IF Acceptable
          THEN done = [k \in 1 .. Len(done) |->
                          Asked(k, IF k = Len(done) THEN "failure" ELSE "ok")]
               /\ done # <<>>
          ELSE done = <<>>

-----------------------------------------------------------------------------
(***************************************************************************)
(* Messages.                                                               *)
(***************************************************************************)

(* One level for each -v after the last -s, which hides notices too. *)
VerbosityAsked(options) ==
    LET silenced == PlacesOf(options, {"s"})
        start    == IF silenced = {} THEN 0 ELSE Max(silenced)
    IN  Cardinality({k \in PlacesOf(options, {"v"}) : k > start})
            - (IF silenced = {} THEN 0 ELSE 1)

(* Every second -g turns colours on again. *)
ColorsOff(options) == Cardinality(PlacesOf(options, {"g"})) % 2 = 1

OptionsBefore(m) == SubSeq(line.options, 1, m.after)

(* The pieces of a message outside of any escape sequence. *)
InEscape(str, p) ==
    \E e \in 1 .. p : str[e] = Esc /\ \A q \in e .. (p - 1) : str[q] # "m"

Visible(str) ==
    LET outside  == {p \in 1 .. Len(str) : ~InEscape(str, p)}
        place(p) == Cardinality({q \in outside : q <= p})
    IN  [k \in 1 .. Cardinality(outside) |-> str[CHOOSE p \in outside : place(p) = k]]

Heard(m) == m.message.level <= VerbosityAsked(OptionsBefore(m))

Styled(m, str) == IF ColorsOff(OptionsBefore(m)) THEN Visible(str) ELSE str

(* The buffer of the copy without colours is as long as the message. *)
FitsBuffer(str) == Len(mesg_strip_control_characters(str)) + 1 <= Len(str)

(* A message is written exactly when its level is within the verbosity asked for
   by the options up to then, in silent mode never (mesg.c:80-85, main.c:339-351;
   doc/nOVL.1, -s and -v).  With -g what is written is the message without its
   escape sequences and with every other character (mesg.c:42-106); the copy is
   made in a buffer that has no room for the final NUL (mesg.c:49, 67): it fits
   only because something is left out of every message. *)
ShownAsAsked ==
    \A k \in 1 .. Len(said) :
        LET m == said[k]
            all == Final(m.message)
        IN  /\ m.shown = IF Heard(m) THEN Styled(m, all) ELSE <<>>
            /\ FitsBuffer(all)

Complaints == {Symbol("31", "!"), Symbol("33", "?")}


=============================================================================
