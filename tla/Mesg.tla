-------------------------------- MODULE Mesg --------------------------------
(***************************************************************************)
(* src/src/mesg.c: which messages are shown, and what is left of them when *)
(* colours are off.  A message is a sequence of pieces: the characters of  *)
(* escape sequences one by one, and pieces of wording.                     *)
(***************************************************************************)
EXTENDS Integers, Sequences, SequencesExt

(* NOVL_VERBOSE_NOTICE and so on: shown with no -v, one, two, three. *)
Levels == [notice |-> 0, message |-> 1, debug |-> 2, debug2 |-> 3]

(* ansi.h *)
Esc == "\\033"
Color(number) == <<Esc, "[", "0", ";", number, "m">>
Bold(number)  == <<Esc, "[", "1", ";", number, "m">>
Reset         == <<Esc, "[", "0", "m">>

(* "[" ANSI_SET_FG_... "-" ANSI_RESET_DEFAULT "]" *)
Symbol_colorless(number, mark) == <<"[", mark, "]">>    \* a slip: a plain symbol
Symbol(number, mark) == <<"[">> \o Color(number) \o <<mark>> \o Reset \o <<"]">>

(* A text, told from the others by its name.  Like most wording it has an "m" in
   it, the character that ends an escape sequence. *)
Text(name) == <<name, "m">>

(* What the caller says: a level, a symbol and a text. *)
Message(level, symbol, text) == [level |-> Levels[level], symbol |-> symbol, text |-> text]

NOTICE(text) == Message("notice",  Symbol("34", "-"), text)
MESG(text)   == Message("message", Symbol("34", "-"), text)
ERROR(text)  == Message("notice",  Symbol("31", "!"), text)
DEBUG(text)  == Message("debug",   Symbol("32", "@"), text)

-----------------------------------------------------------------------------
(***************************************************************************)
(* From an Esc on nothing is copied through the next "m".  Every Esc in a  *)
(* message has its "m"; without one the loop would run past the end.       *)
(***************************************************************************)
mesg_strip_stops_early(str) ==    \* a slip: the "m" itself is copied
    FoldLeft(LAMBDA acc, c :
                 CASE c = "m"      -> [new |-> Append(acc.new, c), skip |-> FALSE]
                   [] c = Esc      -> [acc EXCEPT !.skip = TRUE]
                   [] acc.skip     -> acc
                   [] OTHER        -> [acc EXCEPT !.new = Append(@, c)],
             [new |-> <<>>, skip |-> FALSE], str).new

mesg_strip_control_characters(str) ==
    FoldLeft(LAMBDA acc, c :
                 IF acc.skip \/ c = Esc
                 THEN [acc EXCEPT !.skip = (c # "m")]
                 ELSE [acc EXCEPT !.new = Append(@, c)],
             [new |-> <<>>, skip |-> FALSE], str).new

(* The whole message, "%s %s\n". *)
Final(msg) == msg.symbol \o <<" ">> \o msg.text \o <<"\n">>

(* What mk_mesg_f() writes to stderr, nothing above the verbosity. *)
mk_mesg_f(msg, verbosity, no_colors) ==
    CASE msg.level > verbosity -> <<>>
      [] no_colors             -> mesg_strip_control_characters(Final(msg))
      [] OTHER                 -> Final(msg)

=============================================================================
