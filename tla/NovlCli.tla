------------------------------- MODULE NovlCli -------------------------------
(***************************************************************************)
(* src/src/main.c: options are processed one by one in the order given,    *)
(* then the mode they have set is run on the files named.  What a mode     *)
(* does with one file is NovlConv or OvlLoad; here a file is processed or  *)
(* the process fails on it.                                                *)
(***************************************************************************)
EXTENDS Mesg

CONSTANTS
    CommandLines,   \* what the program may be called with
    Addresses,      \* the numbers -A may be given
    MaxLater        \* bound on the messages between an error and the exit

(* -A and -o have a value, that of -o stands for a name.  "?" is what getopt()
   returns for a letter that is not in flags_fmt, and for a missing argument. *)
Letters == {"c", "l", "r", "D", "d", "V", "g", "v", "s", "h", "o", "A", "?"}

(* An argument of -A that sscanf("%X") can make nothing of. *)
NotHex == -1

ASSUME Called ==
    /\ 0 \in Addresses /\ Addresses \subseteq Nat
    /\ MaxLater \in Nat
    /\ \A line \in CommandLines :
          /\ line.files \in Nat
          /\ line.options \in Seq([letter : Letters, value : Addresses \cup {NotHex}])

VARIABLES
    line,       \* the options and the number of files
    optind,     \* the options processed
    settings,   \* settings, with its flags, and oval
    at,         \* the place reached
    outcome,    \* the exit status
    said,       \* every message, what was written of it, and after which option
    done        \* what was done to which file

vars == <<line, optind, settings, at, outcome, said, done>>

Modes == [l |-> "sections", r |-> "relocations", c |-> "convert",
          d |-> "text", D |-> "all"]

NoMode   == "none"
NoOutput == -1

(* settings and oval in a fresh process. *)
Fresh == [opmode |-> NoMode, verbosity |-> 0, no_colors |-> FALSE,
          human_readable |-> FALSE, base_addr |-> 0, oval |-> NoOutput, flags |-> {}]

Init ==
    /\ line \in CommandLines
    /\ optind = 0 /\ settings = Fresh /\ at = "options" /\ outcome = "running"
    /\ said = <<>> /\ done = <<>>

Say(messages) ==
    said' = said \o [k \in 1 .. Len(messages) |->
        [message |-> messages[k], after |-> optind',
         shown   |-> mk_mesg_f(messages[k], settings.verbosity, settings.no_colors)]]

Quiet == said' = said

Exit(how) == at' = "exit" /\ outcome' = how

(* show_usage() ends with exit(EXIT_FAILURE). *)
Usage ==
    LET question == Symbol("33", "?")
    IN  <<Message("notice", question, Text("application prototype")),
          Message("notice", question, Text("usage"))>>

-----------------------------------------------------------------------------
(***************************************************************************)
(* args_process().                                                         *)
(***************************************************************************)
Option == line.options[optind + 1]

Takes(letters) ==
    /\ at = "options" /\ optind < Len(line.options)
    /\ Option.letter \in letters
    /\ optind' = optind + 1
    /\ UNCHANGED <<line, done>>

(* SET_FLAG(c) before anything else. *)
Noted(s) == [s EXCEPT !.flags = @ \cup {Option.letter}]

Sets(s) == /\ settings' = Noted(s)
           /\ Quiet /\ UNCHANGED <<at, outcome>>

Gives(messages) == /\ settings' = Noted(settings)
                   /\ Say(messages) /\ Exit("failure")

Checked == {"l", "r", "c"}

(* check_opmode() *)
ModeIsSet_other == settings.opmode \in {"sections", "relocations"}    \* a slip: -c is forgotten
ModeIsSet == settings.opmode # NoMode

SetMode ==
    /\ Takes(Checked) /\ ~ModeIsSet
    /\ Sets([settings EXCEPT !.opmode = Modes[Option.letter]])

SecondMode ==
    /\ Takes(Checked) /\ ModeIsSet
    /\ Gives(<<ERROR(Text("only one of the -clr options"))>>)

SetDisassembly ==
    /\ Takes({"d", "D"})
    /\ Sets([settings EXCEPT !.opmode = Modes[Option.letter]])

(* Without a number the address stays what it was. *)
Scanned(value) == IF value = NotHex THEN settings.base_addr ELSE value

SetAddress == Takes({"A"}) /\ Sets([settings EXCEPT !.base_addr = Scanned(Option.value)])

SetOutput  == Takes({"o"}) /\ Sets([settings EXCEPT !.oval = Option.value])

SetHuman   == Takes({"h"}) /\ Sets([settings EXCEPT !.human_readable = TRUE])

ToggleColors == Takes({"g"}) /\ Sets([settings EXCEPT !.no_colors = ~@])

Louder_backwards(v) == v - 1    \* a slip: -- for ++
Louder(v) == v + 1

RaiseVerbosity == Takes({"v"}) /\ Sets([settings EXCEPT !.verbosity = Louder(@)])

Mute_notices == 0    \* a slip: notices are still shown
Mute == -1

Silence == Takes({"s"}) /\ Sets([settings EXCEPT !.verbosity = Mute])

(* "?", and any letter the switch has no case for: -V is in flags_fmt. *)
Cases == Checked \cup {"d", "D", "A", "o", "h", "g", "v", "s"}

NoCase == Takes(Letters \ Cases) /\ Gives(Usage)

-----------------------------------------------------------------------------
(***************************************************************************)
(* main().                                                                 *)
(***************************************************************************)
MainFrame == UNCHANGED <<line, optind, settings>>

(* "Analyze flags": one line for each of these that was given. *)
Analysed(f) == IF f \in settings.flags THEN <<DEBUG(Text(f))>> ELSE <<>>

Analysis == Analysed("A") \o Analysed("o") \o Analysed("h") \o Analysed("V") \o Analysed("g")

Header ==
    /\ at = "options" /\ optind = Len(line.options)
    /\ MainFrame
    /\ Say(<<NOTICE(Bold("37") \o Text("nOVL") \o Reset \o Text("version and author")),
             NOTICE(Text("built"))>> \o Analysis)
    /\ at' = "dispatch"
    /\ UNCHANGED <<outcome, done>>

Refuse(messages) == MainFrame /\ Say(messages) /\ Exit("failure") /\ UNCHANGED done

NoFiles ==
    /\ at = "dispatch" /\ line.files < 1
    /\ Refuse(<<ERROR(Text("at least one filename"))>> \o Usage)

NoModeGiven ==
    /\ at = "dispatch" /\ line.files >= 1 /\ settings.opmode = NoMode
    /\ Refuse(Usage)

TooManyFiles == settings.opmode = "convert" /\ line.files > 1

ConvertTakesOne ==
    /\ at = "dispatch" /\ TooManyFiles
    /\ Refuse(<<MESG(Text("convert")), ERROR(Text("only one file argument"))>>)

Dispatch ==
    /\ at = "dispatch" /\ line.files >= 1
    /\ settings.opmode # NoMode /\ ~TooManyFiles
    /\ MainFrame /\ Say(<<MESG(Text(settings.opmode))>>)
    /\ at' = "work"
    /\ UNCHANGED <<outcome, done>>

(* convert_elf() needs two options, and complains of the first that is missing. *)
Lacking == IF settings.opmode = "convert" THEN {"o", "A"} \ settings.flags ELSE {}

Unprepared ==
    /\ at = "work" /\ Lacking # {}
    /\ Refuse(<<ERROR(Text(IF "o" \in Lacking THEN "o" ELSE "A"))>>)

(* The next file is processed with the settings, or the process fails on it. *)
Ready == at = "work" /\ Lacking = {} /\ MainFrame

Processed(result) ==
    done' = Append(done, [file |-> Len(done) + 1, result |-> result,
                          mode |-> settings.opmode, base |-> settings.base_addr,
                          output |-> settings.oval, human |-> settings.human_readable])

(* A conversion that meets a relocation it cannot do says so, and goes on to look
   at all others before it exits (novl-conv.c:330-356). *)
Later == IF settings.opmode = "convert" THEN 0 .. MaxLater ELSE {0}

Failure(later) == <<ERROR(Text("cannot be processed"))>>
                  \o [k \in 1 .. later |-> DEBUG(Text("entry"))]

FileFails ==
    /\ Ready /\ Processed("failure")
    /\ \E later \in Later : Say(Failure(later))
    /\ Exit("failure")

LastFile == Len(done) + 1 = line.files

FileSucceeds ==
    /\ Ready /\ Processed("ok")
    /\ IF settings.opmode = "convert" THEN Say(<<NOTICE(Text("finished"))>>) ELSE Quiet
    /\ IF LastFile THEN Exit("ok") ELSE UNCHANGED <<at, outcome>>

Ended == at = "exit" /\ UNCHANGED vars

Next ==
    \/ SetMode \/ SecondMode \/ SetDisassembly \/ SetAddress \/ SetOutput \/ SetHuman
    \/ ToggleColors \/ RaiseVerbosity \/ Silence \/ NoCase
    \/ Header \/ NoFiles \/ NoModeGiven \/ ConvertTakesOne \/ Dispatch
    \/ Unprepared \/ FileFails \/ FileSucceeds
    \/ Ended

Spec == Init /\ [][Next]_vars

=============================================================================
