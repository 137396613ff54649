-------------------------------- MODULE Setup --------------------------------
(***************************************************************************)
(* The questions a program asks on the terminal before it runs, and the    *)
(* file that remembers the answers: ConfigSettings of the client and       *)
(* ServerConfigSetting of the server, the same code but for their fields.  *)
(*                                                                         *)
(* Some answers are read as a line, some as a word; a word leaves its      *)
(* newline to whoever reads a line next.  A name the user types is told    *)
(* from others by what is at it on disk and by what the file's format      *)
(* makes of it: the words of that format in it, and blanks.                *)
(***************************************************************************)
EXTENDS Naturals, Sequences

LOCAL INSTANCE FiniteSetsExt

CONSTANTS Programs,    \* the programs that may be started
          Names,       \* what can be typed for a folder or a file
          Words,       \* the keys of the file's format that occur in a name
          Blank,       \* the names with a blank in them
          OnDisk,      \* what there is at a name at first
          Default,     \* every field's value in the program's text
          Garbage,     \* what nobody has typed
          MaxStarts    \* bound: starts of the program

Keys == {"address", "port", "path", "logs", "db"}

ASSUME SetupAssumption ==
    /\ Programs \subseteq {"client", "server"}
    /\ Words \in [Names -> SUBSET Keys] /\ Blank \subseteq Names
    /\ OnDisk \in [Names -> {"dir", "file", "none"}]
    /\ {Default, Garbage} \cap Names = {} /\ MaxStarts \in Nat

VARIABLES
    program,    \* the program that is started
    stage,      \* the question it asks, or what else it does
    console,    \* what std::cin holds for the next line
    config,     \* address_, port_, dir_path_, logs_path_, db_path_
    exists,     \* there is a configuration file
    file,       \* its lines
    there,      \* what is on disk at each name
    typed,      \* the folder that is to be made
    ec,         \* the error code of the address
    starts      \* bound: how often the program was started

setupVars == <<program, stage, console, config, exists, file, there, typed, ec, starts>>

\* The fields, as they are asked for, written and looked for in a line.
Order == IF program = "client" THEN <<"address", "port", "path", "logs">>
                               ELSE <<"port", "path", "logs", "db">>
Place(f) == CHOOSE i \in 1..4 : Order[i] = f
After(f) == IF f = Order[4] THEN "write" ELSE Order[Place(f) + 1]

Defaults == [f \in Keys |-> Default]

SetupInit == /\ program \in Programs /\ stage = "start" /\ console = "clean"
             /\ config = Defaults /\ exists = FALSE /\ file = <<>>
             /\ there = OnDisk /\ typed = Default /\ ec = FALSE /\ starts = 1

-----------------------------------------------------------------------------
\* The terminal.

\* std::getline takes the line the user types; but nothing where the newline of
\* a word is still there, and nothing for ever after the end of the input.
Line(typing, line) ==
    \/ console \in {"newline", "closed"} /\ line = ""
       /\ console' = IF console = "newline" THEN "clean" ELSE "closed"
    \/ console = "clean" /\ line \in typing \cup {""} /\ console' = "clean"

\* question_yesno reads words until one is an answer, and throws without one.
Word == console # "closed"
NoWord == console = "closed" /\ UNCHANGED console

\* Mutant: std::cin.ignore(1) is left out.
IgnoreNothing(in) == in

\* std::cin.ignore(1): the newline of a word, or else the first character of
\* what is typed next.
IgnoreOne(in) == CASE in = "newline" -> "clean" [] in = "clean" -> "clipped" [] OTHER -> in

-----------------------------------------------------------------------------
Asks(f) == stage = f /\ UNCHANGED <<program, exists, file, starts>>
Stay == UNCHANGED <<stage, config>>
Keep(f) == stage' = After(f) /\ UNCHANGED config
Put(f, v) == stage' = After(f) /\ config' = [config EXCEPT ![f] = v]
Throw == stage' = "dead" /\ UNCHANGED config

\* init_configuration.
Begin == /\ Asks("start")
         /\ stage' = IF exists THEN "reuse" ELSE Order[1]
         /\ UNCHANGED <<console, config, there, typed, ec>>

\* The keys of the file's format in a line, by their places in Order.
Found(line) == {i \in 1..4 : \/ Order[i] = line.key
                             \/ line.value \in Names /\ Order[i] \in Words[line.value]}

\* The field a line is taken for: of the keys that occur in it anywhere, the
\* one that is looked for first.
Target(line) == Order[Min(Found(line))]

\* Mutant: the folder is a plain string too.
ExtractBare(f, line) ==
    IF line.value \notin Blank /\ (f = line.key \/ (f # "port" /\ line.key # "path"))
    THEN line.value ELSE Garbage

\* What the field makes of it.  The folder is written and read in quotes,
\* anything else ends at a blank, and the port is a number.
Extract(f, line) ==
    IF \/ f = "path" /\ line.key = "path"
       \/ line.value \notin Blank /\ (f = line.key \/ (f # "port" /\ line.key # "path"))
    THEN line.value ELSE Garbage

\* read_config: line after line goes to its field.
ReadConfig == [f \in Keys |->
    LET mine == {i \in DOMAIN file : Target(file[i]) = f}
    IN IF mine = {} THEN config[f] ELSE Extract(f, file[Max(mine)])]

\* "A configuration file already exists, do you want to use that"; the newline
\* of a no is ignored.
AnswerReuse ==
    /\ Asks("reuse") /\ UNCHANGED <<there, typed, ec>>
    /\ \/ Word /\ console' = "newline" /\ stage' = "done" /\ config' = ReadConfig
       \/ Word /\ console' = IgnoreOne("newline") /\ stage' = Order[1] /\ UNCHANGED config
       \/ NoWord /\ Throw

\* Mutant: the error is not looked at.
AskAddressOnce ==
    /\ Asks("address") /\ UNCHANGED <<there, typed>>
    /\ \E line \in {"", "good", "bad"} :
          /\ Line({"good", "bad"}, line)
          /\ ec' = IF line = "" THEN ec ELSE line = "bad"
          /\ IF line = "" THEN Keep("address") ELSE Put("address", line)

\* An address that cannot be parsed leaves its error in ec, which an empty line
\* does not clear: the question is asked again.
AskAddress ==
    /\ Asks("address") /\ UNCHANGED <<there, typed>>
    /\ \E line \in {"", "good", "bad"} :
          /\ Line({"good", "bad"}, line)
          /\ ec' = IF line = "" THEN ec ELSE line = "bad"
          /\ IF ec' THEN Stay ELSE IF line = "good" THEN Put("address", line) ELSE Keep("address")

\* A port has four digits.  After a wrong one a character is ignored; std::stoi
\* throws at what is no number.
AskPort ==
    /\ Asks("port") /\ UNCHANGED <<there, typed, ec>>
    /\ \/ \E line \in {"", "three", "four", "five", "text"} :
             IF line \in {"three", "five"}
             THEN console = "clean" /\ console' = IgnoreOne("clean") /\ Stay
             ELSE /\ Line({"four", "text"}, line)
                  /\ CASE line = "" -> Keep("port")
                       [] line = "four" -> Put("port", line)
                       [] OTHER -> Throw
       \/ /\ console = "clipped"
          /\ \/ console' = "clean" /\ Stay                      \* an empty line's newline
             \/ console' = "clipped" /\ Stay                    \* three or four digits
             \/ console' = "clean" /\ Put("port", "clipped")   \* five
             \/ console' = "clean" /\ Throw                     \* text

\* Mutant: an empty line is asked for again.
AskPathAgain ==
    /\ Asks("path") /\ UNCHANGED <<there, ec>>
    /\ \E line \in Names \cup {""} :
          /\ Line(Names, line)
          /\ typed' = IF line = "" THEN typed ELSE line
          /\ IF line = "" THEN Stay
             ELSE CASE there[line] = "dir" -> Put("path", line)
                    [] there[line] = "file" -> Stay
                    [] OTHER -> stage' = "create" /\ UNCHANGED config

\* The folder must be there, or is made if the user wants that.
AskPath ==
    /\ Asks("path") /\ UNCHANGED <<there, ec>>
    /\ \E line \in Names \cup {""} :
          /\ Line(Names, line)
          /\ typed' = IF line # "" /\ there[line] = "none" THEN line ELSE Default
          /\ IF line = "" THEN Keep("path")
             ELSE CASE there[line] = "dir" -> Put("path", line)
                    [] there[line] = "file" -> Stay
                    [] OTHER -> stage' = "create" /\ UNCHANGED config

\* "Would you like to create the folder".  Nobody ignores this newline: it
\* answers the next question, be that the logs or, after a no, the folder again.
AnswerCreate ==
    /\ Asks("create") /\ UNCHANGED ec /\ typed' = Default
    /\ \/ /\ Word /\ console' = "newline" /\ Put("path", typed)
          /\ there' = [there EXCEPT ![typed] = "dir"]
       \/ Word /\ console' = "newline" /\ stage' = "path" /\ UNCHANGED <<config, there>>
       \/ Word /\ console' = "newline" /\ Throw /\ UNCHANGED there    \* create_directory fails
       \/ NoWord /\ Throw /\ UNCHANGED there

\* The logs and the database: any name is taken, as the test for a directory
\* looks at the default that the name replaces.
AskFile(f) ==
    /\ f \in {"logs", "db"} /\ Asks(f) /\ UNCHANGED <<there, typed, ec>>
    /\ \E line \in Names \cup {""} :
          Line(Names, line) /\ IF line = "" THEN Keep(f) ELSE Put(f, line)

\* write_config: the file is emptied when it is opened, then every line is
\* flushed.
Truncate == /\ stage = "write" /\ UNCHANGED <<program, console, config, there, typed, ec, starts>>
            /\ exists' = TRUE /\ file' = <<>>
            /\ stage' = "lines"

WriteLine == /\ stage = "lines" /\ UNCHANGED <<program, console, config, exists, there, typed, ec, starts>>
             /\ LET f == Order[Len(file) + 1]
                IN file' = Append(file, [key |-> f, value |-> config[f]])
             /\ stage' = IF Len(file') = 4 THEN "done" ELSE "lines"

-----------------------------------------------------------------------------
\* The user ends the input.
EndInput == /\ stage \notin {"done", "dead"} /\ console \in {"clean", "clipped"} /\ console' = "closed"
            /\ UNCHANGED <<program, stage, config, exists, file, there, typed, ec, starts>>

\* The program ends, is killed or throws, and is started again: its file and
\* the folders stay.
Restart == /\ starts < MaxStarts /\ starts' = starts + 1
           /\ stage # "start" /\ stage' = "start" /\ console' = "clean"
           /\ config' = Defaults /\ typed' = Default /\ ec' = FALSE
           /\ UNCHANGED <<program, exists, file, there>>

Dialogue == \/ Begin \/ AnswerReuse \/ AskAddress \/ AskPort \/ AskPath \/ AnswerCreate
            \/ AskFile("logs") \/ AskFile("db") \/ Truncate \/ WriteLine

SetupNext == Dialogue \/ EndInput \/ Restart

SetupSpec == SetupInit /\ [][SetupNext]_setupVars /\ WF_setupVars(Dialogue)

-----------------------------------------------------------------------------
Values == Names \cup {Default, Garbage, "good", "four", "clipped"}

\* The values the variables take.
SetupTypeOK ==
    /\ program \in Programs
    /\ stage \in Keys \cup {"start", "reuse", "create", "write", "lines", "done", "dead"}
    /\ console \in {"clean", "newline", "clipped", "closed"}
    /\ config \in [Keys -> Values] /\ exists \in BOOLEAN
    /\ file \in Seq([key : Keys, value : Values]) /\ Len(file) <= 4
    /\ there \in [Names -> {"dir", "file", "none"}] /\ typed \in Names \cup {Default}
    /\ ec \in BOOLEAN /\ starts \in 1..(MaxStarts + 1)

\* A value the format can carry: no key but its own occurs in it, and no blank
\* where it is not quoted.
Clear(line) == line.value \in Names => /\ Words[line.value] \subseteq {line.key}
                                       /\ line.value \notin Blank \/ line.key = "path"

\* The configuration a program runs with is the one its file shows, whether it
\* has just written it or found it, in whatever order the user typed, ended
\* and started again; unless a name carries the format's own words or a blank.
\* A file cut short by a kill keeps its promise for the lines it has.
ReadBack == stage = "done" /\ (\A i \in DOMAIN file : Clear(file[i])) =>
    \A i \in DOMAIN file : config[file[i].key] = file[i].value

\* The newline left by a yes or no is never the answer to the first question or
\* to the port: only to the folder and the logs, after the question whether to
\* make the folder.
NewlineContained == console = "newline" => stage \in {"path", "logs", "done", "dead"}

\* When the input has ended, the dialogue ends too, except for one whose last
\* address was not valid.
SetupEnds == console = "closed" ~> (stage \in {"done", "dead"} \/ ec \/ console # "closed")
=============================================================================
