----------------------------- MODULE Setup_proofs -----------------------------
(***************************************************************************)
(* Proofs about Setup, for any names, any words of the format in them and  *)
(* any number of starts: the types, where a newline may stay, and that the *)
(* configuration a program runs with is the one its file shows.            *)
(***************************************************************************)
EXTENDS Setup, TLAPS

LOCAL INSTANCE FiniteSetsExt

\* The fields of the program that runs.
Fields == {Order[i] : i \in 1..4}

\* The fields of a program come one after the other, each once, and the logs
\* after the folder.
LEMMA OrderOfFields ==
    ASSUME program \in Programs
    PROVE  /\ Len(Order) = 4 /\ DOMAIN Order = 1..4 /\ Fields \subseteq Keys
           /\ \A i, j \in 1..4 : Order[i] = Order[j] => i = j
           /\ "path" \in Fields /\ "logs" \in Fields
           /\ \A i \in 1..4 : Place(Order[i]) = i
<1>1. program \in {"client", "server"}
  BY SetupAssumption
<1>2. /\ Len(Order) = 4 /\ DOMAIN Order = 1..4 /\ Fields \subseteq Keys
      /\ \A i, j \in 1..4 : Order[i] = Order[j] => i = j
      /\ "path" \in Fields /\ "logs" \in Fields
  BY <1>1 DEF Order, Fields, Keys
<1>3. ASSUME NEW i \in 1..4 PROVE Place(Order[i]) = i
  <2>1. Place(Order[i]) \in 1..4 /\ Order[Place(Order[i])] = Order[i]
    BY DEF Place
  <2> QED  BY <1>2, <2>1
<1> QED  BY <1>2, <1>3

LEMMA AfterAField ==
    ASSUME program \in Programs, NEW f \in Fields
    PROVE  /\ After(f) \in Fields \cup {"write"}
           /\ After("path") = "logs"
<1>1. PICK i \in 1..4 : f = Order[i] /\ Place(f) = i
  BY OrderOfFields DEF Fields
<1>2. After(f) \in Fields \cup {"write"}
  <2>1. CASE i = 4
    BY <1>1, <2>1 DEF After
  <2>2. CASE i # 4
    <3>1. i + 1 \in 1..4 /\ f # Order[4]
      BY <1>1, <2>2, OrderOfFields
    <3> QED  BY <1>1, <3>1 DEF After, Fields
  <2> QED  BY <2>1, <2>2
<1>3. After("path") = "logs"
  <2>1. CASE program = "client"
    <3>1. Order[3] = "path" /\ Order[4] = "logs"
      BY <2>1 DEF Order
    <3> QED  BY <3>1, OrderOfFields DEF After
  <2>2. CASE program = "server"
    <3>1. Order[2] = "path" /\ Order[3] = "logs" /\ Order[4] = "db"
      BY <2>2 DEF Order
    <3> QED  BY <3>1, OrderOfFields DEF After
  <2> QED  BY <2>1, <2>2, SetupAssumption
<1> QED  BY <1>2, <1>3

-----------------------------------------------------------------------------
\* A question is one of the program's own, and a file that is being written
\* has lines to come.
OnItsWay == /\ stage \in Keys => stage \in Fields
            /\ stage = "lines" => Len(file) < 4

DialogueType == SetupTypeOK /\ OnItsWay

LEMMA LinesOfFile ==
    ASSUME SetupTypeOK, NEW i \in DOMAIN file
    PROVE  file[i].key \in Keys /\ file[i].value \in Values
<1> DEFINE Lines == [key : Keys, value : Values]
<1>1. file \in Seq(Lines) /\ i \in 1..Len(file)
  BY DEF SetupTypeOK
<1>2. file[i] \in Lines
  <2> HIDE DEF Lines
  <2> QED  BY <1>1
<1> QED  BY <1>2

\* The last of some lines is one of them.
LEMMA LastOfSome ==
    ASSUME SetupTypeOK, NEW mine, mine \subseteq DOMAIN file, mine # {}
    PROVE  Max(mine) \in mine /\ \A i \in mine : i <= Max(mine)
<1>1. mine \subseteq 1..4
  BY DEF SetupTypeOK
<1>2. \E m \in mine : \A i \in mine : i <= m
  <2>1. CASE 4 \in mine  BY <1>1, <2>1
  <2>2. CASE 4 \notin mine /\ 3 \in mine  BY <1>1, <2>2
  <2>3. CASE mine \subseteq 1..2 /\ 2 \in mine  BY <2>3
  <2>4. CASE mine \subseteq 1..1  BY <2>4
  <2> QED  BY <1>1, <2>1, <2>2, <2>3, <2>4
<1>3. \E m \in mine : \A i \in mine : m >= i
  BY <1>1, <1>2
<1>4. Max(mine) \in mine /\ \A i \in mine : Max(mine) >= i
  BY <1>3 DEF Max
<1> QED  BY <1>1, <1>4

\* What is read is something that was written, or garbage.
LEMMA ReadConfigType ==
    ASSUME SetupTypeOK
    PROVE  ReadConfig \in [Keys -> Values]
<1> SUFFICES ASSUME NEW f \in Keys
             PROVE  ReadConfig[f] \in Values
  BY DEF ReadConfig
<1> DEFINE mine == {i \in DOMAIN file : Target(file[i]) = f}
<1>1. ReadConfig[f] = IF mine = {} THEN config[f] ELSE Extract(f, file[Max(mine)])
  BY DEF ReadConfig
<1>2. CASE mine = {}
  BY <1>1, <1>2 DEF SetupTypeOK
<1>3. CASE mine # {}
  <2>1. Max(mine) \in DOMAIN file
    <3>1. mine \subseteq DOMAIN file
      OBVIOUS
    <3> HIDE DEF mine
    <3> QED  BY <1>3, <3>1, LastOfSome
  <2> HIDE DEF mine
  <2>2. file[Max(mine)].value \in Values
    BY <2>1, LinesOfFile
  <2> QED  BY <1>1, <1>3, <2>2 DEF Extract, Values
<1> QED  BY <1>2, <1>3

\* A step of the dialogue or of its user keeps the types and the way.
LEMMA DialogueTypeStep == DialogueType /\ [SetupNext]_setupVars => DialogueType'
<1> SUFFICES ASSUME DialogueType, [SetupNext]_setupVars PROVE DialogueType'
  OBVIOUS
<1>0. /\ SetupTypeOK /\ program \in Programs
      /\ \A f \in Fields : After(f) \in Fields \cup {"write"}
      /\ After("path") = "logs" /\ "logs" \in Fields /\ Fields \subseteq Keys
      /\ Order[1] \in Fields
  BY OrderOfFields, AfterAField DEF DialogueType, SetupTypeOK, Fields
<1>1. ASSUME program' = program
      PROVE  Fields' = Fields
  BY <1>1 DEF Fields, Order
<1>2. ASSUME Asks(stage), config' \in [Keys -> Values],
             stage' \in Fields \cup {"reuse", "create", "write", "done", "dead"},
             console' \in {"clean", "newline", "clipped", "closed"},
             there' \in [Names -> {"dir", "file", "none"}], typed' \in Names \cup {Default},
             ec' \in BOOLEAN
      PROVE  DialogueType'
  BY <1>0, <1>1, <1>2 DEF Asks, DialogueType, SetupTypeOK, OnItsWay, Keys
<1> USE DEF Asks, Stay, Keep, Put, Throw, Line, Word, NoWord, IgnoreOne
<1>3. CASE Begin
  BY <1>0, <1>2, <1>3 DEF Begin, SetupTypeOK
<1>4. CASE AnswerReuse
  BY <1>0, <1>2, <1>4, ReadConfigType DEF AnswerReuse, SetupTypeOK
<1>5. CASE AskAddress
  <2>1. stage = "address" /\ "address" \in Fields /\ After("address") \in Fields \cup {"write"}
    BY <1>0, <1>5 DEF AskAddress, DialogueType, OnItsWay, Keys
  <2>2. PICK line \in {"", "good", "bad"} :
           /\ Line({"good", "bad"}, line)
           /\ ec' = IF line = "" THEN ec ELSE line = "bad"
           /\ IF ec' THEN Stay ELSE IF line = "good" THEN Put("address", line) ELSE Keep("address")
    BY <1>5 DEF AskAddress
  <2>3. ec' \in BOOLEAN /\ console' \in {"clean", "newline", "clipped", "closed"}
    BY <1>0, <2>2 DEF SetupTypeOK
  <2>4. config' = config \/ config' = [config EXCEPT !["address"] = "good"]
    BY <2>2
  <2>5. config' \in [Keys -> Values]
    BY <1>0, <2>4 DEF SetupTypeOK, Values
  <2>6. stage' = stage \/ stage' = After("address")
    BY <2>2
  <2> QED  BY <1>0, <1>2, <1>5, <2>1, <2>3, <2>5, <2>6 DEF AskAddress, SetupTypeOK
<1>6. CASE AskPort
  BY <1>0, <1>2, <1>6 DEF AskPort, SetupTypeOK, DialogueType, OnItsWay, Values, Keys
<1>7. CASE AskPath
  <2>1. PICK line \in Names \cup {""} :
           /\ Line(Names, line)
           /\ typed' = IF line # "" /\ there[line] = "none" THEN line ELSE Default
           /\ IF line = "" THEN Keep("path")
              ELSE CASE there[line] = "dir" -> Put("path", line)
                     [] there[line] = "file" -> Stay
                     [] OTHER -> stage' = "create" /\ UNCHANGED config
    BY <1>7 DEF AskPath
  <2>2. typed' \in Names \cup {Default} /\ stage = "path"
    BY <1>7, <2>1 DEF AskPath
  <2>3. config' \in [Keys -> Values] /\ stage' \in {"logs", "path", "create"}
    <3>1. CASE line = ""
      BY <1>0, <2>1, <3>1 DEF SetupTypeOK
    <3>2. CASE line # ""
      <4>1. config' = config \/ (line \in Names /\ config' = [config EXCEPT !["path"] = line])
        BY <2>1, <3>2
      <4>2. stage' \in {"logs", "path", "create"}
        BY <1>0, <2>1, <2>2, <3>2
      <4>3. CASE line \in Names /\ config' = [config EXCEPT !["path"] = line]
        <5>1. config \in [Keys -> Values] /\ line \in Values
          BY <1>0, <4>3 DEF SetupTypeOK, Values
        <5> QED  BY <4>2, <4>3, <5>1
      <4> QED  BY <1>0, <4>1, <4>2, <4>3 DEF SetupTypeOK
    <3> QED  BY <3>1, <3>2
  <2> QED  BY <1>0, <1>2, <1>7, <2>1, <2>2, <2>3, OrderOfFields DEF AskPath, SetupTypeOK
<1>8. CASE AnswerCreate
  BY <1>0, <1>2, <1>8, OrderOfFields DEF AnswerCreate, SetupTypeOK, Values, Keys
<1>9. ASSUME NEW f \in {"logs", "db"}, AskFile(f) PROVE DialogueType'
  <2>1. PICK line \in Names \cup {""} :
           Line(Names, line) /\ IF line = "" THEN Keep(f) ELSE Put(f, line)
    BY <1>9 DEF AskFile
  <2>2. stage' = After(f) /\ stage = f /\ f \in Fields
    BY <1>0, <1>9, <2>1 DEF AskFile, DialogueType, OnItsWay, Keys
  <2>3. config' \in [Keys -> Values]
    <3>1. config' = config \/ (line \in Names /\ config' = [config EXCEPT ![f] = line])
      BY <2>1
    <3> QED  BY <1>0, <3>1 DEF SetupTypeOK, Values
  <2> QED  BY <1>0, <1>2, <1>9, <2>1, <2>2, <2>3 DEF AskFile, SetupTypeOK
<1>10. CASE Truncate
  BY <1>0, <1>1, <1>10 DEF Truncate, DialogueType, SetupTypeOK, OnItsWay, Keys
<1>11. CASE WriteLine
  <2>1. Len(file) + 1 \in 1..4 /\ Len(file) \in Nat
    BY <1>11 DEF WriteLine, DialogueType, SetupTypeOK, OnItsWay
  <2>2. PICK f \in Keys : file' = Append(file, [key |-> f, value |-> config[f]])
    BY <1>0, <1>11, <2>1 DEF WriteLine, Fields
  <2>3. [key |-> f, value |-> config[f]] \in [key : Keys, value : Values]
    BY <1>0 DEF SetupTypeOK
  <2>4. file' \in Seq([key : Keys, value : Values]) /\ Len(file') = Len(file) + 1
    BY <1>0, <2>2, <2>3 DEF SetupTypeOK
  <2> QED  BY <1>0, <1>11, <2>1, <2>4 DEF WriteLine, DialogueType, SetupTypeOK, OnItsWay, Keys
<1>12. CASE EndInput
  BY <1>0, <1>1, <1>12 DEF EndInput, DialogueType, SetupTypeOK, OnItsWay
<1>13. CASE Restart
  <2>1. starts' \in 1..(MaxStarts + 1)
    BY <1>0, <1>13, SetupAssumption DEF Restart, SetupTypeOK
  <2> QED  BY <1>0, <1>13, <2>1 DEF Restart, DialogueType, SetupTypeOK, OnItsWay, Defaults, Values, Keys
<1>14. CASE UNCHANGED setupVars
  BY <1>0, <1>1, <1>14 DEF setupVars, DialogueType, SetupTypeOK, OnItsWay
<1> QED
  BY <1>3, <1>4, <1>5, <1>6, <1>7, <1>8, <1>9, <1>10, <1>11, <1>12, <1>13, <1>14
     DEF SetupNext, Dialogue

LEMMA DialogueTypeAtStart == SetupInit => DialogueType
<1> SUFFICES ASSUME SetupInit PROVE DialogueType
  OBVIOUS
<1>1. Len(file) = 0 /\ file \in Seq([key : Keys, value : Values])
  BY DEF SetupInit
<1>2. starts \in 1..(MaxStarts + 1)
  <2>1. starts = 1 /\ MaxStarts \in Nat
    BY SetupAssumption DEF SetupInit
  <2> QED  BY <2>1
<1>3. exists \in BOOLEAN /\ ec \in BOOLEAN
  BY DEF SetupInit
<1>4. config \in [Keys -> Values]
  BY DEF SetupInit, Defaults, Values
<1>5. there \in [Names -> {"dir", "file", "none"}] /\ typed \in Names \cup {Default}
  BY SetupAssumption DEF SetupInit
<1>6. program \in Programs /\ stage = "start" /\ console = "clean"
  BY DEF SetupInit
<1>7. SetupTypeOK
  BY <1>1, <1>2, <1>3, <1>4, <1>5, <1>6 DEF SetupTypeOK
<1>8. OnItsWay
  BY <1>6 DEF OnItsWay, Keys
<1> QED  BY <1>7, <1>8 DEF DialogueType

\* The dialogue's variables have their types (SetupTypeOK), and no question is
\* asked that is not the program's own.
THEOREM SetupTypeCorrect == SetupSpec => []DialogueType
<1>1. SetupInit => DialogueType
  BY DialogueTypeAtStart
<1>2. DialogueType /\ [SetupNext]_setupVars => DialogueType'
  BY DialogueTypeStep
<1> QED  BY <1>1, <1>2, PTL DEF SetupSpec

-----------------------------------------------------------------------------
\* Whatever reads a line takes the newline away.
LEMMA NewlineStep ==
    DialogueType /\ NewlineContained /\ [SetupNext]_setupVars => NewlineContained'
<1> SUFFICES ASSUME DialogueType, NewlineContained, [SetupNext]_setupVars
             PROVE  NewlineContained'
  OBVIOUS
<1>0. program \in Programs /\ After("path") = "logs"
  BY OrderOfFields, AfterAField DEF DialogueType, SetupTypeOK
<1>1. ASSUME NEW typing, NEW line, Line(typing, line) PROVE console' # "newline"
  BY <1>1 DEF Line
<1> USE DEF NewlineContained, Asks, Stay, Keep, Put, Throw, Word, NoWord, IgnoreOne
<1>2. CASE Begin
  BY <1>2 DEF Begin
<1>3. CASE AnswerReuse
  BY <1>3 DEF AnswerReuse
<1>4. CASE AskAddress
  BY <1>1, <1>4 DEF AskAddress
<1>5. CASE AskPort
  BY <1>1, <1>5 DEF AskPort
<1>6. CASE AskPath
  BY <1>1, <1>6 DEF AskPath
<1>7. CASE AnswerCreate
  BY <1>0, <1>7 DEF AnswerCreate
<1>8. ASSUME NEW f, AskFile(f) PROVE NewlineContained'
  BY <1>1, <1>8 DEF AskFile
<1>9. CASE Truncate
  BY <1>9 DEF Truncate
<1>10. CASE WriteLine
  BY <1>10 DEF WriteLine
<1>11. CASE EndInput \/ Restart
  BY <1>11 DEF EndInput, Restart
<1>12. CASE UNCHANGED setupVars
  BY <1>12 DEF setupVars
<1> QED
  BY <1>2, <1>3, <1>4, <1>5, <1>6, <1>7, <1>8, <1>9, <1>10, <1>11, <1>12
     DEF SetupNext, Dialogue

\* The newline of a yes or no is never the answer to the address, the port or
\* the database (NewlineContained), in either program and whatever was typed.
THEOREM NewlineStaysBehind == SetupSpec => []NewlineContained
<1>1. SetupInit => NewlineContained
  BY DEF SetupInit, NewlineContained
<1> QED  BY <1>1, NewlineStep, SetupTypeCorrect, PTL DEF SetupSpec

-----------------------------------------------------------------------------
\* The file has the first fields of the program in their order, each with its
\* value as long as it is being written.
InOrder == \A i \in DOMAIN file : file[i].key = Order[i]
SoFar   == stage = "lines" => \A i \in DOMAIN file : file[i].value = config[Order[i]]

Recorded == InOrder /\ SoFar /\ ReadBack

\* A line whose value carries nothing of the format is taken for its own field.
LEMMA ClearLine ==
    ASSUME SetupTypeOK, InOrder, NEW i \in DOMAIN file, Clear(file[i])
    PROVE  Target(file[i]) = Order[i] /\ Extract(Order[i], file[i]) = file[i].value
<1>1. i \in 1..4 /\ file[i].key = Order[i]
  BY DEF SetupTypeOK, InOrder
<1>2. \A j \in 1..4 : Order[j] = Order[i] => j = i
  BY <1>1, OrderOfFields DEF SetupTypeOK
<1>3. Found(file[i]) = {i}
  BY <1>1, <1>2 DEF Found, Clear
<1>4. Min({i}) = i
  BY <1>1 DEF Min
<1>5. Extract(Order[i], file[i]) = file[i].value
  BY <1>1, SetupAssumption DEF Extract, Clear
<1> QED  BY <1>3, <1>4, <1>5 DEF Target

\* If all lines are clear, every one of them is read back as it was written.
LEMMA ReadsWhatWasWritten ==
    ASSUME SetupTypeOK, InOrder, \A i \in DOMAIN file : Clear(file[i]), NEW i \in DOMAIN file
    PROVE  ReadConfig[file[i].key] = file[i].value
<1>1. i \in 1..4 /\ DOMAIN file \subseteq 1..4 /\ file[i].key = Order[i] /\ Order[i] \in Keys
  BY OrderOfFields DEF SetupTypeOK, InOrder, Fields
<1>2. \A j \in 1..4 : Order[j] = Order[i] => j = i
  BY <1>1, OrderOfFields DEF SetupTypeOK
<1>3. \A j \in DOMAIN file : Target(file[j]) = Order[j]
  BY ClearLine
<1>4. {j \in DOMAIN file : Target(file[j]) = Order[i]} = {i}
  BY <1>1, <1>2, <1>3
<1>5. Max({i}) = i
  BY <1>1 DEF Max
<1>6. ReadConfig[Order[i]] = Extract(Order[i], file[i])
  BY <1>1, <1>4, <1>5 DEF ReadConfig
<1> QED  BY <1>1, <1>6, ClearLine

LEMMA RecordedStep ==
    DialogueType /\ Recorded /\ [SetupNext]_setupVars => Recorded'
<1> SUFFICES ASSUME DialogueType, Recorded, [SetupNext]_setupVars
             PROVE  Recorded'
  OBVIOUS
<1>0. /\ SetupTypeOK /\ Len(Order) = 4 /\ DOMAIN Order = 1..4
      /\ \A f \in Fields : After(f) \in Fields \cup {"write"}
      /\ After("path") = "logs" /\ Fields \subseteq Keys
      /\ Order[1] \in Fields
  BY OrderOfFields, AfterAField DEF DialogueType, SetupTypeOK, Fields
<1>0a. Order[1] \notin {"lines", "done"}
  BY <1>0 DEF Keys
<1>1. ASSUME UNCHANGED <<program, file>>, stage' \notin {"lines", "done"} PROVE Recorded'
  BY <1>1 DEF Recorded, InOrder, SoFar, ReadBack, Order
<1>2. ASSUME UNCHANGED <<program, file, stage, config>> PROVE Recorded'
  BY <1>2 DEF Recorded, InOrder, SoFar, ReadBack, Order, Clear
<1>3. ASSUME NEW f \in Keys, stage = f, Asks(f),
             stage' \in {After(f), f, "create", "dead"}
      PROVE  Recorded'
  <2>1. f \in Fields
    BY <1>3 DEF Asks, DialogueType, OnItsWay
  <2>2. stage' \notin {"lines", "done"}
    BY <1>0, <1>3, <2>1 DEF Keys
  <2> QED  BY <1>1, <1>3, <2>2 DEF Asks
<1> USE DEF Asks, Stay, Keep, Put, Throw
<1>4. CASE Begin
  BY <1>0a, <1>1, <1>4 DEF Begin
<1>5. CASE AnswerReuse
  <2>1. CASE stage' = "done" /\ config' = ReadConfig
    <3>1. InOrder' /\ SoFar' /\ UNCHANGED file
      BY <1>5, <2>1 DEF AnswerReuse, Recorded, InOrder, SoFar, Order
    <3>2. ASSUME \A i \in DOMAIN file : Clear(file[i]), NEW i \in DOMAIN file
          PROVE  config'[file[i].key] = file[i].value
      BY <1>0, <2>1, <3>2, ReadsWhatWasWritten DEF Recorded
    <3> QED  BY <3>1, <3>2 DEF Recorded, ReadBack, Clear
  <2>2. CASE stage' \in {Order[1], "dead"}
    BY <1>0a, <1>1, <1>5, <2>2 DEF AnswerReuse
  <2> QED  BY <1>5, <2>1, <2>2 DEF AnswerReuse
<1>6. CASE AskAddress
  BY <1>3, <1>6 DEF AskAddress, Keys
<1>7. CASE AskPort
  BY <1>3, <1>7 DEF AskPort, Keys
<1>8. CASE AskPath
  BY <1>3, <1>8 DEF AskPath, Keys
<1>9. CASE AnswerCreate
  <2>1. After("path") \notin {"lines", "done"}
    BY <1>0
  <2> QED  BY <1>1, <1>9, <2>1 DEF AnswerCreate
<1>10. ASSUME NEW f \in {"logs", "db"}, AskFile(f) PROVE Recorded'
  BY <1>3, <1>10 DEF AskFile, Keys
<1>11. CASE Truncate
  BY <1>11 DEF Truncate, Recorded, InOrder, SoFar, ReadBack
<1>12. CASE WriteLine
  <2> DEFINE n == Len(file) + 1
             line == [key |-> Order[n], value |-> config[Order[n]]]
  <2>1. n \in 1..4 /\ Len(file) \in Nat /\ stage = "lines"
    BY <1>12 DEF WriteLine, DialogueType, SetupTypeOK, OnItsWay
  <2>2. file' = Append(file, line) /\ UNCHANGED <<program, config>>
    BY <1>12 DEF WriteLine
  <2>3. UNCHANGED Order
    BY <2>2 DEF Order
  <2>4. ASSUME NEW i \in DOMAIN file'
        PROVE  file'[i].key = Order[i] /\ file'[i].value = config[Order[i]]
    <3>1. DOMAIN file' = 1..n /\ DOMAIN file = 1..(n - 1)
      BY <1>0, <2>1, <2>2 DEF SetupTypeOK
    <3>2. CASE i \in DOMAIN file
      <4>1. file'[i] = file[i]
        BY <1>0, <2>1, <2>2, <3>2 DEF SetupTypeOK
      <4> QED  BY <2>1, <3>2, <4>1 DEF Recorded, InOrder, SoFar
    <3>3. CASE i = n
      <4>1. file'[i] = line
        BY <1>0, <2>1, <2>2, <3>3 DEF SetupTypeOK
      <4> QED  BY <3>3, <4>1
    <3> QED  BY <2>4, <3>1, <3>2, <3>3, <2>1
  <2> QED  BY <2>2, <2>3, <2>4 DEF Recorded, InOrder, SoFar, ReadBack
<1>13. CASE EndInput
  BY <1>2, <1>13 DEF EndInput
<1>14. CASE Restart
  BY <1>1, <1>14 DEF Restart
<1>15. CASE UNCHANGED setupVars
  BY <1>2, <1>15 DEF setupVars
<1> QED
  BY <1>4, <1>5, <1>6, <1>7, <1>8, <1>9, <1>10, <1>11, <1>12, <1>13, <1>14, <1>15
     DEF SetupNext, Dialogue

\* The configuration of a program that runs is the one its file shows, written
\* now or found, whole or cut short by a kill, if no value carries the format's
\* words or a blank (ReadBack).
THEOREM ConfigurationReadBack == SetupSpec => []ReadBack
<1>1. SetupInit => Recorded
  BY DEF SetupInit, Recorded, InOrder, SoFar, ReadBack
<1>2. Recorded => ReadBack
  BY DEF Recorded
<1> QED  BY <1>1, <1>2, RecordedStep, SetupTypeCorrect, PTL DEF SetupSpec
=============================================================================
