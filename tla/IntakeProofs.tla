------------------------------ MODULE IntakeProofs ------------------------------
(***************************************************************************)
(* For any files, limits, requests and clients: the tables of types stay   *)
(* in their memory, and what the server accepts can be served, by one      *)
(* invariant of the reading of the files, which says what each stage       *)
(* leaves to the next; and a server takes only what was sent to its own   *)
(* queue, by one of the queues and who has them, QueueInv.                 *)
(***************************************************************************)
EXTENDS Intake, TLAPS

Stages == Files \cup {"down", "request", "parsed", "receiving", "joining"}

EmergencyTypes ==
    [name : STRING, priority : 0 .. MaxPriority, rescuers : Seq(RequestFields)]

(* The tables are sequences of what was read from lines. *)
TablesTyped ==
    /\ stage \in Stages
    /\ line_number \in Nat /\ parsed_so_far \in Nat
    /\ env \in [queue : {"none", QueueName}, height : Int, width : Int]
    /\ rescuer_types \in Seq(RescuerFields)
    /\ emergency_types \in Seq(EmergencyTypes)
    /\ stage = "request" => fields \in [name : STRING, priority : 0 .. MaxPriority]
    /\ tokens \in Seq(Tokens) /\ requests \in Seq(RequestFields)

(* The entries of the file being read are counted in parsed_so_far, which  *)
(* stops at one more than the limit; a type's requests likewise.           *)
TablesCounted ==
    /\ stage = "rescuers" => Len(rescuer_types) = parsed_so_far
    /\ stage \in {"emergencies", "request"} => Len(emergency_types) = parsed_so_far
    /\ stage = "request" => parsed_so_far <= MaxEmergencyTypes
    /\ Len(rescuer_types) <= MaxRescuerTypes + 1
    /\ Len(emergency_types) <= MaxEmergencyTypes + 1
    /\ Len(requests) <= MaxRequests + 1
    /\ \A i \in DOMAIN emergency_types :
          Len(emergency_types[i].rescuers) <= MaxRequests + 1

(* Stages come in order: no emergency type is there while rescuers are     *)
(* still being added, and each can be met by the rescuers that are.        *)
TablesFit ==
    /\ stage \in {"down", "env"} => rescuer_types = <<>>
    /\ stage \in {"down", "env", "rescuers"} => emergency_types = <<>>
    /\ stage # "request" => requests = <<>>
    /\ CanBeMet(rescuer_types, requests)
    /\ \A i \in DOMAIN emergency_types :
          CanBeMet(rescuer_types, emergency_types[i].rescuers)

ConfInv == TablesTyped /\ TablesCounted /\ TablesFit

--------------------------------------------------------------------------------
(* Sequences and needs. *)

(* Nobody asks for anything. *)
LEMMA NothingToMeet == \A table : CanBeMet(table, <<>>)
BY DEF CanBeMet, NamesDiffer

(* An entry with a name that was not in the table *)
LEMMA OneMoreName ==
    ASSUME NEW S, NEW table \in Seq(S), NEW new \in S,
           NamesDiffer(table), ~Holds(table, new.name)
    PROVE  NamesDiffer(Append(table, new))
  <1> DEFINE longer == Append(table, new)
  <1>1. /\ DOMAIN table = 1 .. Len(table) /\ Len(table) \in Nat
        /\ DOMAIN longer = 1 .. Len(table) + 1
        /\ \A i \in DOMAIN table : longer[i] = table[i]
        /\ longer[Len(table) + 1] = new
    OBVIOUS
  <1> HIDE DEF longer
  <1>2. \A i \in DOMAIN table : table[i].name # new.name
    BY DEF Holds, Named
  <1>3. ASSUME NEW i \in DOMAIN longer, NEW j \in DOMAIN longer,
               longer[i].name = longer[j].name
        PROVE  i = j
    <2>1. CASE i \in DOMAIN table /\ j \in DOMAIN table
      BY <1>1, <1>3, <2>1 DEF NamesDiffer
    <2>2. CASE i = Len(table) + 1 /\ j \in DOMAIN table
      BY <1>1, <1>2, <1>3, <2>2
    <2>3. CASE j = Len(table) + 1 /\ i \in DOMAIN table
      BY <1>1, <1>2, <1>3, <2>3
    <2>4. CASE i = Len(table) + 1 /\ j = Len(table) + 1
      BY <2>4
    <2> QED BY <1>1, <2>1, <2>2, <2>3, <2>4
  <1>4. NamesDiffer(longer)
    BY <1>3 DEF NamesDiffer
  <1> QED BY <1>4 DEF longer

(* A request for rescuers that are there, and were not asked for yet, adds *)
(* to what can be met.                                                     *)
LEMMA OneMoreNeed ==
    ASSUME NEW table, NEW asked \in Seq(RequestFields), NEW r \in RequestFields,
           CanBeMet(table, asked),
           Holds(table, r.name), r.count <= Entry(table, r.name).amount,
           ~Holds(asked, r.name)
    PROVE  CanBeMet(table, Append(asked, r))
  <1> DEFINE new == Append(asked, r)
  <1>1. /\ DOMAIN asked = 1 .. Len(asked) /\ Len(asked) \in Nat
        /\ DOMAIN new = 1 .. Len(asked) + 1
        /\ \A i \in DOMAIN asked : new[i] = asked[i]
        /\ new[Len(asked) + 1] = r
    OBVIOUS
  <1> HIDE DEF new
  <1>2. ASSUME NEW i \in DOMAIN new
        PROVE  /\ Holds(table, new[i].name)
               /\ new[i].count <= Entry(table, new[i].name).amount
    <2>1. CASE i \in DOMAIN asked
      BY <1>1, <2>1 DEF CanBeMet
    <2>2. CASE i = Len(asked) + 1
      BY <1>1, <2>2
    <2> QED BY <1>1, <2>1, <2>2
  <1>3. NamesDiffer(new)
    BY OneMoreName DEF CanBeMet, new
  <1>4. CanBeMet(table, new)
    BY <1>2, <1>3 DEF CanBeMet
  <1> QED BY <1>4 DEF new

--------------------------------------------------------------------------------
(* Reading the files. *)

(* A process that ends leaves nothing. *)
LEMMA EndKeeps == ASSUME EndProcess PROVE ConfInv'
  <1>1. TablesTyped'
    <2>1. env' \in [queue : {"none", QueueName}, height : Int, width : Int]
      BY DEF EndProcess, NoEnv
    <2> QED
      BY <2>1 DEF EndProcess, TablesTyped, Stages
  <1>2. TablesCounted'
    BY LimitsAssumption DEF EndProcess, TablesCounted
  <1>3. TablesFit'
    BY NothingToMeet DEF EndProcess, TablesFit
  <1> QED BY <1>1, <1>2, <1>3 DEF ConfInv

(* A step that leaves the files alone *)
LEMMA RestKeeps == ASSUME ConfInv, UNCHANGED confVars PROVE ConfInv'
BY DEF ConfInv, confVars, stateVars, typeVars, TablesTyped, TablesCounted, TablesFit

(* The stages after the files *)
LEMMA GoToKeeps ==
    ASSUME ConfInv, stage \in {"parsed", "receiving"},
           NEW next \in {"receiving", "joining"}, GoTo(next)
    PROVE  ConfInv'
BY DEF ConfInv, GoTo, stateVars, typeVars, TablesTyped, TablesCounted, TablesFit, Stages

LEMMA StartKeeps == ASSUME ConfInv, StartProcess PROVE ConfInv'
BY DEF ConfInv, StartProcess, NewFile, typeVars, TablesTyped, TablesCounted,
       TablesFit, Stages, Files

LEMMA IgnoreLineKeeps ==
    ASSUME ConfInv, NEW line, IgnoreLine(line) PROVE ConfInv'
  <1>1. line_number' \in Nat
    BY DEF ConfInv, IgnoreLine, TablesTyped
  <1>2. TablesTyped'
    BY <1>1 DEF ConfInv, IgnoreLine, typeVars, TablesTyped
  <1>3. TablesCounted'
    BY DEF ConfInv, IgnoreLine, typeVars, TablesCounted
  <1>4. TablesFit'
    BY DEF ConfInv, IgnoreLine, typeVars, TablesFit
  <1> QED BY <1>2, <1>3, <1>4 DEF ConfInv

LEMMA EnvLineKeeps ==
    ASSUME ConfInv, NEW line \in EnvLines, TakeEnvLine(line) PROVE ConfInv'
  <1>1. stage = "env" /\ EnvLineIsRight(line)
    BY DEF TakeEnvLine, IsFatal, IsIgnored, IsRight
  <1>2. parsed_so_far + 1 \in 1 .. 3
    BY <1>1 DEF EnvLineIsRight, EnvTurns, ConfInv, TablesTyped
  <1>3. line.form \in {"queue", "height", "width"}
    BY <1>1, <1>2 DEF EnvLineIsRight, EnvTurns
  <1>4. ~EnvironmentIsIllegal(EnvWith(line))
    BY <1>1 DEF EnvLineIsRight
  <1>5. env' \in [queue : {"none", QueueName}, height : Int, width : Int]
    BY <1>1, <1>3, <1>4, LinesAssumption DEF TakeEnvLine, EnvWith, EnvironmentIsIllegal, ConfInv, TablesTyped
  <1> QED
    BY <1>1, <1>5 DEF ConfInv, TakeEnvLine, NextEntry, typeVars, TablesTyped,
           TablesCounted, TablesFit

LEMMA RescuerLineKeeps ==
    ASSUME ConfInv, NEW line \in RescuerLines, TakeRescuerLine(line) PROVE ConfInv'
  <1>0. /\ stage = "rescuers" /\ line.form = "fields"
        /\ ~(parsed_so_far > MaxRescuerTypes)
    BY DEF TakeRescuerLine, IsFatal, IsIgnored, IsRight, RescuerLineIsRight,
           CantBeProcessed, MaxParsed
  <1>1. /\ stage = "rescuers" /\ line.rescuer \in RescuerFields
        /\ parsed_so_far <= MaxRescuerTypes
    BY <1>0, LinesAssumption, LimitsAssumption DEF ConfInv, TablesTyped
  <1>2. /\ rescuer_types' \in Seq(RescuerFields)
        /\ Len(rescuer_types') = Len(rescuer_types) + 1
    BY <1>1 DEF TakeRescuerLine, ConfInv, TablesTyped
  <1>3. TablesTyped'
    BY <1>1, <1>2 DEF ConfInv, TakeRescuerLine, NextEntry, typeVars, TablesTyped
  <1>4. TablesCounted'
    BY <1>1, <1>2, LimitsAssumption DEF ConfInv, TakeRescuerLine, NextEntry, typeVars,
           TablesTyped, TablesCounted, TablesFit
  <1>5. TablesFit'
    BY <1>1, NothingToMeet DEF ConfInv, TakeRescuerLine, NextEntry, typeVars, TablesFit
  <1> QED BY <1>3, <1>4, <1>5 DEF ConfInv

LEMMA EmergencyLineKeeps ==
    ASSUME ConfInv, NEW line \in EmergencyLines, TakeEmergencyLine(line) PROVE ConfInv'
  <1>1. /\ stage = "emergencies" /\ EmergencyLineIsRight(line)
        /\ ~(parsed_so_far > MaxEmergencyTypes)
    BY DEF TakeEmergencyLine, IsFatal, IsIgnored, IsRight, CantBeProcessed, MaxParsed,
           EmergencyLineIsRight
  <1>2. /\ line.name \in STRING /\ line.priority \in 0 .. MaxPriority
        /\ line.requests \in Seq(Tokens)
    BY <1>1, LinesAssumption DEF EmergencyLineIsRight
  <1>3. parsed_so_far <= MaxEmergencyTypes
    BY <1>1, LimitsAssumption DEF ConfInv, TablesTyped
  <1>4. line_number' \in Nat
    BY DEF ConfInv, TakeEmergencyLine, TablesTyped
  <1>5. TablesTyped'
    BY <1>2, <1>4 DEF ConfInv, TakeEmergencyLine, TablesTyped, Stages
  <1>6. TablesCounted'
    BY <1>1, <1>3, LimitsAssumption DEF ConfInv, TakeEmergencyLine, TablesCounted
  <1>7. TablesFit'
    BY <1>1, NothingToMeet DEF ConfInv, TakeEmergencyLine, TablesFit
  <1> QED BY <1>5, <1>6, <1>7 DEF ConfInv

(* Where TokenIsRight holds there is room for one more request. *)
LEMMA TokenKeeps == ASSUME ConfInv, TakeToken PROVE ConfInv'
  <1> DEFINE t == Head(tokens)
  <1>1. /\ t \in Tokens /\ Tail(tokens) \in Seq(Tokens)
    BY DEF ConfInv, TablesTyped, TakeToken
  <1>2. t.request \in RequestFields
    BY <1>1 DEF TakeToken, TokenIsRight, Tokens
  <1>3. /\ stage = "request" /\ Len(requests) <= MaxRequests
        /\ ~Holds(requests, t.request.name)
        /\ Holds(rescuer_types, t.request.name)
        /\ t.request.count <= Entry(rescuer_types, t.request.name).amount
        /\ requests' = Append(requests, t.request)
        /\ tokens' = Tail(tokens)
    BY DEF TakeToken, TokenIsRight, IsRepeated, IsAvailable
  <1>4. UNCHANGED <<stage, stateVars, env, rescuer_types, emergency_types, fields>>
    BY DEF TakeToken
  <1> HIDE DEF t
  <1>5. /\ requests' \in Seq(RequestFields) /\ Len(requests') = Len(requests) + 1
        /\ Len(requests) \in Nat
    BY <1>2, <1>3 DEF ConfInv, TablesTyped
  <1>6. TablesTyped'
    BY <1>1, <1>3, <1>4, <1>5 DEF ConfInv, stateVars, TablesTyped
  <1>7. TablesCounted'
    BY <1>3, <1>4, <1>5, LimitsAssumption DEF ConfInv, stateVars, TablesCounted
  <1>8. CanBeMet(rescuer_types, requests')
    BY <1>2, <1>3, OneMoreNeed DEF ConfInv, TablesTyped, TablesFit
  <1>9. TablesFit'
    BY <1>3, <1>4, <1>8 DEF ConfInv, TablesFit
  <1> QED BY <1>6, <1>7, <1>9 DEF ConfInv

LEMMA IgnoreTokenKeeps == ASSUME ConfInv, IgnoreToken PROVE ConfInv'
  <1>1. tokens' \in Seq(Tokens)
    BY DEF ConfInv, TablesTyped, IgnoreToken
  <1>2. UNCHANGED <<stage, stateVars, env, rescuer_types, emergency_types, fields, requests>>
    BY DEF IgnoreToken
  <1> QED
    BY <1>1, <1>2 DEF ConfInv, stateVars, TablesTyped, TablesCounted, TablesFit

(* The new type takes the requests with it: they can be met, and are not   *)
(* too many.                                                               *)
LEMMA EndRequestsKeeps == ASSUME ConfInv, EndRequests PROVE ConfInv'
  <1> DEFINE new == [name |-> fields.name, priority |-> fields.priority,
                     rescuers |-> requests]
  <1>1. new \in EmergencyTypes
    BY DEF ConfInv, TablesTyped, EmergencyTypes, EndRequests
  <1>2. new.rescuers = requests
    OBVIOUS
  <1>3. /\ stage = "request" /\ stage' = "emergencies"
        /\ emergency_types' = Append(emergency_types, new)
        /\ parsed_so_far' = parsed_so_far + 1
        /\ requests' = <<>> /\ fields' = NoFields
        /\ UNCHANGED <<line_number, env, rescuer_types, tokens>>
    BY DEF EndRequests
  <1> HIDE DEF new
  <1>4. /\ emergency_types' \in Seq(EmergencyTypes)
        /\ Len(emergency_types) \in Nat
        /\ Len(emergency_types') = Len(emergency_types) + 1
        /\ DOMAIN emergency_types = 1 .. Len(emergency_types)
        /\ \A i \in DOMAIN emergency_types' :
              \/ /\ i \in DOMAIN emergency_types
                 /\ emergency_types'[i] = emergency_types[i]
              \/ emergency_types'[i] = new
    <2>1. emergency_types \in Seq(EmergencyTypes)
      BY DEF ConfInv, TablesTyped
    <2>2. emergency_types' \in Seq(EmergencyTypes)
      BY <1>1, <1>3, <2>1
    <2>3. /\ Len(emergency_types) \in Nat
          /\ Len(emergency_types') = Len(emergency_types) + 1
          /\ DOMAIN emergency_types = 1 .. Len(emergency_types)
          /\ DOMAIN emergency_types' = 1 .. Len(emergency_types) + 1
      BY <1>3, <2>1
    <2>4. ASSUME NEW i \in DOMAIN emergency_types'
          PROVE  \/ /\ i \in DOMAIN emergency_types
                    /\ emergency_types'[i] = emergency_types[i]
                 \/ emergency_types'[i] = new
      BY <1>3, <2>1, <2>3
    <2> QED BY <2>2, <2>3, <2>4
  <1>5. parsed_so_far' \in Nat
    BY <1>3 DEF ConfInv, TablesTyped
  <1>7. TablesTyped'
    BY <1>3, <1>4, <1>5 DEF ConfInv, TablesTyped, Stages, Files
  <1>8. \A i \in DOMAIN emergency_types' :
           /\ Len(emergency_types'[i].rescuers) <= MaxRequests + 1
           /\ CanBeMet(rescuer_types, emergency_types'[i].rescuers)
    BY <1>2, <1>4 DEF ConfInv, TablesCounted, TablesFit
  <1>9. TablesCounted'
    BY <1>3, <1>4, <1>8, LimitsAssumption DEF ConfInv, TablesTyped, TablesCounted
  <1>10. TablesFit'
    BY <1>3, <1>8, NothingToMeet DEF TablesFit
  <1> QED BY <1>7, <1>9, <1>10 DEF ConfInv

LEMMA EndOfEnvKeeps == ASSUME ConfInv, EndOfEnv PROVE ConfInv'
  <1>1. CASE parsed_so_far # Len(EnvTurns)
    BY <1>1, EndKeeps DEF EndOfEnv
  <1>2. CASE parsed_so_far = Len(EnvTurns)
    <2>1. /\ stage = "env" /\ stage' = "rescuers" /\ NewFile
          /\ UNCHANGED <<env, rescuer_types, emergency_types, typeVars>>
      BY <1>2 DEF EndOfEnv
    <2>2. TablesTyped'
      BY <2>1 DEF ConfInv, NewFile, typeVars, TablesTyped, Stages, Files
    <2>3. TablesCounted'
      BY <2>1, LimitsAssumption DEF ConfInv, NewFile, typeVars, TablesCounted, TablesFit
    <2>4. TablesFit'
      BY <2>1 DEF ConfInv, typeVars, TablesFit
    <2> QED BY <2>2, <2>3, <2>4 DEF ConfInv
  <1> QED BY <1>1, <1>2

LEMMA EndOfTablesKeeps ==
    ASSUME ConfInv, EndOfRescuers \/ EndOfEmergencies PROVE ConfInv'
  <1>1. /\ \/ stage = "rescuers" /\ stage' = "emergencies"
           \/ stage = "emergencies" /\ stage' = "parsed"
        /\ NewFile
        /\ UNCHANGED <<env, rescuer_types, emergency_types, typeVars>>
    BY DEF EndOfRescuers, EndOfEmergencies
  <1>2. TablesTyped'
    BY <1>1 DEF ConfInv, NewFile, typeVars, TablesTyped, Stages, Files
  <1>3. TablesCounted'
    BY <1>1, LimitsAssumption DEF ConfInv, NewFile, typeVars, TablesCounted, TablesFit
  <1>4. TablesFit'
    BY <1>1 DEF ConfInv, typeVars, TablesFit
  <1> QED BY <1>2, <1>3, <1>4 DEF ConfInv

(* Every step of the reading *)
LEMMA ParseKeeps == ASSUME ConfInv, Parse PROVE ConfInv'
  <1>1. ASSUME NEW line, ReadLine(line) PROVE ConfInv'
    BY <1>1, EndKeeps, IgnoreLineKeeps DEF ReadLine, FailOnLine
  <1>2. CASE FailOnToken
    BY <1>2, EndKeeps DEF FailOnToken
  <1> QED
    BY <1>1, <1>2, EnvLineKeeps, RescuerLineKeeps, EmergencyLineKeeps, TokenKeeps,
       IgnoreTokenKeeps, EndRequestsKeeps, EndOfEnvKeeps, EndOfTablesKeeps DEF Parse

--------------------------------------------------------------------------------
(* The whole of the intake *)

(* Only the process that receives has taken or accepted anything, and what *)
(* it did names a type of its table.                                       *)
AcceptedFits ==
    /\ stage \notin {"receiving", "joining"} => accepted = {} /\ taken = <<>>
    /\ \A m \in accepted : Holds(emergency_types, m.name)
    /\ taken # <<>> => Holds(emergency_types, Head(taken).name)

IntakeInv == ConfInv /\ AcceptedFits

LEMMA NothingAccepted ==
    ASSUME accepted' = {}, taken' = <<>> PROVE AcceptedFits'
BY DEF AcceptedFits

LEMMA SameAccepted ==
    ASSUME AcceptedFits, UNCHANGED <<accepted, taken, emergency_types>>,
           stage' = stage \/ stage' \in {"receiving", "joining"}
    PROVE  AcceptedFits'
BY DEF AcceptedFits, Holds, Named

(* The lookup comes before the request is taken for good, and the table    *)
(* stays meanwhile.                                                        *)
LEMMA OneMoreAccepted ==
    ASSUME AcceptedFits, TakeRequest \/ AcceptRequest PROVE AcceptedFits'
  <1>0. stage' = stage /\ emergency_types' = emergency_types /\ stage = "receiving"
    BY DEF TakeRequest, AcceptRequest, TakeMessage, Receiving, confVars
  <1>1. CASE TakeRequest
    <2> DEFINE m == Message
    <2>1. /\ taken' = <<m>> /\ accepted' = accepted
          /\ Holds(emergency_types, m.name)
      BY <1>1 DEF TakeRequest, IsLegal
    <2> HIDE DEF m
    <2>2. Head(taken') = m
      BY <2>1
    <2>3. Holds(emergency_types', Head(taken').name)
      BY <1>0, <2>1, <2>2
    <2> QED BY <1>0, <2>1, <2>3 DEF AcceptedFits
  <1>2. CASE AcceptRequest
    <2> DEFINE m == Head(taken)
    <2>1. /\ taken # <<>> /\ taken' = <<>>
          /\ accepted' = accepted \cup {m}
      BY <1>2 DEF AcceptRequest
    <2>2. Holds(emergency_types, m.name)
      BY <2>1 DEF AcceptedFits
    <2> HIDE DEF m
    <2> QED BY <1>0, <2>1, <2>2 DEF AcceptedFits
  <1> QED BY <1>1, <1>2

LEMMA ServerKeeps == ASSUME IntakeInv, ServerStep PROVE IntakeInv'
  <1> USE DEF IntakeInv
  <1>1. CASE StartServer
    <2>1. accepted' = {} /\ taken' = <<>>
      BY <1>1 DEF StartServer, StartProcess, AcceptedFits, receiverVars
    <2> QED BY <1>1, <2>1, StartKeeps, NothingAccepted DEF StartServer
  <1>2. CASE ParseFiles
    <2>1. accepted' = {} /\ taken' = <<>>
      <3>1. stage \in Files \cup {"request"}
        BY <1>2 DEF ParseFiles, Parse, Files, TakeToken, IgnoreToken, FailOnToken,
               EndRequests, EndOfEnv, EndOfRescuers, EndOfEmergencies
      <3> QED BY <1>2, <3>1 DEF ParseFiles, AcceptedFits, Files, receiverVars
    <2> QED BY <1>2, <2>1, ParseKeeps, NothingAccepted DEF ParseFiles
  <1>3. CASE OpenQueue
    BY <1>3, GoToKeeps, SameAccepted DEF OpenQueue, GoTo, receiverVars
  <1>4. CASE ReceiveStop
    BY <1>4, GoToKeeps, SameAccepted DEF ReceiveStop, TakeMessage, Receiving, GoTo, receiverVars
  <1>5. CASE RejectRequest \/ WaitForQueue \/ WaitForLog
    <2>1. UNCHANGED <<confVars, accepted, taken>>
      BY <1>5 DEF RejectRequest, WaitForQueue, WaitForLog, receiverVars
    <2> QED BY <2>1, RestKeeps, SameAccepted DEF confVars
  <1>6. CASE TakeRequest \/ AcceptRequest
    BY <1>6, RestKeeps, OneMoreAccepted DEF TakeRequest, AcceptRequest
  <1>7. CASE CrashOnRequest \/ CloseQueue \/ Die
    BY <1>7, EndKeeps, NothingAccepted DEF CrashOnRequest, CloseQueue, Die, EndServer
  <1> QED
    BY <1>1, <1>2, <1>3, <1>4, <1>5, <1>6, <1>7 DEF ServerStep, Receive

(* Nothing a client does reaches the server's tables. *)
LEMMA ClientLeavesServer ==
    ASSUME NEW c, ClientStep(c) PROVE UNCHANGED <<confVars, receiverVars>>
BY DEF ClientStep, Launch, ReadFile, Send, OpenFile, OpenToStop, OpenAndSend,
       FailOnFile, EndOfFile, SkipLine, TakeLine, Close, StickInLog, Becomes

LEMMA ClientKeeps == ASSUME IntakeInv, NEW c, ClientStep(c) PROVE IntakeInv'
  <1>1. UNCHANGED <<confVars, receiverVars>>
    BY ClientLeavesServer
  <1> QED BY <1>1, RestKeeps, SameAccepted DEF IntakeInv, confVars, receiverVars

LEMMA IntakeInit_Inv == ASSUME IntakeInit PROVE IntakeInv
  <1>1. TablesTyped
    BY DEF IntakeInit, ConfInit, NoEnv, TablesTyped, Stages
  <1>2. TablesCounted
    BY LimitsAssumption DEF IntakeInit, ConfInit, TablesCounted
  <1>3. TablesFit
    BY NothingToMeet DEF IntakeInit, ConfInit, TablesFit
  <1>4. AcceptedFits
    BY DEF AcceptedFits, IntakeInit
  <1> QED BY <1>1, <1>2, <1>3, <1>4 DEF IntakeInv, ConfInv

LEMMA IntakeInductive == IntakeSpec => []IntakeInv
  <1>1. IntakeInv /\ [IntakeNext]_intakeVars => IntakeInv'
    <2> SUFFICES ASSUME IntakeInv, [IntakeNext]_intakeVars PROVE IntakeInv'
      OBVIOUS
    <2>1. CASE UNCHANGED intakeVars
      BY <2>1, RestKeeps, SameAccepted DEF intakeVars, confVars, receiverVars, IntakeInv
    <2> QED BY <2>1, ServerKeeps, ClientKeeps DEF IntakeNext
  <1> QED BY <1>1, IntakeInit_Inv, PTL DEF IntakeSpec

--------------------------------------------------------------------------------
(* The tables and what the server assumes of them *)

RescuersAreSensible == \A i \in DOMAIN rescuer_types : IsSensibleRescuer(rescuer_types[i])

(* Inductive: the type being read is new, and its requests are sensible.   *)
SuitInv ==
    /\ TablesSuitTheServer
    /\ stage = "request" => ~Holds(emergency_types, fields.name)
    /\ \A k \in DOMAIN requests : IsSensibleRequest(requests[k])

LEMMA NothingSuits ==
    ASSUME rescuer_types = <<>>, emergency_types = <<>>, requests = <<>>,
           stage # "request"
    PROVE  SuitInv
BY DEF SuitInv, TablesSuitTheServer, NamesDiffer

LEMMA NothingSuitsNext ==
    ASSUME rescuer_types' = <<>>, emergency_types' = <<>>, requests' = <<>>,
           stage' # "request"
    PROVE  SuitInv'
BY DEF SuitInv, TablesSuitTheServer, NamesDiffer

(* A step that touches neither the tables nor the type being read *)
LEMMA SameTablesSuit ==
    ASSUME SuitInv, UNCHANGED <<env, rescuer_types, emergency_types, fields, requests>>,
           stage' # "request" \/ stage = "request"
    PROVE  SuitInv'
<1>1. TablesSuitTheServer'
  BY DEF SuitInv, TablesSuitTheServer, NamesDiffer, IsSensibleRescuer, IsSensibleRequest
<1> QED  BY <1>1 DEF SuitInv, Holds, Named, IsSensibleRequest

LEMMA RescuerLineSuits ==
    ASSUME ConfInv, SuitInv, NEW line \in RescuerLines, TakeRescuerLine(line)
    PROVE  SuitInv'
  <1> DEFINE new == line.rescuer
  <1>1. /\ stage = "rescuers" /\ stage' = stage /\ line.form = "fields"
        /\ ~Holds(rescuer_types, new.name)
        /\ rescuer_types' = Append(rescuer_types, new)
        /\ UNCHANGED <<env, emergency_types, fields, requests>>
        /\ new.amount \in 1 .. MaxAmount /\ new.speed \in 1 .. MaxSpeed
        /\ new.x \in 0 .. env.width /\ new.y \in 0 .. env.height
    BY DEF TakeRescuerLine, IsFatal, IsIgnored, IsRight, RescuerLineIsRight, typeVars
  <1>2. new \in RescuerFields /\ rescuer_types \in Seq(RescuerFields)
    BY <1>1, LinesAssumption DEF ConfInv, TablesTyped
  <1>3. IsSensibleRescuer(new)
    <2>1. MaxAmount \in Nat /\ MaxSpeed \in Nat
      BY LimitsAssumption
    <2>2. \A a : \A m \in Nat : a \in 1 .. m => a >= 1
      OBVIOUS
    <2>3. new.amount >= 1
      <3>1. new.amount \in 1 .. MaxAmount
        BY <1>1
      <3> HIDE DEF new
      <3> QED  BY <2>1, <2>2, <3>1
    <2>4. new.speed >= 1
      <3>1. new.speed \in 1 .. MaxSpeed
        BY <1>1
      <3> HIDE DEF new
      <3> QED  BY <2>1, <2>2, <3>1
    <2>5. new.x \in 0 .. env.width /\ new.y \in 0 .. env.height
      BY <1>1
    <2> QED  BY <2>3, <2>4, <2>5 DEF IsSensibleRescuer
  <1> HIDE DEF new
  <1>4. NamesDiffer(rescuer_types')
    BY <1>1, <1>2, OneMoreName DEF SuitInv, TablesSuitTheServer
  <1>5. \A i \in DOMAIN rescuer_types' :
           \/ i \in DOMAIN rescuer_types /\ rescuer_types'[i] = rescuer_types[i]
           \/ rescuer_types'[i] = new
    BY <1>1, <1>2
  <1>6. RescuersAreSensible'
    BY <1>1, <1>3, <1>5 DEF SuitInv, TablesSuitTheServer, RescuersAreSensible,
                            IsSensibleRescuer
  <1>7. emergency_types = <<>> /\ requests = <<>>
    BY <1>1 DEF ConfInv, TablesFit
  <1> QED
    BY <1>1, <1>4, <1>6, <1>7
       DEF SuitInv, TablesSuitTheServer, NamesDiffer, RescuersAreSensible

LEMMA EmergencyLineSuits ==
    ASSUME ConfInv, SuitInv, NEW line \in EmergencyLines, TakeEmergencyLine(line)
    PROVE  SuitInv'
  <1>1. /\ ~Holds(emergency_types, line.name)
        /\ fields' = [name |-> line.name, priority |-> line.priority]
        /\ requests' = <<>>
        /\ UNCHANGED <<env, rescuer_types, emergency_types>>
    BY DEF TakeEmergencyLine, IsFatal, IsIgnored, IsRight, EmergencyLineIsRight
  <1>2. TablesSuitTheServer'
    BY <1>1 DEF SuitInv, TablesSuitTheServer, NamesDiffer, IsSensibleRescuer,
                IsSensibleRequest
  <1>3. ~Holds(emergency_types, fields.name)'
    BY <1>1 DEF Holds, Named
  <1> QED BY <1>1, <1>2, <1>3 DEF SuitInv

LEMMA TokenSuits == ASSUME ConfInv, SuitInv, TakeToken PROVE SuitInv'
  <1> DEFINE new == Head(tokens).request
  <1>1. /\ stage = "request" /\ requests' = Append(requests, new)
        /\ UNCHANGED <<stage, env, rescuer_types, emergency_types, fields>>
        /\ new.count \in 1 .. MaxCount /\ new.time \in 1 .. MaxTime
    BY DEF TakeToken, TokenIsRight
  <1>2. requests \in Seq(RequestFields) /\ new \in RequestFields
    <2>1. Head(tokens) \in Tokens /\ Head(tokens).form = "fields"
      BY DEF ConfInv, TablesTyped, TakeToken, TokenIsRight
    <2> QED BY <2>1 DEF Tokens, ConfInv, TablesTyped
  <1>3. IsSensibleRequest(new)
    BY <1>1, <1>2, LimitsAssumption DEF IsSensibleRequest
  <1> HIDE DEF new
  <1>4. \A k \in DOMAIN requests' : IsSensibleRequest(requests'[k])
    <2>1. \A k \in DOMAIN requests' :
             \/ k \in DOMAIN requests /\ requests'[k] = requests[k]
             \/ requests'[k] = new
      BY <1>1, <1>2
    <2> QED BY <1>3, <2>1 DEF SuitInv
  <1>5. TablesSuitTheServer'
    BY <1>1 DEF SuitInv, TablesSuitTheServer, NamesDiffer, IsSensibleRescuer,
                IsSensibleRequest
  <1>6. ~Holds(emergency_types, fields.name)'
    BY <1>1 DEF SuitInv, Holds, Named
  <1> QED BY <1>4, <1>5, <1>6 DEF SuitInv, IsSensibleRequest

LEMMA EndRequestsSuits == ASSUME ConfInv, SuitInv, EndRequests PROVE SuitInv'
  <1> DEFINE new == [name |-> fields.name, priority |-> fields.priority,
                     rescuers |-> requests]
  <1>1. /\ stage = "request" /\ stage' = "emergencies"
        /\ emergency_types' = Append(emergency_types, new)
        /\ requests' = <<>>
        /\ UNCHANGED <<env, rescuer_types>>
    BY DEF EndRequests
  <1>2. /\ new \in EmergencyTypes /\ emergency_types \in Seq(EmergencyTypes)
        /\ new.name = fields.name /\ new.rescuers = requests
    BY <1>1 DEF ConfInv, TablesTyped, EmergencyTypes
  <1> HIDE DEF new
  <1>3. NamesDiffer(emergency_types')
    BY <1>1, <1>2, OneMoreName DEF SuitInv, TablesSuitTheServer
  <1>4. \A i \in DOMAIN emergency_types' :
           \/ i \in DOMAIN emergency_types /\ emergency_types'[i] = emergency_types[i]
           \/ emergency_types'[i] = new
    BY <1>1, <1>2
  <1>5. \A i \in DOMAIN emergency_types' : \A k \in DOMAIN emergency_types'[i].rescuers :
           IsSensibleRequest(emergency_types'[i].rescuers[k])
    BY <1>2, <1>4 DEF SuitInv, TablesSuitTheServer
  <1>6. NamesDiffer(rescuer_types)' /\ RescuersAreSensible'
    BY <1>1 DEF SuitInv, TablesSuitTheServer, NamesDiffer, IsSensibleRescuer,
                RescuersAreSensible
  <1> QED
    BY <1>1, <1>3, <1>5, <1>6 DEF SuitInv, TablesSuitTheServer, NamesDiffer,
                                  IsSensibleRequest, RescuersAreSensible

(* Every step of the reading; the map is known before a base is read. *)
LEMMA ParseSuits == ASSUME ConfInv, SuitInv, Parse PROVE SuitInv'
  <1>1. CASE EndProcess
    BY <1>1, NothingSuitsNext DEF EndProcess
  <1>2. ASSUME NEW line, ReadLine(line) PROVE SuitInv'
    BY <1>1, <1>2, SameTablesSuit DEF ReadLine, FailOnLine, IgnoreLine, typeVars, Files
  <1>3. ASSUME NEW line, TakeEnvLine(line) PROVE SuitInv'
    BY <1>3, NothingSuitsNext DEF TakeEnvLine, typeVars, ConfInv, TablesFit
  <1>4. CASE IgnoreToken \/ FailOnToken
    BY <1>1, <1>4, SameTablesSuit DEF IgnoreToken, FailOnToken
  <1>5. CASE EndOfEnv \/ EndOfRescuers \/ EndOfEmergencies
    BY <1>1, <1>5, SameTablesSuit DEF EndOfEnv, EndOfRescuers, EndOfEmergencies, typeVars
  <1> QED
    BY <1>2, <1>3, <1>4, <1>5, RescuerLineSuits, EmergencyLineSuits, TokenSuits,
       EndRequestsSuits DEF Parse

LEMMA SuitInductive == IntakeSpec => []SuitInv
  <1>1. ASSUME IntakeInit PROVE SuitInv
    BY <1>1, NothingSuits DEF IntakeInit, ConfInit
  <1>2. IntakeInv /\ SuitInv /\ [IntakeNext]_intakeVars => SuitInv'
    <2> SUFFICES ASSUME IntakeInv, SuitInv, [IntakeNext]_intakeVars PROVE SuitInv'
      OBVIOUS
    <2>1. ConfInv
      BY DEF IntakeInv
    <2>2. CASE ParseFiles
      BY <2>1, <2>2, ParseSuits DEF ParseFiles
    <2>3. CASE CrashOnRequest \/ CloseQueue \/ Die
      BY <2>3, NothingSuitsNext DEF CrashOnRequest, CloseQueue, Die, EndServer, EndProcess
    <2>4. CASE StartServer
      BY <2>4, SameTablesSuit DEF StartServer, StartProcess, typeVars
    <2>5. CASE OpenQueue \/ ReceiveStop
      BY <2>5, SameTablesSuit DEF OpenQueue, ReceiveStop, GoTo, typeVars
    <2>6. CASE UNCHANGED confVars
      BY <2>6, SameTablesSuit DEF confVars, typeVars
    <2>7. CASE \/ RejectRequest \/ TakeRequest \/ AcceptRequest
               \/ WaitForQueue \/ WaitForLog
      BY <2>6, <2>7 DEF RejectRequest, TakeRequest, AcceptRequest, WaitForQueue, WaitForLog
    <2>8. ASSUME NEW c, ClientStep(c) PROVE SuitInv'
      BY <2>6, <2>8, ClientLeavesServer
    <2>9. CASE UNCHANGED intakeVars
      BY <2>6, <2>9 DEF intakeVars
    <2> QED
      BY <2>2, <2>3, <2>4, <2>5, <2>7, <2>8, <2>9 DEF IntakeNext, ServerStep, Receive
  <1> QED BY <1>1, <1>2, IntakeInductive, PTL DEF IntakeSpec

--------------------------------------------------------------------------------
(* The queues and the clients *)

(* Who reads or sends has a queue that was opened. *)
SoundClients ==
    {k \in AnyClient :
        k.queue <= opened /\ (k.step \in {"reading", "sending"} => k.queue # 0)}

ClientsSound == client \in [Clients -> SoundClients]

(* The name stands for the last queue; before a server has opened its own  *)
(* there is room for one more.                                             *)
QueuesCounted ==
    /\ opened \in 0 .. MaxQueues /\ named = opened
    /\ stage \in Files \cup {"request", "parsed"} => opened < MaxQueues
    /\ stage = "receiving" => opened # 0

QueuesTyped ==
    /\ queues \in [1 .. MaxQueues -> Seq(AnyMessage)]
    /\ \A q \in 1 .. MaxQueues : Len(queues[q]) <= QueueCapacity

(* What is in the last queue was sent since it was opened; those to come   *)
(* are empty.                                                              *)
QueuesFresh ==
    \A q \in 1 .. MaxQueues :
        /\ q > opened => queues[q] = <<>>
        /\ q = opened => \A i \in DOMAIN queues[q] : queues[q][i].sent_in = opened

(* The receiver has at most one request in hand. *)
ReceiverTyped ==
    /\ accepted \subseteq AnyMessage
    /\ taken \in Seq(AnyMessage) /\ Len(taken) <= 1
    /\ waits_for \in {"nothing", "waiting_queue", "log"}

QueueInv ==
    /\ QueuesCounted /\ QueuesTyped /\ QueuesFresh
    /\ ClientsSound /\ ReceiverTyped

LEMMA QueueInit == ASSUME IntakeInit PROVE QueueInv
  <1>1. QueuesCounted
    BY IntakeAssumption DEF IntakeInit, ConfInit, QueuesCounted, Files
  <1>2. QueuesTyped /\ QueuesFresh
    BY IntakeAssumption DEF IntakeInit, QueuesTyped, QueuesFresh
  <1>3. StopMessage \in AnyMessage
    BY IntakeAssumption DEF StopMessage, AnyMessage
  <1>4. NewClient \in AnyClient
    BY <1>3, IntakeAssumption DEF NewClient, AnyClient
  <1>5. NewClient \in SoundClients
    BY <1>1, <1>4 DEF QueuesCounted, SoundClients, NewClient
  <1>6. ClientsSound
    BY <1>5 DEF IntakeInit, ClientsSound
  <1>7. ReceiverTyped
    BY DEF IntakeInit, ReceiverTyped
  <1> QED BY <1>1, <1>2, <1>6, <1>7 DEF QueueInv

(* A step that leaves the queues and the clients alone *)
LEMMA QueuesRest ==
    ASSUME QueueInv, UNCHANGED <<opened, named, queues, client>>,
           ReceiverTyped',
           stage' \in Files \cup {"request", "parsed"} => opened < MaxQueues,
           stage' = "receiving" => opened # 0
    PROVE  QueueInv'
BY DEF QueueInv, QueuesCounted, QueuesTyped, QueuesFresh, ClientsSound, SoundClients

(* The queue a starting server opens is empty, and nobody has it yet. *)
LEMMA OpenQueueKeeps == ASSUME QueueInv, OpenQueue PROVE QueueInv'
  <1>1. /\ opened' = opened + 1 /\ named' = opened + 1 /\ stage' = "receiving"
        /\ UNCHANGED <<queues, receiverVars, client>>
        /\ opened < MaxQueues /\ opened \in Nat
    BY DEF OpenQueue, NewQueue, GoTo, QueueInv, QueuesCounted
  <1>2. QueuesCounted'
    BY <1>1, IntakeAssumption DEF QueueInv, QueuesCounted, Files
  <1>3. QueuesTyped'
    BY <1>1 DEF QueueInv, QueuesTyped
  <1>4. QueuesFresh'
    <2> SUFFICES ASSUME NEW q \in 1 .. MaxQueues
                 PROVE  /\ q > opened' => queues[q] = <<>>
                        /\ q = opened' => \A i \in DOMAIN queues[q] :
                                             queues[q][i].sent_in = opened'
      BY <1>1 DEF QueuesFresh
    <2>1. q >= opened' => queues[q] = <<>>
      BY <1>1 DEF QueueInv, QueuesFresh
    <2>2. DOMAIN <<>> = {}
      OBVIOUS
    <2> QED BY <1>1, <2>1, <2>2
  <1>5. \A k \in SoundClients : k.queue <= opened + 1
    BY <1>1 DEF SoundClients, AnyClient
  <1>6. ClientsSound'
    BY <1>1, <1>5 DEF QueueInv, ClientsSound, SoundClients
  <1>7. ReceiverTyped'
    BY <1>1 DEF QueueInv, ReceiverTyped, receiverVars
  <1> QED BY <1>2, <1>3, <1>4, <1>6, <1>7 DEF QueueInv

(* What is taken is the oldest of the last queue. *)
LEMMA TakeKeeps ==
    ASSUME QueueInv, TakeMessage, ReceiverTyped',
           stage' \in {"receiving", "joining", "down"}
    PROVE  QueueInv' /\ Message \in AnyMessage /\ Message.sent_in = opened
  <1>1. /\ queues[opened] # <<>> /\ opened \in 1 .. MaxQueues
        /\ queues' = [queues EXCEPT ![opened] = Tail(@)]
        /\ UNCHANGED <<opened, named, client>>
        /\ Message = Head(queues[opened])
    BY DEF TakeMessage, Receiving, QueueInv, QueuesCounted, Message
  <1>2. queues[opened] \in Seq(AnyMessage) /\ Len(queues[opened]) <= QueueCapacity
    BY <1>1 DEF QueueInv, QueuesTyped
  <1>3. /\ Message \in AnyMessage /\ Message = queues[opened][1]
        /\ 1 \in DOMAIN queues[opened]
    BY <1>1, <1>2
  <1>4. \A i \in DOMAIN queues[opened] : queues[opened][i].sent_in = opened
    BY <1>1 DEF QueueInv, QueuesFresh
  <1>5. /\ Tail(queues[opened]) \in Seq(AnyMessage)
        /\ Len(Tail(queues[opened])) <= QueueCapacity
        /\ \A i \in DOMAIN Tail(queues[opened]) :
              Tail(queues[opened])[i].sent_in = opened
    BY <1>1, <1>2, <1>4, IntakeAssumption
  <1>6. QueuesTyped'
    BY <1>1, <1>5 DEF QueueInv, QueuesTyped
  <1>7. QueuesFresh'
    BY <1>1, <1>5 DEF QueueInv, QueuesTyped, QueuesFresh
  <1>8. QueuesCounted' /\ ClientsSound'
    BY <1>1 DEF QueueInv, QueuesCounted, ClientsSound, SoundClients, Files
  <1> QED BY <1>3, <1>4, <1>6, <1>7, <1>8 DEF QueueInv

LEMMA ServerKeepsQueues == ASSUME QueueInv, IntakeInv, ServerStep PROVE QueueInv'
  <1>0. ReceiverTyped
    BY DEF QueueInv
  <1>1. ASSUME UNCHANGED receiverVars PROVE ReceiverTyped'
    BY <1>0, <1>1 DEF receiverVars, ReceiverTyped
  <1>2. ASSUME EndServer PROVE ReceiverTyped' /\ stage' = "down"
    BY <1>2 DEF EndServer, EndProcess, ReceiverTyped
  <1>3. CASE StartServer
    BY <1>1, <1>3, QueuesRest DEF StartServer, StartProcess, queueVars
  <1>4. CASE ParseFiles
    <2>1. UNCHANGED <<opened, named, queues, client, receiverVars>>
      BY <1>4 DEF ParseFiles, queueVars
    <2>2. stage \in Files \cup {"request"}
      BY <1>4 DEF ParseFiles, Parse, Files, TakeToken, IgnoreToken, FailOnToken,
             EndRequests, EndOfEnv, EndOfRescuers, EndOfEmergencies
    <2>3. opened < MaxQueues
      BY <2>2 DEF QueueInv, QueuesCounted
    <2>4. stage' # "receiving"
      BY <1>4 DEF ParseFiles, Parse, Files, TakeToken, IgnoreToken, FailOnToken,
             EndRequests, EndOfEnv, EndOfRescuers, EndOfEmergencies, EndProcess,
             ReadLine, FailOnLine, IgnoreLine, TakeEnvLine, TakeRescuerLine,
             TakeEmergencyLine, NextEntry
    <2> QED BY <1>1, <2>1, <2>3, <2>4, QueuesRest
  <1>5. CASE OpenQueue
    BY <1>5, OpenQueueKeeps
  <1>6. CASE ReceiveStop \/ RejectRequest
    <2>1. TakeMessage /\ ReceiverTyped' /\ stage' \in {"receiving", "joining"}
      BY <1>1, <1>6 DEF ReceiveStop, RejectRequest, GoTo, TakeMessage, Receiving, confVars
    <2> QED BY <2>1, TakeKeeps
  <1>7. CASE CrashOnRequest
    <2>1. TakeMessage /\ ReceiverTyped' /\ stage' = "down"
      BY <1>2, <1>7 DEF CrashOnRequest
    <2> QED BY <2>1, TakeKeeps
  <1>8. CASE TakeRequest
    <2>1. /\ TakeMessage /\ stage' = "receiving"
          /\ taken' = <<Message>> /\ UNCHANGED <<accepted, waits_for>>
      BY <1>8 DEF TakeRequest, TakeMessage, Receiving, confVars
    <2>2. queues[named] \in Seq(AnyMessage) /\ queues[named] # <<>>
      BY <2>1 DEF TakeMessage, Receiving, QueueInv, QueuesTyped, QueuesCounted
    <2>3. Message \in AnyMessage
      BY <2>2 DEF Message
    <2>4. ReceiverTyped'
      BY <1>0, <2>1, <2>3 DEF ReceiverTyped
    <2> QED BY <2>1, <2>4, TakeKeeps
  <1>9. CASE AcceptRequest
    <2>1. /\ taken # <<>> /\ taken' = <<>> /\ accepted' = accepted \cup {Head(taken)}
          /\ UNCHANGED <<stage, opened, named, queues, client, waits_for>>
      BY <1>9 DEF AcceptRequest, confVars, queueVars
    <2>2. Head(taken) \in AnyMessage
      BY <1>0, <2>1 DEF ReceiverTyped
    <2>3. ReceiverTyped'
      BY <1>0, <2>1, <2>2 DEF ReceiverTyped
    <2> QED BY <2>1, <2>3, QueuesRest DEF QueueInv, QueuesCounted
  <1>10. CASE WaitForQueue \/ WaitForLog
    <2>1. /\ UNCHANGED <<stage, opened, named, queues, client, accepted, taken>>
          /\ waits_for' \in {"waiting_queue", "log"}
      BY <1>10 DEF WaitForQueue, WaitForLog, confVars, queueVars
    <2>2. ReceiverTyped'
      BY <1>0, <2>1 DEF ReceiverTyped
    <2> QED BY <2>1, <2>2, QueuesRest DEF QueueInv, QueuesCounted
  <1>11. CASE CloseQueue \/ Die
    BY <1>2, <1>11, QueuesRest DEF CloseQueue, Die, queueVars, Files
  <1> QED
    BY <1>3, <1>4, <1>5, <1>6, <1>7, <1>8, <1>9, <1>10, <1>11 DEF ServerStep, Receive

(* The client's side: all that a client becomes is sound. *)
LEMMA BecomesKeeps ==
    ASSUME QueueInv, NEW c \in Clients, NEW new \in SoundClients, Becomes(c, new)
    PROVE  QueueInv'
  <1>1. /\ client' = [client EXCEPT ![c] = new]
        /\ UNCHANGED <<opened, named, queues, receiverVars, stage>>
    BY DEF Becomes, confVars, queueVars
  <1>2. ClientsSound'
    BY <1>1 DEF QueueInv, ClientsSound, SoundClients
  <1>3. ReceiverTyped'
    BY <1>1 DEF QueueInv, ReceiverTyped, receiverVars
  <1> QED BY <1>1, <1>2, <1>3 DEF QueueInv, QueuesCounted, QueuesTyped, QueuesFresh

LEMMA NewClientSound ==
    ASSUME QueueInv
    PROVE  /\ StopMessage \in AnyMessage
           /\ NewClient \in AnyClient /\ opened \in 0 .. MaxQueues /\ opened \in Nat
  <1>1. opened \in 0 .. MaxQueues /\ opened \in Nat
    BY IntakeAssumption DEF QueueInv, QueuesCounted
  <1>2. StopMessage \in AnyMessage
    BY IntakeAssumption DEF StopMessage, AnyMessage
  <1>3. NewClient \in AnyClient
    BY <1>2, IntakeAssumption DEF NewClient, AnyClient
  <1> QED BY <1>1, <1>2, <1>3

(* A client that is not at its file or its message has no queue any more. *)
LEMMA IdleSound ==
    ASSUME QueueInv, NEW step \in {"idle", "closing", "stuck"}
    PROVE  [NewClient EXCEPT !.step = step] \in SoundClients
  <1> DEFINE old == NewClient
             new == [old EXCEPT !.step = step]
  <1>1. old \in AnyClient /\ old.queue = 0
    BY NewClientSound DEF NewClient
  <1> HIDE DEF old
  <1>2. new \in AnyClient
    BY <1>1 DEF AnyClient
  <1>3. new.queue = 0 /\ new.step = step
    BY <1>1 DEF AnyClient
  <1> HIDE DEF new
  <1>4. new \in SoundClients
    BY <1>2, <1>3, NewClientSound DEF SoundClients
  <1> QED BY <1>4 DEF old, new

LEMMA ClosingSound == ASSUME QueueInv PROVE Closing \in SoundClients
BY IdleSound DEF Closing

(* The last step of a client, or what it never gets over *)
LEMMA EndKeepsQueues ==
    ASSUME QueueInv, NEW c \in Clients, Close(c) \/ StickInLog(c) PROVE QueueInv'
  <1>1. CASE Close(c)
    <2>1. NewClient \in AnyClient /\ NewClient.queue = 0 /\ NewClient.step = "idle"
      BY NewClientSound DEF NewClient
    <2>2. NewClient \in SoundClients
      BY <2>1, NewClientSound DEF SoundClients
    <2> QED BY <1>1, <2>2, BecomesKeeps DEF Close
  <1>2. CASE StickInLog(c)
    BY <1>2, IdleSound, BecomesKeeps DEF StickInLog
  <1> QED BY <1>1, <1>2

(* What a client sends is a message. *)
LEMMA MessagesTyped ==
    ASSUME NEW r \in Requests, NEW m \in MessagesFor(r) PROVE m \in AnyMessage
  <1>1. CASE r.form = "spaced"
    BY <1>1, IntakeAssumption DEF MessagesFor, AnyMessage
  <1>2. CASE r.form = "fields"
    <2>1. PICK x \in r.x, y \in r.y :
             m = [form |-> "fields", name |-> r.name, x |-> x, y |-> y, sent_in |-> 0]
      BY <1>2 DEF MessagesFor
    <2>2. r.name \in STRING /\ x \in Int /\ y \in Int
      BY <1>2, RequestsAssumption
    <2> QED BY <2>1, <2>2, IntakeAssumption DEF AnyMessage
  <1>3. CASE r.form \notin {"spaced", "fields"}
    BY <1>3 DEF MessagesFor
  <1> QED BY <1>1, <1>2, <1>3

LEMMA LaunchKeepsQueues ==
    ASSUME QueueInv, NEW c \in Clients, Launch(c) PROVE QueueInv'
  <1>2. ASSUME named # 0, NEW mode \in {"file", "stop", "normal"},
               NEW step \in {"reading", "sending"}, NEW m \in AnyMessage
        PROVE  [Opened(mode) EXCEPT !.step = step, !.message = m] \in SoundClients
    <2>1. named = opened /\ opened \in 0 .. MaxQueues
      BY DEF QueueInv, QueuesCounted
    <2>2. Opened(mode) \in AnyClient /\ Opened(mode).queue = opened
      BY <2>1, NewClientSound DEF Opened, AnyClient
    <2>3. [Opened(mode) EXCEPT !.step = step, !.message = m] \in AnyClient
      BY <2>2 DEF AnyClient
    <2>4. /\ [Opened(mode) EXCEPT !.step = step, !.message = m].queue = opened
          /\ opened <= opened
      BY <2>2, NewClientSound DEF AnyClient
    <2> QED BY <1>2, <2>1, <2>3, <2>4 DEF SoundClients
  <1>3. CASE OpenFile(c)
    <2>1. named # 0 /\ Becomes(c, [Opened("file") EXCEPT !.step = "reading"])
      BY <1>3 DEF OpenFile, CanOpen
    <2>2. named = opened /\ opened \in 0 .. MaxQueues
      BY DEF QueueInv, QueuesCounted
    <2>3. Opened("file") \in AnyClient /\ Opened("file").queue = opened
      BY <2>2, NewClientSound DEF Opened, AnyClient
    <2> DEFINE new == [Opened("file") EXCEPT !.step = "reading"]
    <2>4. new \in AnyClient /\ new.queue = opened /\ opened <= opened
      BY <2>3, NewClientSound DEF AnyClient
    <2>5. new \in SoundClients
      BY <2>1, <2>2, <2>4 DEF SoundClients
    <2> QED BY <2>1, <2>5, BecomesKeeps
  <1>4. CASE OpenToStop(c)
    <2>1. /\ named # 0
          /\ Becomes(c, [Opened("stop") EXCEPT !.step = "sending", !.message = StopMessage])
      BY <1>4 DEF OpenToStop, CanOpen
    <2> QED BY <1>2, <2>1, NewClientSound, BecomesKeeps
  <1>5. ASSUME NEW r \in Requests, OpenAndSend(c, r) PROVE QueueInv'
    <2>1. CASE MessagesFor(r) = {}
      BY <1>5, <2>1, ClosingSound, BecomesKeeps DEF OpenAndSend
    <2>2. CASE MessagesFor(r) # {}
      <3>1. PICK m \in MessagesFor(r) :
               Becomes(c, [Opened("normal") EXCEPT !.step = "sending", !.message = m])
        BY <1>5, <2>2 DEF OpenAndSend
      <3>2. m \in AnyMessage /\ named # 0
        BY <1>5, MessagesTyped DEF OpenAndSend, CanOpen
      <3> QED BY <1>2, <3>1, <3>2, BecomesKeeps
    <2> QED BY <2>1, <2>2
  <1> QED BY <1>3, <1>4, <1>5 DEF Launch

LEMMA ReadKeepsQueues ==
    ASSUME QueueInv, NEW c \in Clients, ReadFile(c) PROVE QueueInv'
  <1>1. CASE FailOnFile(c) \/ EndOfFile(c)
    BY <1>1, ClosingSound, BecomesKeeps DEF FailOnFile, EndOfFile
  <1>2. client[c] \in SoundClients /\ client[c] \in AnyClient
    BY DEF QueueInv, ClientsSound, SoundClients
  <1>3. ASSUME CanRead(c), ~TooMuch(c), NEW newline \in BOOLEAN
        PROVE  /\ LineRead(c, newline) \in AnyClient
               /\ LineRead(c, newline).queue = client[c].queue
               /\ LineRead(c, newline).step = "reading"
               /\ client[c].queue <= opened /\ client[c].queue # 0
    <2>1. client[c].lines + 1 \in 0 .. MaxFileLines
      BY <1>2, <1>3, IntakeAssumption DEF TooMuch, AnyClient
    <2>2. client[c].step = "reading"
      BY <1>3 DEF CanRead
    <2> QED BY <1>2, <2>1, <2>2 DEF LineRead, AnyClient, SoundClients
  <1>4. ASSUME NEW r \in Requests, NEW newline \in BOOLEAN, SkipLine(c, r, newline)
        PROVE  QueueInv'
    <2> DEFINE new == LineRead(c, newline)
    <2>1. Becomes(c, new) /\ CanRead(c) /\ ~TooMuch(c)
      BY <1>4 DEF SkipLine
    <2>2. /\ new \in AnyClient /\ new.queue = client[c].queue
          /\ client[c].queue <= opened /\ client[c].queue # 0
      BY <1>3, <2>1
    <2> HIDE DEF new
    <2> QED BY <2>1, <2>2, BecomesKeeps DEF SoundClients
  <1>5. ASSUME NEW r \in Requests, NEW newline \in BOOLEAN, TakeLine(c, r, newline)
        PROVE  QueueInv'
    <2> DEFINE old == LineRead(c, newline)
    <2>1. CanRead(c) /\ ~TooMuch(c)
      BY <1>5 DEF TakeLine
    <2>2. /\ old \in AnyClient /\ old.queue = client[c].queue
          /\ client[c].queue <= opened /\ client[c].queue # 0
      BY <1>3, <2>1
    <2>3. PICK m \in MessagesFor(r) :
             Becomes(c, [old EXCEPT !.message = m, !.step = "sending"])
      BY <1>5 DEF TakeLine
    <2> HIDE DEF old
    <2> DEFINE new == [old EXCEPT !.message = m, !.step = "sending"]
    <2>4. m \in AnyMessage
      BY MessagesTyped
    <2>5. new \in AnyClient /\ new.queue = client[c].queue
      BY <2>2, <2>4 DEF AnyClient
    <2>6. Becomes(c, new)
      BY <2>3
    <2> HIDE DEF new
    <2> QED BY <2>2, <2>5, <2>6, BecomesKeeps DEF SoundClients
  <1> QED BY <1>1, <1>4, <1>5 DEF ReadFile

(* What is sent now is as old as the last queue, whichever queue it goes to. *)
LEMMA SendKeepsQueues ==
    ASSUME QueueInv, NEW c \in Clients, Send(c) PROVE QueueInv'
  <1> DEFINE q == client[c].queue
             m == [client[c].message EXCEPT !.sent_in = opened]
             new == client'[c]
  <1>1. client[c] \in AnyClient /\ q \in 1 .. MaxQueues /\ q <= opened
    <2>1. client[c] \in SoundClients /\ client[c].step = "sending"
      BY DEF QueueInv, ClientsSound, Send
    <2>2. client[c] \in AnyClient /\ q \in 0 .. MaxQueues /\ q # 0 /\ q <= opened
      BY <2>1 DEF SoundClients, AnyClient
    <2> QED BY <2>2, IntakeAssumption
  <1>2. m \in AnyMessage /\ m.sent_in = opened
    <2>1. client[c].message \in AnyMessage /\ opened \in 0 .. MaxQueues
      BY <1>1, NewClientSound DEF AnyClient
    <2>2. CASE client[c].message \in [form : {"stop", "spaced"}, sent_in : 0 .. MaxQueues]
      BY <2>1, <2>2 DEF AnyMessage
    <2>3. CASE client[c].message \in [form : {"fields"}, name : STRING, x : Int, y : Int,
                                      sent_in : 0 .. MaxQueues]
      BY <2>1, <2>3 DEF AnyMessage
    <2> QED BY <2>1, <2>2, <2>3 DEF AnyMessage
  <1>3. /\ queues' = [queues EXCEPT ![q] = Append(@, m)]
        /\ Len(queues[q]) < QueueCapacity
        /\ UNCHANGED <<opened, named, receiverVars, stage>>
    BY DEF Send, confVars
  <1>4. /\ client' = [client EXCEPT ![c] = new] /\ new \in AnyClient
        /\ new.queue \in {0, q} /\ (new.step \in {"reading", "sending"} => new.queue = q)
    <2> DEFINE k == client[c]
               counted == [k EXCEPT !.sent = @ + 1, !.step = "reading",
                                    !.message = StopMessage]
               next == IF k.mode = "file" THEN counted ELSE Closing
    <2>1. client' = [client EXCEPT ![c] = next]
      BY DEF Send
    <2>2. client \in [Clients -> SoundClients]
      BY DEF QueueInv, ClientsSound
    <2>3. counted \in AnyClient /\ counted.queue = q
      <3>1. k \in AnyClient /\ k.queue = q /\ StopMessage \in AnyMessage
        BY <1>1, NewClientSound
      <3>2. k.sent + 1 \in Nat
        BY <3>1 DEF AnyClient
      <3> HIDE DEF k, q
      <3> QED BY <3>1, <3>2 DEF AnyClient
    <2>4. Closing \in AnyClient /\ Closing.queue = 0 /\ Closing.step = "closing"
      <3>1. NewClient.queue = 0
        BY DEF NewClient
      <3> QED BY <3>1, NewClientSound DEF AnyClient, Closing
    <2> HIDE DEF counted
    <2>5. new = next
      BY <2>1, <2>2
    <2> QED BY <2>1, <2>3, <2>4, <2>5
  <1> HIDE DEF q, m, new
  <1>5. queues[q] \in Seq(AnyMessage)
    BY <1>1 DEF QueueInv, QueuesTyped
  <1>6. /\ Append(queues[q], m) \in Seq(AnyMessage)
        /\ Len(Append(queues[q], m)) <= QueueCapacity
    BY <1>2, <1>3, <1>5, IntakeAssumption
  <1>7. QueuesTyped'
    BY <1>1, <1>3, <1>6 DEF QueueInv, QueuesTyped
  <1>8. q = opened => \A i \in DOMAIN Append(queues[q], m) :
                          Append(queues[q], m)[i].sent_in = opened
    <2> SUFFICES ASSUME q = opened, NEW i \in DOMAIN Append(queues[q], m)
                 PROVE  Append(queues[q], m)[i].sent_in = opened
      OBVIOUS
    <2>1. \/ i \in DOMAIN queues[q] /\ Append(queues[q], m)[i] = queues[q][i]
          \/ Append(queues[q], m)[i] = m
      BY <1>5
    <2> QED BY <1>1, <1>2, <2>1 DEF QueueInv, QueuesFresh
  <1>9. QueuesFresh'
    <2> SUFFICES ASSUME NEW p \in 1 .. MaxQueues
                 PROVE  /\ p > opened => queues'[p] = <<>>
                        /\ p = opened => \A i \in DOMAIN queues'[p] :
                                             queues'[p][i].sent_in = opened
      BY <1>3 DEF QueuesFresh
    <2>1. CASE p = q
      <3>1. queues'[p] = Append(queues[q], m)
        BY <1>1, <1>3, <2>1 DEF QueueInv, QueuesTyped
      <3>2. ~(p > opened)
        BY <1>1, <2>1, NewClientSound
      <3> QED BY <1>8, <2>1, <3>1, <3>2
    <2>2. CASE p # q
      BY <1>1, <1>3, <2>2 DEF QueueInv, QueuesTyped, QueuesFresh
    <2> QED BY <2>1, <2>2
  <1>10. new \in SoundClients
    BY <1>1, <1>4, NewClientSound DEF SoundClients
  <1>11. ClientsSound'
    BY <1>3, <1>4, <1>10 DEF QueueInv, ClientsSound, SoundClients
  <1>12. QueuesCounted'
    BY <1>3 DEF QueueInv, QueuesCounted
  <1>13. ReceiverTyped'
    BY <1>3 DEF QueueInv, ReceiverTyped, receiverVars
  <1> QED BY <1>7, <1>9, <1>11, <1>12, <1>13 DEF QueueInv

LEMMA QueueInductive == IntakeSpec => []QueueInv
  <1>1. QueueInv /\ IntakeInv /\ [IntakeNext]_intakeVars => QueueInv'
    <2> SUFFICES ASSUME QueueInv, IntakeInv, [IntakeNext]_intakeVars PROVE QueueInv'
      OBVIOUS
    <2>1. CASE UNCHANGED intakeVars
      <3>1. UNCHANGED <<opened, named, queues, client, accepted, taken, waits_for, stage>>
        BY <2>1 DEF intakeVars, confVars, queueVars, receiverVars
      <3> QED BY <3>1 DEF QueueInv, QueuesCounted, QueuesTyped, QueuesFresh, ClientsSound,
                          SoundClients, ReceiverTyped
    <2>2. CASE IntakeNext
      BY <2>2, ServerKeepsQueues, LaunchKeepsQueues, ReadKeepsQueues, SendKeepsQueues,
         EndKeepsQueues DEF IntakeNext, ClientStep
    <2> QED BY <2>1, <2>2
  <1>2. IntakeInit => QueueInv
    BY QueueInit
  <1> QED BY <1>1, <1>2, IntakeInductive, PTL DEF IntakeSpec

(* For any files and any limits, the two tables of types stay in the       *)
(* memory allocated for them, although each takes one more than its limit  *)
(* (parse_rescuers.c, parse_emergencies.c:113).                            *)
THEOREM TablesStayInBoundsAlways == IntakeSpec => []TablesStayInBounds
  <1>1. IntakeInv => TablesStayInBounds
    BY LimitsAssumption DEF IntakeInv, ConfInv, TablesTyped, TablesCounted,
       TablesStayInBounds, EmergencySlots
  <1> QED BY <1>1, IntakeInductive, PTL

(* For any files, clients and requests, the rescuers of every accepted     *)
(* emergency exist (parse_emergencies.c:80-83 and the receiver's lookup).  *)
THEOREM AcceptedCanBeServedAlways == IntakeSpec => []AcceptedCanBeServed
  <1>1. ASSUME IntakeInv PROVE AcceptedCanBeServed
    <2> SUFFICES ASSUME NEW m \in accepted
                 PROVE  /\ Holds(emergency_types, m.name)
                        /\ CanBeMet(rescuer_types, Entry(emergency_types, m.name).rescuers)
      BY DEF AcceptedCanBeServed
    <2>1. Holds(emergency_types, m.name)
      BY <1>1 DEF IntakeInv, AcceptedFits
    <2>2. PICK k \in DOMAIN emergency_types :
             Entry(emergency_types, m.name) = emergency_types[k]
      BY <2>1 DEF Holds, Entry, Named
    <2>3. CanBeMet(rescuer_types, emergency_types[k].rescuers)
      BY <1>1 DEF IntakeInv, ConfInv, TablesFit
    <2> QED BY <2>1, <2>2, <2>3
  <1> QED BY <1>1, IntakeInductive, PTL

(* For any files, what a server reads is what its threads take for granted: *)
(* a name stands for one entry, bases are on the map, every rescuer moves,  *)
(* every request asks for somebody (parse_rescuers.c:37-60,                *)
(* parse_emergencies.c:33-100).                                            *)
THEOREM TablesAlwaysSuit == IntakeSpec => []TablesSuitTheServer
  <1>1. SuitInv => TablesSuitTheServer
    BY DEF SuitInv
  <1> QED BY <1>1, SuitInductive, PTL

(* Every variable has its type, whatever clients send and however often    *)
(* the server starts; no queue outgrows mq_maxmsg.                         *)
THEOREM IntakeIsTyped == IntakeSpec => []IntakeTypeOK
  <1>1. IntakeInv /\ QueueInv => IntakeTypeOK
    <2> SUFFICES ASSUME IntakeInv, QueueInv PROVE IntakeTypeOK
      OBVIOUS
    <2>1. client \in [Clients -> AnyClient]
      BY DEF QueueInv, ClientsSound, SoundClients
    <2> QED BY <2>1 DEF IntakeInv, ConfInv, TablesTyped, Stages, EmergencyTypes, QueueInv,
                        QueuesCounted, QueuesTyped, ReceiverTyped, IntakeTypeOK,
                        EmergencyType
  <1> QED BY <1>1, IntakeInductive, QueueInductive, PTL

(* A server takes only what was sent since it opened its queue, for any    *)
(* number of restarts: the queue is new and the name stands for it         *)
(* (emergency_requests_reciever.c, server.c).                              *)
THEOREM OnlyFreshRequests == IntakeSpec => FreshRequestsOnly
  <1> DEFINE Fresh == \A q \in 1 .. MaxQueues :
                  Len(queues'[q]) < Len(queues[q]) => Head(queues[q]).sent_in = opened
  <1>1. QueueInv /\ [IntakeNext]_intakeVars => [Fresh]_intakeVars
    <2> SUFFICES ASSUME QueueInv, IntakeNext, NEW q \in 1 .. MaxQueues,
                        Len(queues'[q]) < Len(queues[q])
                 PROVE  Head(queues[q]).sent_in = opened
      OBVIOUS
    <2>1. queues[q] \in Seq(AnyMessage) /\ Len(queues[q]) \in Nat
      BY DEF QueueInv, QueuesTyped
    <2>2. queues' # queues
      BY <2>1
    <2>3. CASE TakeMessage
      <3>1. /\ queues[opened] # <<>> /\ named = opened /\ opened \in 1 .. MaxQueues
            /\ queues' = [queues EXCEPT ![opened] = Tail(@)]
        BY <2>3 DEF TakeMessage, QueueInv, QueuesCounted
      <3>2. q = opened
        BY <2>1, <3>1 DEF QueueInv, QueuesTyped
      <3>3. Head(queues[q]) = queues[q][1] /\ 1 \in DOMAIN queues[q]
        BY <2>1, <3>1, <3>2
      <3> QED BY <3>2, <3>3 DEF QueueInv, QueuesFresh
    <2>4. ASSUME NEW c \in Clients, Send(c) PROVE FALSE
      <3> DEFINE p == client[c].queue
                 m == [client[c].message EXCEPT !.sent_in = opened]
      <3>1. queues' = [queues EXCEPT ![p] = Append(@, m)]
        BY <2>4 DEF Send
      <3> HIDE DEF p, m
      <3>2. Len(Append(queues[q], m)) = Len(queues[q]) + 1
        BY <2>1
      <3>3. queues'[q] \in {queues[q], Append(queues[q], m)}
        BY <3>1 DEF QueueInv, QueuesTyped
      <3> QED BY <2>1, <3>2, <3>3
    <2>5. \/ TakeMessage \/ (\E c \in Clients : Send(c)) \/ queues' = queues
      BY DEF IntakeNext, ServerStep, StartServer, ParseFiles, OpenQueue, NewQueue, Receive,
             ReceiveStop, RejectRequest, TakeRequest, AcceptRequest, CrashOnRequest,
             CloseQueue, Die, WaitForQueue, WaitForLog, ClientStep, Launch, ReadFile,
             OpenFile, OpenToStop, OpenAndSend, FailOnFile, EndOfFile, SkipLine, TakeLine,
             Close, StickInLog, Becomes, queueVars
    <2> QED BY <2>2, <2>3, <2>4, <2>5
  <1> QED BY <1>1, QueueInductive, PTL DEF IntakeSpec, FreshRequestsOnly

=============================================================================
