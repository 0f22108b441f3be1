----------------------------- MODULE Configuration -----------------------------
(***************************************************************************)
(* src/parsers: how a starting server reads conf/env.conf, then            *)
(* conf/rescuers.conf, then conf/emergency_types.conf, one line at a time, *)
(* and a line of the last one request for rescuers at a time.              *)
(*                                                                         *)
(* A line is a record whose "form" says what it looks like: "blank",       *)
(* "long" for one over the limit, "garbled" for one no syntax matches, or  *)
(* the syntax it matches; no syntax matches an empty name.  A fatal error  *)
(* ends the process.                                                       *)
(***************************************************************************)
EXTENDS Integers, SequencesExt

CONSTANTS
    EnvLines, RescuerLines, EmergencyLines,     \* what the files may hold
    QueueName,              \* EMERGENCY_QUEUE_NAME
    MaxEnvLines, MaxRescuerLines, MaxEmergencyLines,    \* MAX_..._CONF_LINES
    MaxRescuerTypes,        \* MAX_RESCUER_TYPES_COUNT
    MaxEmergencyTypes,      \* MAX_EMERGENCY_TYPES_COUNT
    MaxRequests,            \* MAX_RESCUER_REQ_NUMBER_PER_EMERGENCY
    RescuerSlots,           \* MAX_FILE_LINES + 1, the length of the array
    MaxCoordinate,          \* MAX_X_..., MAX_Y_COORDINATE_ABSOLUTE_VALUE
    MaxAmount, MaxSpeed,    \* of a rescuer type
    MaxCount, MaxTime,      \* of a request for rescuers
    MaxPriority,            \* MAX_EMERGENCY_PRIORITY
    RunsOff                 \* what a lookup past the end of an array may do

(* What sscanf reads from a line that matches a syntax *)
RescuerFields == [name : STRING, amount : Int, speed : Int, x : Int, y : Int]
RequestFields == [name : STRING, count : Int, time : Int]
Tokens == [form : {"garbled"}] \cup [form : {"fields"}, request : RequestFields]

ASSUME LinesAssumption ==
    /\ \A line \in EnvLines : line.form \in {"height", "width"} => line.value \in Int
    /\ \A line \in RescuerLines : line.form = "fields" => line.rescuer \in RescuerFields
    /\ \A line \in EmergencyLines : line.form = "fields" =>
          /\ line.name \in STRING /\ line.priority \in Int
          /\ line.requests \in Seq(Tokens)

ASSUME LimitsAssumption ==
    /\ MaxRescuerTypes \in Nat /\ MaxEmergencyTypes \in Nat /\ MaxRequests \in Nat
    /\ MaxEnvLines \in Nat /\ MaxRescuerLines \in Nat /\ MaxEmergencyLines \in Nat
    /\ MaxCoordinate \in Nat /\ MaxAmount \in Nat /\ MaxSpeed \in Nat
    /\ MaxCount \in Nat /\ MaxTime \in Nat /\ MaxPriority \in Nat
    /\ RescuerSlots \in Nat
    /\ RescuerSlots > MaxRescuerTypes + 1
    /\ RunsOff \subseteq {"misses", "crashes"} /\ RunsOff # {}

(* calloc of MAX_EMERGENCY_TYPES_COUNT + 1 pointers, the last one for NULL; *)
(* the requests of a type get no slot for it.                              *)
EmergencySlots == MaxEmergencyTypes + 1
RequestSlots   == MaxRequests

VARIABLES
    stage,                  \* the file being read, "request", or what follows
    line_number, parsed_so_far,     \* parsing_state_t
    env,                    \* environment_fields_t
    rescuer_types,          \* what conf/rescuers.conf has given so far
    emergency_types,        \* what conf/emergency_types.conf has given so far
    fields, tokens, requests        \* of the emergency type being read

stateVars == <<line_number, parsed_so_far>>
typeVars  == <<fields, tokens, requests>>
confVars  == <<stage, stateVars, env, rescuer_types, emergency_types, typeVars>>

Files == {"env", "rescuers", "emergencies"}

NoFields == [name |-> "none", priority |-> 0]

NoEnv == [queue |-> "none", height |-> 0, width |-> 0]

(* No process: nothing of what it read is left. *)
ConfInit ==
    /\ stage = "down"
    /\ line_number = 0 /\ parsed_so_far = 0
    /\ env = NoEnv
    /\ rescuer_types = <<>> /\ emergency_types = <<>>
    /\ fields = NoFields /\ tokens = <<>> /\ requests = <<>>

--------------------------------------------------------------------------------
(* The tables and the lookups by name. *)

Named(table, name) == {i \in DOMAIN table : table[i].name = name}

Holds(table, name) == Named(table, name) # {}

Entry(table, name) == table[CHOOSE i \in Named(table, name) : TRUE]

(* A lookup that misses stops at the NULL after the last entry: when the   *)
(* entries fill the array it goes on past its end.                         *)
Overruns(table, slots, name) == Len(table) >= slots /\ ~Holds(table, name)

Abs(n) == IF n < 0 THEN -n ELSE n

--------------------------------------------------------------------------------
(* One line of a file. *)

MaxLines == CASE stage = "env" -> MaxEnvLines
              [] stage = "rescuers" -> MaxRescuerLines
              [] stage = "emergencies" -> MaxEmergencyLines

EnvTurns == <<"queue", "height", "width">>

MaxParsed == CASE stage = "env" -> Len(EnvTurns)
               [] stage = "rescuers" -> MaxRescuerTypes
               [] stage = "emergencies" -> MaxEmergencyTypes

(* MUTANT of CantBeProcessed: the limit is off by one more *)
CantBeProcessedLater(line) ==
    \/ line_number + 1 > MaxLines
    \/ parsed_so_far > MaxParsed + 1
    \/ line.form = "long"

(* log_and_fail_if_file_line_cant_be_processed.  A file that has given all *)
(* it may can give one more; not even a blank line may follow that one.    *)
CantBeProcessed(line) ==
    \/ line_number + 1 > MaxLines
    \/ parsed_so_far > MaxParsed
    \/ line.form = "long"

EnvWith(line) == [env EXCEPT ![line.form] = line.value]

(* environment_values_are_illegal, asked after each line *)
EnvironmentIsIllegal(e) ==
    \/ e.queue # QueueName
    \/ Abs(e.height) > MaxCoordinate
    \/ Abs(e.width) > MaxCoordinate

EnvLineIsRight(line) ==
    /\ parsed_so_far < Len(EnvTurns)
    /\ line.form = EnvTurns[parsed_so_far + 1]
    /\ ~EnvironmentIsIllegal(EnvWith(line))

(* rescuer_type_values_are_illegal; the size of the map may be negative *)
RescuerLineIsRight(line) ==
    LET r == line.rescuer
    IN  /\ line.form = "fields"
        /\ r.amount \in 1 .. MaxAmount /\ r.speed \in 1 .. MaxSpeed
        /\ r.x \in 0 .. env.width /\ r.y \in 0 .. env.height

(* sscanf of the name, the priority and the string of requests, then       *)
(* emergency_values_are_illegal                                            *)
EmergencyLineIsRight(line) ==
    /\ line.form = "fields"
    /\ line.priority \in 0 .. MaxPriority

IsRight(line) ==
    CASE stage = "env" -> EnvLineIsRight(line)
      [] stage = "rescuers" -> RescuerLineIsRight(line)
      [] stage = "emergencies" -> EmergencyLineIsRight(line)

IsFatal(line) ==
    CantBeProcessed(line) \/ (line.form # "blank" /\ ~IsRight(line))

(* MUTANT of IsIgnored: an emergency type is looked up among the rescuers' *)
IgnoresTypesOfRescuers(line) ==
    \/ line.form = "blank"
    \/ /\ line.form = "fields"
       /\ \/ stage = "rescuers" /\ Holds(rescuer_types, line.rescuer.name)
          \/ stage = "emergencies" /\ Holds(rescuer_types, line.name)

(* Blank lines, and names that were there before *)
IsIgnored(line) ==
    \/ line.form = "blank"
    \/ /\ line.form = "fields"
       /\ \/ stage = "rescuers" /\ Holds(rescuer_types, line.rescuer.name)
          \/ stage = "emergencies" /\ Holds(emergency_types, line.name)

(* log_fatal_error and the other ways the process ends early *)
EndProcess ==
    /\ stage' = "down"
    /\ line_number' = 0 /\ parsed_so_far' = 0
    /\ env' = NoEnv
    /\ rescuer_types' = <<>> /\ emergency_types' = <<>>
    /\ fields' = NoFields /\ tokens' = <<>> /\ requests' = <<>>

FailOnLine(line) ==
    /\ stage \in Files
    /\ IsFatal(line)
    /\ EndProcess

IgnoreLine(line) ==
    /\ stage \in Files
    /\ ~IsFatal(line) /\ IsIgnored(line)
    /\ line_number' = line_number + 1
    /\ UNCHANGED <<stage, parsed_so_far, env, rescuer_types, emergency_types,
                   typeVars>>

NextEntry ==
    /\ line_number' = line_number + 1
    /\ parsed_so_far' = parsed_so_far + 1

(* check_and_extract_env_line_field *)
TakeEnvLine(line) ==
    /\ stage = "env"
    /\ ~IsFatal(line) /\ ~IsIgnored(line)
    /\ env' = EnvWith(line)
    /\ NextEntry
    /\ UNCHANGED <<stage, rescuer_types, emergency_types, typeVars>>

(* mallocate_and_populate_rescuer_type *)
TakeRescuerLine(line) ==
    /\ stage = "rescuers"
    /\ ~IsFatal(line) /\ ~IsIgnored(line)
    /\ rescuer_types' = Append(rescuer_types, line.rescuer)
    /\ NextEntry
    /\ UNCHANGED <<stage, env, emergency_types, typeVars>>

(* The line of a new emergency type, up to its requests for rescuers *)
TakeEmergencyLine(line) ==
    /\ stage = "emergencies"
    /\ ~IsFatal(line) /\ ~IsIgnored(line)
    /\ fields' = [name |-> line.name, priority |-> line.priority]
    /\ tokens' = line.requests /\ requests' = <<>>
    /\ line_number' = line_number + 1
    /\ stage' = "request"
    /\ UNCHANGED <<parsed_so_far, env, rescuer_types, emergency_types>>

--------------------------------------------------------------------------------
(* check_and_extract_rescuer_requests_from_string, one token at a time *)

(* check_and_extract_rescuer_request_fields_from_token: `requests` may     *)
(* have grown one past the limit before the limit is noticed.              *)
TokenIsRight(t) ==
    /\ Len(requests) <= MaxRequests
    /\ t.form = "fields"
    /\ t.request.count \in 1 .. MaxCount /\ t.request.time \in 1 .. MaxTime

(* MUTANT of IsAvailable: the amount is not looked at *)
IsKnown(r) == Holds(rescuer_types, r.name)

(* check_if_rescuer_requested_is_available *)
IsAvailable(r) ==
    Holds(rescuer_types, r.name) /\ r.count <= Entry(rescuer_types, r.name).amount

(* check_and_log_if_rescuer_request_already_parsed *)
IsRepeated(r) == Holds(requests, r.name)

TakeToken ==
    LET t == Head(tokens)
    IN  /\ stage = "request" /\ tokens # <<>>
        /\ TokenIsRight(t) /\ ~IsRepeated(t.request) /\ IsAvailable(t.request)
        /\ requests' = Append(requests, t.request)
        /\ tokens' = Tail(tokens)
        /\ UNCHANGED <<stage, stateVars, env, rescuer_types, emergency_types, fields>>

IgnoreToken ==
    LET t == Head(tokens)
    IN  /\ stage = "request" /\ tokens # <<>>
        /\ TokenIsRight(t) /\ IsRepeated(t.request)
        /\ tokens' = Tail(tokens)
        /\ UNCHANGED <<stage, stateVars, env, rescuer_types, emergency_types, fields,
                       requests>>

FailOnToken ==
    LET t == Head(tokens)
    IN  /\ stage = "request" /\ tokens # <<>>
        /\ \/ ~TokenIsRight(t)
           \/ TokenIsRight(t) /\ ~IsRepeated(t.request) /\ ~IsAvailable(t.request)
           \/ /\ TokenIsRight(t) /\ "crashes" \in RunsOff
              /\ Overruns(requests, RequestSlots, t.request.name)
        /\ EndProcess

(* mallocate_and_populate_emergency_type, into the table *)
EndRequests ==
    /\ stage = "request" /\ tokens = <<>>
    /\ emergency_types' = Append(emergency_types,
          [name |-> fields.name, priority |-> fields.priority, rescuers |-> requests])
    /\ parsed_so_far' = parsed_so_far + 1
    /\ requests' = <<>> /\ fields' = NoFields
    /\ stage' = "emergencies"
    /\ UNCHANGED <<line_number, env, rescuer_types, tokens>>

--------------------------------------------------------------------------------

(* mallocate_parsing_state *)
NewFile == line_number' = 0 /\ parsed_so_far' = 0

StartProcess ==
    /\ stage = "down"
    /\ stage' = "env"
    /\ NewFile
    /\ UNCHANGED <<env, rescuer_types, emergency_types, typeVars>>

EndOfEnv ==
    /\ stage = "env"
    /\ IF parsed_so_far # Len(EnvTurns)
       THEN EndProcess
       ELSE /\ stage' = "rescuers"
            /\ NewFile
            /\ UNCHANGED <<env, rescuer_types, emergency_types, typeVars>>

EndOfRescuers ==
    /\ stage = "rescuers"
    /\ stage' = "emergencies"
    /\ NewFile
    /\ UNCHANGED <<env, rescuer_types, emergency_types, typeVars>>

EndOfEmergencies ==
    /\ stage = "emergencies"
    /\ stage' = "parsed"
    /\ NewFile
    /\ UNCHANGED <<env, rescuer_types, emergency_types, typeVars>>

ReadLine(line) == FailOnLine(line) \/ IgnoreLine(line)

(* mallocate_server_context, as far as the files go *)
Parse ==
    \/ \E line \in EnvLines : stage = "env" /\ (ReadLine(line) \/ TakeEnvLine(line))
    \/ \E line \in RescuerLines :
          stage = "rescuers" /\ (ReadLine(line) \/ TakeRescuerLine(line))
    \/ \E line \in EmergencyLines :
          stage = "emergencies" /\ (ReadLine(line) \/ TakeEmergencyLine(line))
    \/ TakeToken \/ IgnoreToken \/ FailOnToken \/ EndRequests
    \/ EndOfEnv \/ EndOfRescuers \/ EndOfEmergencies

=============================================================================
