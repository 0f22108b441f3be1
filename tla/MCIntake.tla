-------------------------------- MODULE MCIntake --------------------------------
(* Instances of Intake for TLC: in each file a line of each kind, and one   *)
(* typo; one request and one typo.                                         *)
EXTENDS Intake, TLC

CONSTANTS c1, c2

MCClients     == {c1, c2}
MCFileClients == {c1}

Blank   == [form |-> "blank"]
Garbled == [form |-> "garbled"]

MCEnvLines ==
    {[form |-> "queue", value |-> "emergenze"],
     [form |-> "height", value |-> 2], [form |-> "height", value |-> 9],
     [form |-> "width", value |-> 2]}

Rescuer(name, amount, x) ==
    [form |-> "fields",
     rescuer |-> [name |-> name, amount |-> amount, speed |-> 1, x |-> x, y |-> 0]]

MCRescuerLines ==
    {Blank, Rescuer("Pompieri", 1, 0), Rescuer("Ambulanza", 1, 2), Rescuer("Polizia", 1, 3)}

Ask(name, count) ==
    [form |-> "fields", request |-> [name |-> name, count |-> count, time |-> 1]]

Emergency(name, priority, asked) ==
    [form |-> "fields", name |-> name, priority |-> priority, requests |-> asked]

MCEmergencyLines ==
    {Garbled,
     Emergency("Incendio", 2, <<Ask("Pompieri", 2)>>),
     Emergency("Incendio", 1, <<Ask("Pompieri", 1), Ask("Pompieri", 1)>>),
     Emergency("Furto", 0, <<Ask("Pompieri", 1)>>),
     Emergency("Rapina", 0, <<Ask("Pompieri", 1)>>)}

Request(name, x) == [form |-> "fields", name |-> name, x |-> x, y |-> {0}]

(* A type that asks for one kind of rescuer more than the limit *)
MCOneKindMore ==
    {Emergency("Incendio", 1, <<Ask("Pompieri", 1), Ask("Ambulanza", 1)>>)}

MCRequests == {[form |-> "NaN"], Request("Incendio", {-1})}

=============================================================================
