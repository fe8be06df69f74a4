---------------------------------- MODULE Accounts ----------------------------------
(***************************************************************************)
(* Who may ask for a ride or offer one: accounts, verifications, vehicles, *)
(* and the idempotent creation of trip demands and driver sessions.  A     *)
(* call is authenticated and then goes through the steps of its service,   *)
(* each write a transaction of its own; calls interleave, any step may     *)
(* fail, and a crash loses all the calls in flight.  Reads that follow one *)
(* another are one step where only rows that never go decide: the checks   *)
(* of Start, the record of a key with what it leads to, and the onboarding *)
(* answer with its account.                                                *)
(***************************************************************************)
EXTENDS Naturals

CONSTANTS
  Subjects, UserIds, VehicleIds, ResourceIds, Keys, Plates, Genders,
  Calls,                                \* requests the server works on at once
  Inputs,                               \* what clients send
  DemoUser, DemoSubject, DemoVehicle, DemoPlate,  \* what SeedDemoData writes
  None                                  \* no row, no key, no plate, nobody

CreateKinds == {"demand", "session"}

\* The JSON bodies, reduced to what the services look at.
Bodies(kind) ==
  CASE kind = "profile"   -> [valid : BOOLEAN]
    [] kind = "bootstrap" -> [gender : Genders, plate : Plates \cup {None}, capacity : Nat]
    [] kind = "vehicle"   -> [plate : Plates, capacity : Nat]
    [] kind = "demand"    -> [women : BOOLEAN]
    [] kind = "session"   -> [vehicle : VehicleIds]
    [] kind = "me"        -> {None}

Kinds == {"profile", "bootstrap", "vehicle", "me"} \cup CreateKinds

IsInput(i) ==
  /\ i.kind \in Kinds /\ i.subject \in Subjects /\ i.key \in Keys \cup {None}
  /\ i.body \in Bodies(i.kind)

ASSUME AccountsAssumption ==
  /\ \A i \in Inputs : IsInput(i)
  /\ None \notin Subjects \cup UserIds \cup VehicleIds \cup ResourceIds \cup Keys \cup Plates \cup Genders
  /\ DemoUser \in UserIds /\ DemoSubject \in Subjects /\ DemoVehicle \in VehicleIds /\ DemoPlate \in Plates
  /\ "female" \in Genders
  /\ \A i \in Inputs, u \in UserIds : [kind |-> i.kind, user |-> u, key |-> i.key, body |-> i.body] # None
  /\ \A i \in Inputs, u \in UserIds, r \in ResourceIds :
       [resource |-> r, payload |-> [kind |-> i.kind, user |-> u, key |-> i.key, body |-> i.body]] # None
  /\ [owner |-> DemoUser, plate |-> DemoPlate, capacity |-> 3] # None

VARIABLES
  up,         \* the server takes requests
  users,      \* users: the auth_subject of each row
  verified,   \* identity_verifications: the verified_gender of each row
  vehicles,   \* vehicles
  resources,  \* trip_demands and driver_sessions, with the input they were made from
  keys,       \* idempotency_keys
  call,       \* the requests
  women       \* history: the users who have been verified as women

tables == <<users, verified, vehicles, resources, keys>>
vars == <<up, tables, call, women>>

Idle == [at |-> "idle"]

\* domain.Vehicle and the payload the services hash: the input with the caller's
\* user id and the key.
Vehicle(owner, plate, capacity) == [owner |-> owner, plate |-> plate, capacity |-> capacity]

Payload(c) == [kind |-> call[c].input.kind, user |-> call[c].user, key |-> call[c].input.key, body |-> call[c].input.body]

\* The payload as the row of the demand or the session holds it.
Resource(c) == [kind |-> call[c].input.kind, user |-> call[c].user, key |-> call[c].input.key, body |-> call[c].input.body]

\* FindByAuthSubject: the only row of the subject, or nobody.
Accounts(subject) == {u \in UserIds : users[u] = subject}

\* Rows that idg.New may name: it never returns an id twice, and the demo ids never.
NewIds(table) == {id \in DOMAIN table : table[id] = None} \ {DemoUser, DemoVehicle}

\* ListByUserID.
VehiclesOf(u) == {v \in VehicleIds : vehicles[v] # None /\ vehicles[v].owner = u}

\* DriverEligible: verified, with a vehicle in use; no vehicle is ever put out of use.
DriverEligible(u) == verified[u] # None /\ \E v \in VehiclesOf(u) : vehicles[v].capacity > 0

\* Mutant: an account is enough.
HasAccount(u) == users[u] # None

RiderEligible(u) == verified[u] # None

Init ==
  /\ up = FALSE
  /\ users = [u \in UserIds |-> None] /\ verified = [u \in UserIds |-> None]
  /\ vehicles = [v \in VehicleIds |-> None] /\ resources = [r \in ResourceIds |-> None]
  /\ keys = [k \in Keys |-> None]
  /\ call = [c \in Calls |-> Idle]
  /\ women = {}

-----------------------------------------------------------------------------
(* The process *)

\* SEED_DEMO_DATA: the statements of SeedDemoData, the first n of which succeed;
\* the server exits on an error, as when the subject signed up on its own.
SeedDemoData(n) ==
  /\ Accounts(DemoSubject) \subseteq {DemoUser}
  /\ users' = [users EXCEPT ![DemoUser] = DemoSubject]
  /\ verified' = IF n > 1 THEN [verified EXCEPT ![DemoUser] = "female"] ELSE verified
  /\ vehicles' = IF n > 2 THEN [vehicles EXCEPT ![DemoVehicle] = Vehicle(DemoUser, DemoPlate, 3)] ELSE vehicles
  /\ up' = (n = 3)
  /\ UNCHANGED <<resources, keys, call>>

BootAndSeed == ~up /\ \E n \in 1..3 : SeedDemoData(n)

Boot == ~up /\ up' = TRUE /\ UNCHANGED <<tables, call>>

Crash ==
  /\ up /\ up' = FALSE
  /\ call' = [c \in Calls |-> Idle]
  /\ UNCHANGED tables

-----------------------------------------------------------------------------
(* Requests *)

Goto(c, step) == call' = [call EXCEPT ![c].at = step]
At(c, step) == up /\ call[c].at = step

\* The first statement of each service.
Entry(i) ==
  CASE i.kind \in {"profile", "bootstrap"}             -> "findUser"
    [] i.kind = "vehicle"                              -> "saveVehicle"
    [] i.kind \in CreateKinds /\ i.key # None          -> "lookup"
    [] i.kind \in CreateKinds /\ i.key = None          -> "check"
    [] i.kind = "me"                                   -> "read"

\* The user the middleware resolves; a subject without one is let through.
Resolved(subject) == IF Accounts(subject) = {} THEN {None} ELSE Accounts(subject)

\* authMiddleware resolves the subject; requireUserID turns away who has no
\* account, where the handler needs one, and Validate bad preferences.
Arrive(c, i) == \E u \in Resolved(i.subject) :
  /\ up /\ call[c].at \in {"idle", "done"}
  /\ i.kind \in CreateKinds \cup {"vehicle"} => u # None
  /\ i.kind = "profile" => i.body.valid
  /\ call' = [call EXCEPT ![c] =
       [at |-> Entry(i), input |-> i, user |-> u, answer |-> None,
        repeat |-> i.key # None /\ keys[i.key] # None, blind |-> FALSE]]
  /\ UNCHANGED <<up, tables>>

\* Any refusal and any error of a store, the routing provider or the matching
\* ends the request; what it has saved stays.
Fail(c) ==
  /\ up /\ call[c].at \notin {"idle", "done"}
  /\ call' = [call EXCEPT ![c] = Idle]
  /\ UNCHANGED <<up, tables>>

\* UpsertAuthenticated and Bootstrap look the subject up again.
FindUser(c) ==
  /\ At(c, "findUser")
  /\ \E u \in Resolved(call[c].input.subject) :
       call' = [call EXCEPT ![c].at = "saveUser", ![c].user = u]
  /\ UNCHANGED <<up, tables>>

AfterUser(c) == IF call[c].input.kind = "bootstrap" THEN "saveVerification" ELSE "done"

\* Mutant: auth_subject is not unique.
SaveUserAnyway(c) ==
  /\ At(c, "saveUser")
  /\ \E u \in (IF call[c].user = None THEN NewIds(users) ELSE {call[c].user}) :
       /\ users' = [users EXCEPT ![u] = call[c].input.subject]
       /\ call' = [call EXCEPT ![c].at = AfterUser(c), ![c].user = u]
  /\ UNCHANGED <<up, verified, vehicles, resources, keys>>

\* Users.Save under UNIQUE (auth_subject).
SaveUser(c) ==
  /\ At(c, "saveUser")
  /\ \E u \in (IF call[c].user = None THEN NewIds(users) ELSE {call[c].user}) :
       /\ Accounts(call[c].input.subject) \subseteq {u}
       /\ users' = [users EXCEPT ![u] = call[c].input.subject]
       /\ call' = [call EXCEPT ![c].at = AfterUser(c), ![c].user = u]
  /\ UNCHANGED <<up, verified, vehicles, resources, keys>>

SaveVerification(c) ==
  /\ At(c, "saveVerification")
  /\ users[call[c].user] # None
  /\ verified' = [verified EXCEPT ![call[c].user] = call[c].input.body.gender]
  /\ Goto(c, IF call[c].input.body.plate = None THEN "done" ELSE "findPlate")
  /\ UNCHANGED <<up, users, vehicles, resources, keys>>

FindPlate(c) ==
  /\ At(c, "findPlate")
  /\ Goto(c, IF \E v \in VehiclesOf(call[c].user) : vehicles[v].plate = call[c].input.body.plate
             THEN "done" ELSE "saveVehicle")
  /\ UNCHANGED <<up, tables>>

\* Mutant: the capacity is not checked.
SaveVehicleUnchecked(c) ==
  /\ At(c, "saveVehicle")
  /\ users[call[c].user] # None
  /\ \E v \in NewIds(vehicles) :
       vehicles' = [vehicles EXCEPT ![v] =
         Vehicle(call[c].user, call[c].input.body.plate, call[c].input.body.capacity)]
  /\ Goto(c, "done")
  /\ UNCHANGED <<up, users, verified, resources, keys>>

\* Vehicles.Save, under CHECK (capacity > 0) and the reference to users.
SaveVehicle(c) ==
  /\ At(c, "saveVehicle")
  /\ users[call[c].user] # None /\ call[c].input.body.capacity > 0
  /\ \E v \in NewIds(vehicles) :
       vehicles' = [vehicles EXCEPT ![v] =
         Vehicle(call[c].user, call[c].input.body.plate, call[c].input.body.capacity)]
  /\ Goto(c, "done")
  /\ UNCHANGED <<up, users, verified, resources, keys>>

\* Mutant: a key recorded for another payload is taken for a miss.
LookupMissesOther(c) ==
  /\ At(c, "lookup")
  /\ ~(keys[call[c].input.key] # None /\ keys[call[c].input.key].payload = Payload(c))
  /\ Goto(c, "check")
  /\ UNCHANGED <<up, tables>>

\* Create and Start, FindResult: nothing recorded, the same payload, or an error,
\* which they take for nothing recorded; another payload is a conflict.
LookupMisses(c) ==
  /\ At(c, "lookup")
  /\ keys[call[c].input.key] = None
  /\ Goto(c, "check")
  /\ UNCHANGED <<up, tables>>

\* Mutant: the key is enough, whatever payload it was recorded for.
LookupReplaysAny(c) == LET found == keys[call[c].input.key] IN
  /\ At(c, "lookup")
  /\ found # None
  /\ resources[found.resource] # None /\ resources[found.resource].kind = call[c].input.kind
  /\ call' = [call EXCEPT ![c].at = "done", ![c].answer = found.resource]
  /\ UNCHANGED <<up, tables>>

LookupReplays(c) == LET found == keys[call[c].input.key] IN
  /\ At(c, "lookup")
  /\ found # None /\ found.payload = Payload(c)
  /\ resources[found.resource] # None /\ resources[found.resource].kind = call[c].input.kind
  /\ call' = [call EXCEPT ![c].at = "done", ![c].answer = found.resource]
  /\ UNCHANGED <<up, tables>>

LookupErrs(c) ==
  /\ At(c, "lookup")
  /\ call' = [call EXCEPT ![c].at = "check", ![c].blind = TRUE]
  /\ UNCHANGED <<up, tables>>

\* Mutant: anybody may ask for women only.
CheckRiderOnly(c) ==
  /\ At(c, "check") /\ call[c].input.kind = "demand"
  /\ RiderEligible(call[c].user)
  /\ Goto(c, "saveResource")
  /\ UNCHANGED <<up, tables>>

CheckRider(c) ==
  /\ At(c, "check") /\ call[c].input.kind = "demand"
  /\ RiderEligible(call[c].user)
  /\ call[c].input.body.women => verified[call[c].user] = "female"
  /\ Goto(c, "saveResource")
  /\ UNCHANGED <<up, tables>>

\* Start asks that the driver has some vehicle, and that the one named exists.
CheckDriver(c) ==
  /\ At(c, "check") /\ call[c].input.kind = "session"
  /\ DriverEligible(call[c].user)
  /\ vehicles[call[c].input.body.vehicle] # None
  /\ Goto(c, "saveResource")
  /\ UNCHANGED <<up, tables>>

\* TripDemands.Save or DriverSessions.Save of a new row.
SaveResource(c) ==
  /\ At(c, "saveResource")
  /\ users[call[c].user] # None
  /\ \E r \in NewIds(resources) :
       /\ resources' = [resources EXCEPT ![r] = Resource(c)]
       /\ call' = [call EXCEPT ![c].at = IF call[c].input.key = None THEN "finish" ELSE "saveKey",
                               ![c].answer = r]
  /\ UNCHANGED <<up, users, verified, vehicles, keys>>

\* Idempotency.SaveResult overwrites what another request has recorded.
SaveKey(c) ==
  /\ At(c, "saveKey")
  /\ keys' = [keys EXCEPT ![call[c].input.key] = [resource |-> call[c].answer, payload |-> Payload(c)]]
  /\ Goto(c, "finish")
  /\ UNCHANGED <<up, users, verified, vehicles, resources>>

\* runMatch, or the copy for Redis, and the answer.
Finish(c) ==
  /\ At(c, "finish")
  /\ Goto(c, "done")
  /\ UNCHANGED <<up, tables>>

\* Mutant: who has no verification yet is told to go ahead.
OnboardingReady(u) == "ready"

\* The onboarding state: no row of the code's own is pending or rejected.
Onboarding(u) ==
  IF u = None THEN "needs_profile"
  ELSE IF verified[u] = None THEN "needs_verification" ELSE "ready"

\* handleAuthMe looks the user up again when the middleware found one.
ReadMe(c) ==
  /\ At(c, "read")
  /\ \E u \in (IF call[c].user = None THEN {None} ELSE Accounts(call[c].input.subject)) :
       call' = [call EXCEPT ![c].at = "done", ![c].answer = Onboarding(u)]
  /\ UNCHANGED <<up, tables>>

Serve(c) ==
  \/ \E i \in Inputs : Arrive(c, i)
  \/ Fail(c) \/ FindUser(c) \/ SaveUser(c) \/ SaveVerification(c) \/ FindPlate(c) \/ SaveVehicle(c)
  \/ LookupMisses(c) \/ LookupReplays(c) \/ LookupErrs(c)
  \/ CheckRider(c) \/ CheckDriver(c) \/ SaveResource(c) \/ SaveKey(c) \/ Finish(c) \/ ReadMe(c)

Step == Boot \/ BootAndSeed \/ Crash \/ \E c \in Calls : Serve(c)

Next == Step /\ women' = women \cup {u \in UserIds : verified'[u] = "female"}

Spec == Init /\ [][Next]_vars

-----------------------------------------------------------------------------
(* Properties *)

VehicleRow == [owner : UserIds, plate : Plates, capacity : Nat \ {0}]

IsResource(r) == r.kind \in CreateKinds /\ r.user \in UserIds /\ r.key \in Keys \cup {None} /\ r.body \in Bodies(r.kind)

IsRecord(r) == r.resource \in ResourceIds /\ r.payload.kind \in CreateKinds

Steps == {"findUser", "saveUser", "saveVerification", "findPlate", "saveVehicle", "lookup", "check",
          "saveResource", "saveKey", "finish", "read", "done"}

IsCall(c) ==
  \/ c = Idle
  \/ /\ c.at \in Steps /\ c.input \in Inputs /\ c.user \in UserIds \cup {None}
     /\ c.repeat \in BOOLEAN /\ c.blind \in BOOLEAN

\* Every table holds rows of its kind, a vehicle at least one seat.
TypeOK ==
  /\ up \in BOOLEAN
  /\ users \in [UserIds -> Subjects \cup {None}]
  /\ verified \in [UserIds -> Genders \cup {None}]
  /\ vehicles \in [VehicleIds -> VehicleRow \cup {None}]
  /\ DOMAIN resources = ResourceIds /\ DOMAIN keys = Keys /\ DOMAIN call = Calls
  /\ \A r \in ResourceIds : resources[r] = None \/ IsResource(resources[r])
  /\ \A k \in Keys : keys[k] = None \/ IsRecord(keys[k])
  /\ \A c \in Calls : IsCall(call[c])

\* Whatever first sign-ins, bootstraps and demo seeds ran at once, a person has
\* one account, and every request of theirs worked for that one.
SignInsAgree ==
  /\ \A u, v \in UserIds : users[u] # None /\ users[u] = users[v] => u = v
  /\ \A c \in Calls : call[c] # Idle /\ call[c].user # None =>
       users[call[c].user] = call[c].input.subject

\* Every trip demand is a verified person's, and every driver session one of a
\* verified person who owns a vehicle, for a vehicle that exists: no order of
\* sign-up, verification, crash and retry gets around the checks.
OwnersAreEligible == \A r \in ResourceIds : resources[r] # None =>
  /\ users[resources[r].user] # None
  /\ RiderEligible(resources[r].user)
  /\ resources[r].kind = "session" =>
       /\ \E v \in VehicleIds : vehicles[v] # None /\ vehicles[v].owner = resources[r].user
       /\ vehicles[resources[r].body.vehicle] # None

\* Whoever is told what their request made, at first or when they retry, is told
\* of a stored demand or session of their own that was made from just this input;
\* and a recorded key always leads to one.
AnswersMatch ==
  /\ \A c \in Calls : call[c].at \in {"finish", "done"} /\ call[c].input.kind \in CreateKinds =>
       resources[call[c].answer] = Resource(c)
  /\ \A k \in Keys : keys[k] # None =>
       resources[keys[k].resource] # None /\ resources[keys[k].resource].key = k

\* A retry that is sent after the key was recorded makes nothing new, whatever
\* crashes and concurrent requests with that key there were: only when the lookup
\* itself fails may it create again.
RetriesMakeNothing ==
  [][\A c \in Calls :
       call[c].at = "saveResource" /\ call'[c].at \in {"saveKey", "finish"} =>
         ~call[c].repeat \/ call[c].blind]_vars

\* A person told to be ready is not turned away for want of a verification later.
ReadyStays == \A c \in Calls :
  call[c].at = "done" /\ call[c].input.kind = "me" /\ call[c].answer = "ready" =>
    \A u \in Accounts(call[c].input.subject) : RiderEligible(u)

\* Nobody has asked for women drivers only but who was verified as a woman, even
\* when the verification is overwritten between the check and the Save.  (That it
\* still says so when the demand is saved does not hold, and nobody says it does.)
WomenAskForWomen == \A r \in ResourceIds :
  resources[r] # None /\ resources[r].kind = "demand" /\ resources[r].body.women
    => resources[r].user \in women

-----------------------------------------------------------------------------
(* Refinement *)

\* Where people stand in Membership: who has an account, a verified one, one with
\* a vehicle, and what was made by whom.
Members == {s \in Subjects : Accounts(s) # {}}
VerifiedPeople == {s \in Subjects : \E u \in Accounts(s) : verified[u] # None}
VehicleOwners == {s \in Subjects : \E u \in Accounts(s) : VehiclesOf(u) # {}}
Made == {[id |-> r, kind |-> resources[r].kind, by |-> users[resources[r].user]] :
           r \in {x \in ResourceIds : resources[x] # None}}

Standing == INSTANCE Membership
  WITH People <- Subjects, Ids <- ResourceIds,
       members <- Members, verified <- VerifiedPeople, owners <- VehicleOwners, made <- Made

\* Calls that check first and save later, retry, fail half way and crash look like
\* steps of Membership: nobody loses what they have, one step is about one
\* person, and nothing is made for somebody who is not eligible at that moment.
KeepsMembership == Standing!Spec

=============================================================================
