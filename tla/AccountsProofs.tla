----------------------------- MODULE AccountsProofs -----------------------------
(***************************************************************************)
(* What the safety of accounts and of idempotent creation rests on, for    *)
(* any number of people, vehicles, requests and keys.  The argument: the   *)
(* rows that eligibility and answers depend on are only ever added, so     *)
(* that what a request has read before a crash, a failure or another       *)
(* request stays good enough for what it does later.                       *)
(***************************************************************************)
EXTENDS Accounts, TLAPS

AnswerValues == ResourceIds \cup {None, "needs_profile", "needs_verification", "ready"}

CallRow == [at : Steps, input : Inputs, user : UserIds \cup {None}, answer : AnswerValues,
            repeat : BOOLEAN, blind : BOOLEAN]

Creating == {"lookup", "check", "saveResource", "saveKey", "finish"}

\* Who may own the resource of a call.
Eligible(kind, u, body) ==
  /\ users[u] # None /\ verified[u] # None
  /\ kind = "session" =>
       /\ \E v \in VehicleIds : vehicles[v] # None /\ vehicles[v].owner = u
       /\ vehicles[body.vehicle] # None

\* What a request knows at each statement.
Knows(c) == call[c] # Idle =>
  /\ call[c].user # None => users[call[c].user] = call[c].input.subject
  /\ call[c].at \in {"findUser", "saveUser"} => call[c].input.kind \in {"profile", "bootstrap"}
  /\ call[c].at \in {"saveVerification", "findPlate"} => call[c].input.kind = "bootstrap" /\ call[c].user # None
  /\ call[c].at \in {"findPlate", "saveVehicle"} => call[c].input.body.plate # None
  /\ call[c].at = "saveVehicle" => call[c].input.kind \in {"vehicle", "bootstrap"} /\ call[c].user # None
  /\ call[c].at = "read" => call[c].input.kind = "me"
  /\ call[c].at \in Creating => call[c].input.kind \in CreateKinds /\ call[c].user # None
  /\ call[c].at \in {"lookup", "saveKey"} => call[c].input.key # None
  /\ call[c].at = "saveResource" => Eligible(call[c].input.kind, call[c].user, call[c].input.body)
  /\ call[c].at \in {"saveKey", "finish", "done"} /\ call[c].input.kind \in CreateKinds =>
       call[c].user # None /\ call[c].answer \in ResourceIds /\ resources[call[c].answer] = Resource(c) /\ Resource(c) # None
  /\ call[c].at = "done" /\ call[c].input.kind = "me" /\ call[c].answer = "ready" =>
       \E u \in UserIds : users[u] = call[c].input.subject /\ verified[u] # None

\* The tables.
TablesTyped ==
  /\ up \in BOOLEAN
  /\ users \in [UserIds -> Subjects \cup {None}]
  /\ verified \in [UserIds -> Genders \cup {None}]
  /\ vehicles \in [VehicleIds -> VehicleRow \cup {None}]
  /\ DOMAIN resources = ResourceIds /\ DOMAIN keys = Keys
  /\ \A r \in ResourceIds : resources[r] = None \/ IsResource(resources[r])
  /\ \A k \in Keys : keys[k] = None \/ IsRecord(keys[k])

OneAccount == \A u, v \in UserIds : users[u] # None /\ users[u] = users[v] => u = v

DemoRows ==
  /\ users[DemoUser] \in {None, DemoSubject}
  /\ vehicles[DemoVehicle] # None => vehicles[DemoVehicle].owner = DemoUser

KeysLead == \A k \in Keys : keys[k] # None =>
  /\ resources[keys[k].resource] # None /\ resources[keys[k].resource] = keys[k].payload
  /\ keys[k].payload.key = k

TablesOK == TablesTyped /\ OneAccount /\ DemoRows /\ OwnersAreEligible /\ KeysLead

CallsTyped == call \in [Calls -> {Idle} \cup CallRow]

AccountsInv ==
  /\ TablesOK /\ CallsTyped
  /\ ~up => \A c \in Calls : call[c] = Idle
  /\ \A c \in Calls : Knows(c)

\* Rows are only added.
Grow ==
  /\ \A u \in UserIds : users[u] # None => users'[u] = users[u]
  /\ \A u \in UserIds : verified[u] # None => verified'[u] # None
  /\ \A v \in VehicleIds : vehicles[v] # None => vehicles'[v] # None /\ vehicles'[v].owner = vehicles[v].owner
  /\ \A r \in ResourceIds : resources[r] # None => resources'[r] = resources[r]

-----------------------------------------------------------------------------
(* Lemmas *)

LEMMA InputShapes ==
  ASSUME NEW i \in Inputs
  PROVE  /\ i.kind \in Kinds /\ i.subject \in Subjects /\ i.key \in Keys \cup {None} /\ i.body \in Bodies(i.kind)
         /\ i.kind = "vehicle" => i.body.plate \in Plates /\ i.body.capacity \in Nat
         /\ i.kind = "bootstrap" => i.body.gender \in Genders /\ i.body.plate \in Plates \cup {None} /\ i.body.capacity \in Nat
         /\ i.kind = "session" => i.body.vehicle \in VehicleIds
<1>1. IsInput(i)
  BY AccountsAssumption
<1>2. i.kind = "vehicle" => i.body \in [plate : Plates, capacity : Nat]
  BY <1>1 DEF IsInput, Bodies, Kinds, CreateKinds
<1>3. i.kind = "bootstrap" => i.body \in [gender : Genders, plate : Plates \cup {None}, capacity : Nat]
  BY <1>1 DEF IsInput, Bodies, Kinds, CreateKinds
<1>4. i.kind = "session" => i.body \in [vehicle : VehicleIds]
  BY <1>1 DEF IsInput, Bodies, Kinds, CreateKinds
<1>5. i.kind \in Kinds /\ i.subject \in Subjects /\ i.key \in Keys \cup {None} /\ i.body \in Bodies(i.kind)
  BY <1>1 DEF IsInput
<1> QED
  BY <1>2, <1>3, <1>4, <1>5

LEMMA CallShapes ==
  ASSUME CallsTyped, NEW c \in Calls
  PROVE  /\ call[c] = Idle <=> call[c].at = "idle"
         /\ call[c] # Idle => call[c] \in CallRow
  BY DEF CallsTyped, CallRow, Idle, Steps

\* A request that does not move keeps what it knows.
LEMMA KnowledgeStays ==
  ASSUME AccountsInv, Grow, NEW c \in Calls, call'[c] = call[c]
  PROVE  Knows(c)'
<1>1. CASE call[c] = Idle
  BY <1>1 DEF Knows, Idle
<1>2. CASE call[c] # Idle
  <2>1. call[c] \in CallRow /\ Knows(c)
    BY <1>2, CallShapes DEF AccountsInv
  <2>2. /\ call[c].user # None => users'[call[c].user] = call[c].input.subject
        /\ call[c].at = "done" /\ call[c].input.kind = "me" /\ call[c].answer = "ready" =>
             \E u \in UserIds : users'[u] = call[c].input.subject /\ verified'[u] # None
    <3>1. call[c].input.subject # None /\ call[c].user \in UserIds \cup {None}
      BY <2>1, InputShapes, AccountsAssumption DEF CallRow
    <3> QED
      BY <1>2, <2>1, <3>1 DEF Knows, Grow
  <2>3. call[c].at = "saveResource" => Eligible(call[c].input.kind, call[c].user, call[c].input.body)'
    <3>1. SUFFICES ASSUME call[c].at = "saveResource"
                   PROVE  Eligible(call[c].input.kind, call[c].user, call[c].input.body)'
      OBVIOUS
    <3>2. call[c].user \in UserIds /\ Eligible(call[c].input.kind, call[c].user, call[c].input.body)
      BY <1>2, <2>1, <3>1 DEF Knows, Creating, CallRow
    <3>3. call[c].input.kind = "session" => call[c].input.body.vehicle \in VehicleIds
      BY <2>1, InputShapes DEF CallRow
    <3> QED
      BY <3>2, <3>3, AccountsAssumption DEF Eligible, Grow
  <2>4. call[c].at \in {"saveKey", "finish", "done"} /\ call[c].input.kind \in CreateKinds =>
          call[c].user # None /\ call[c].answer \in ResourceIds /\ resources'[call[c].answer] = Resource(c)' /\ Resource(c)' # None
    <3>1. Resource(c)' = Resource(c)
      BY DEF Resource
    <3> QED
      BY <1>2, <2>1, <3>1 DEF Knows, Grow
  <2> QED
    BY <1>2, <2>1, <2>2, <2>3, <2>4 DEF Knows
<1> QED
  BY <1>1, <1>2

-----------------------------------------------------------------------------
(* One step of one request *)

LEMMA ServingStep ==
  ASSUME AccountsInv, up, up' = up, Grow, TablesOK', NEW c \in Calls, NEW row \in CallRow,
         call' = [call EXCEPT ![c] = row], Knows(c)'
  PROVE  AccountsInv'
<1>1. CallsTyped'
  BY DEF AccountsInv, CallsTyped
<1>2. ASSUME NEW d \in Calls PROVE Knows(d)'
  <2>1. CASE d = c
    BY <2>1
  <2>2. CASE d # c
    <3>1. call'[d] = call[d]
      BY <2>2 DEF AccountsInv, CallsTyped
    <3> QED
      BY <3>1, KnowledgeStays
  <2> QED
    BY <2>1, <2>2
<1> QED
  BY <1>1, <1>2 DEF AccountsInv

\* Reading leaves the tables as they are.
LEMMA Reading ==
  ASSUME AccountsInv, UNCHANGED tables, up' \in BOOLEAN
  PROVE  Grow /\ TablesOK'
<1>1. Grow
  BY DEF Grow, tables
<1>2. TablesOK
  BY DEF AccountsInv
<1>3. users' = users /\ verified' = verified /\ vehicles' = vehicles /\ resources' = resources /\ keys' = keys
  BY DEF tables
<1>5. TablesTyped'
  BY <1>2, <1>3 DEF TablesOK, TablesTyped
<1>6. OneAccount' /\ DemoRows'
  BY <1>2, <1>3 DEF TablesOK, OneAccount, DemoRows
<1>7. KeysLead'
  BY <1>2, <1>3 DEF TablesOK, KeysLead
<1>4. OwnersAreEligible'
  BY <1>2 DEF TablesOK, OwnersAreEligible, RiderEligible, tables
<1> QED
  BY <1>1, <1>4, <1>5, <1>6, <1>7 DEF TablesOK

-----------------------------------------------------------------------------
(* Requests that read *)

LEMMA ArriveKeeps ==
  ASSUME AccountsInv, NEW c \in Calls, NEW i \in Inputs, Arrive(c, i)
  PROVE  AccountsInv'
<1>1. PICK u \in Resolved(i.subject) :
        /\ up /\ up' = up /\ UNCHANGED tables
        /\ i.kind \in CreateKinds \cup {"vehicle"} => u # None
        /\ call' = [call EXCEPT ![c] =
             [at |-> Entry(i), input |-> i, user |-> u, answer |-> None,
              repeat |-> i.key # None /\ keys[i.key] # None, blind |-> FALSE]]
  BY DEF Arrive
<1> DEFINE row == [at |-> Entry(i), input |-> i, user |-> u, answer |-> None,
                   repeat |-> i.key # None /\ keys[i.key] # None, blind |-> FALSE]
<1>2. i.kind \in Kinds
  BY InputShapes
<1>3. Entry(i) \in {"findUser", "saveVehicle", "lookup", "check", "read"}
  BY <1>2 DEF Entry, Kinds, CreateKinds
<1>4. u = None \/ (u \in UserIds /\ users[u] = i.subject)
  BY <1>1 DEF Resolved, Accounts
<1>5. row \in CallRow
  BY <1>3, <1>4 DEF CallRow, Steps, AnswerValues
<1>6. call'[c] = row /\ users' = users
  BY <1>1 DEF AccountsInv, CallsTyped, tables
<1>7. Knows(c)'
  <2>1. /\ Entry(i) = "findUser" => i.kind \in {"profile", "bootstrap"}
        /\ Entry(i) = "saveVehicle" => i.kind = "vehicle"
        /\ Entry(i) = "read" => i.kind = "me"
        /\ Entry(i) \in {"lookup", "check"} => i.kind \in CreateKinds
        /\ Entry(i) = "lookup" => i.key # None
    BY <1>2 DEF Entry, Kinds, CreateKinds
  <2>2. i.kind = "vehicle" => i.body.plate # None
    BY InputShapes, AccountsAssumption
  <2> HIDE DEF row
  <2>3. row.at = Entry(i) /\ row.input = i /\ row.user = u
    BY DEF row
  <2> QED
    BY <1>1, <1>3, <1>4, <1>6, <2>1, <2>2, <2>3 DEF Knows, Creating
<1> QED
  BY <1>1, <1>5, <1>7, ServingStep, Reading DEF AccountsInv, TablesOK, TablesTyped

LEMMA FailKeeps ==
  ASSUME AccountsInv, NEW c \in Calls, Fail(c)
  PROVE  AccountsInv'
<1>1. Grow /\ TablesOK' /\ up /\ up' = up
  BY Reading DEF Fail, AccountsInv, TablesOK, TablesTyped
<1>2. call'[c] = Idle /\ CallsTyped'
  BY DEF Fail, AccountsInv, CallsTyped
<1>3. \A d \in Calls \ {c} : call'[d] = call[d]
  BY DEF Fail, AccountsInv, CallsTyped
<1>4. \A d \in Calls : Knows(d)'
  <2>1. Knows(c)'
    BY <1>2 DEF Knows
  <2> QED
    BY <1>1, <1>3, <2>1, KnowledgeStays
<1> QED
  BY <1>1, <1>2, <1>4 DEF AccountsInv

\* A request that is at a statement has a row.
LEMMA AtRow ==
  ASSUME AccountsInv, NEW c \in Calls, NEW step \in Steps, At(c, step)
  PROVE  /\ up /\ call[c] \in CallRow /\ call[c] # Idle /\ call[c].at = step /\ Knows(c)
         /\ call[c].input \in Inputs /\ call[c].user \in UserIds \cup {None}
<1>1. call[c] # Idle
  BY DEF At, Idle, Steps
<1>2. call[c] \in CallRow
  BY <1>1, CallShapes DEF AccountsInv
<1> QED
  BY <1>1, <1>2 DEF At, AccountsInv, CallRow

\* A statement that only reads and moves the request on.
LEMMA ReadingStep ==
  ASSUME AccountsInv, NEW c \in Calls, up, UNCHANGED <<up, tables>>,
         NEW row \in CallRow, call' = [call EXCEPT ![c] = row], Knows(c)'
  PROVE  AccountsInv'
  BY ServingStep, Reading DEF AccountsInv, TablesOK, TablesTyped


-----------------------------------------------------------------------------
(* Requests that read and move on *)

LEMMA FindUserKeeps ==
  ASSUME AccountsInv, NEW c \in Calls, FindUser(c)
  PROVE  AccountsInv'
<1>1. /\ up /\ call[c] \in CallRow /\ call[c] # Idle /\ call[c].at = "findUser" /\ Knows(c)
      /\ call[c].input \in Inputs /\ call[c].user \in UserIds \cup {None}
  BY AtRow DEF FindUser, Steps
<1>2. PICK u \in Resolved(call[c].input.subject) : call' = [call EXCEPT ![c].at = "saveUser", ![c].user = u]
  BY DEF FindUser
<1> DEFINE row == [call[c] EXCEPT !.at = "saveUser", !.user = u]
<1>3. u = None \/ (u \in UserIds /\ users[u] = call[c].input.subject)
  BY <1>2 DEF Resolved, Accounts
<1>4. row \in CallRow
  BY <1>1, <1>3 DEF CallRow, Steps, AnswerValues
<1>5. call' = [call EXCEPT ![c] = row]
  BY <1>1, <1>2 DEF AccountsInv, CallsTyped
<1>6. UNCHANGED <<up, tables>>
  BY DEF FindUser
<1>7. Knows(c)'
  <2>1. call'[c] = row /\ UNCHANGED <<users, verified, vehicles, resources>>
    BY <1>5, <1>6 DEF AccountsInv, CallsTyped, tables
  <2>2. /\ row.input = call[c].input /\ row.at = "saveUser"
        /\ row.user = u
        /\ row.answer = call[c].answer
    BY <1>1 DEF CallRow
  <2> HIDE DEF row
  <2> QED
    BY <1>1, <1>3, <2>1, <2>2 DEF Knows, Creating, CreateKinds
<1> QED
  BY <1>1, <1>4, <1>5, <1>6, <1>7, ReadingStep

LEMMA FindPlateKeeps ==
  ASSUME AccountsInv, NEW c \in Calls, FindPlate(c)
  PROVE  AccountsInv'
<1>1. /\ up /\ call[c] \in CallRow /\ call[c] # Idle /\ call[c].at = "findPlate" /\ Knows(c)
      /\ call[c].input \in Inputs /\ call[c].user \in UserIds \cup {None}
  BY AtRow DEF FindPlate, Steps
<1> DEFINE step == IF \E v \in VehiclesOf(call[c].user) : vehicles[v].plate = call[c].input.body.plate
                   THEN "done" ELSE "saveVehicle"
<1>2. call' = [call EXCEPT ![c].at = step]
  BY DEF FindPlate, Goto
<1> DEFINE row == [call[c] EXCEPT !.at = step]
<1>3. step \in {"done", "saveVehicle"}
  OBVIOUS
<1>4. row \in CallRow
  BY <1>1, <1>3 DEF CallRow, Steps, AnswerValues
<1>5. call' = [call EXCEPT ![c] = row]
  BY <1>1, <1>2 DEF AccountsInv, CallsTyped
<1>6. UNCHANGED <<up, tables>>
  BY DEF FindPlate
<1>7. Knows(c)'
  <2>1. call'[c] = row /\ UNCHANGED <<users, verified, vehicles, resources>>
    BY <1>5, <1>6 DEF AccountsInv, CallsTyped, tables
  <2>2. /\ row.input = call[c].input /\ row.at = step
        /\ row.user = call[c].user
        /\ row.answer = call[c].answer
    BY <1>1 DEF CallRow
  <2> HIDE DEF row
  <2> QED
    BY <1>1, <1>3, <2>1, <2>2 DEF Knows, Creating, CreateKinds
<1> QED
  BY <1>1, <1>4, <1>5, <1>6, <1>7, ReadingStep

LEMMA LookupMissesKeeps ==
  ASSUME AccountsInv, NEW c \in Calls, LookupMisses(c)
  PROVE  AccountsInv'
<1>1. /\ up /\ call[c] \in CallRow /\ call[c] # Idle /\ call[c].at = "lookup" /\ Knows(c)
      /\ call[c].input \in Inputs /\ call[c].user \in UserIds \cup {None}
  BY AtRow DEF LookupMisses, Steps
<1>2. call' = [call EXCEPT ![c].at = "check"]
  BY DEF LookupMisses, Goto
<1> DEFINE row == [call[c] EXCEPT !.at = "check"]
<1>4. row \in CallRow
  BY <1>1 DEF CallRow, Steps, AnswerValues
<1>5. call' = [call EXCEPT ![c] = row]
  BY <1>1, <1>2 DEF AccountsInv, CallsTyped
<1>6. UNCHANGED <<up, tables>>
  BY DEF LookupMisses
<1>7. Knows(c)'
  <2>1. call'[c] = row /\ UNCHANGED <<users, verified, vehicles, resources>>
    BY <1>5, <1>6 DEF AccountsInv, CallsTyped, tables
  <2>2. /\ row.input = call[c].input /\ row.at = "check"
        /\ row.user = call[c].user
        /\ row.answer = call[c].answer
    BY <1>1 DEF CallRow
  <2> HIDE DEF row
  <2> QED
    BY <1>1, <2>1, <2>2 DEF Knows, Creating, CreateKinds
<1> QED
  BY <1>1, <1>4, <1>5, <1>6, <1>7, ReadingStep

LEMMA LookupErrsKeeps ==
  ASSUME AccountsInv, NEW c \in Calls, LookupErrs(c)
  PROVE  AccountsInv'
<1>1. /\ up /\ call[c] \in CallRow /\ call[c] # Idle /\ call[c].at = "lookup" /\ Knows(c)
      /\ call[c].input \in Inputs /\ call[c].user \in UserIds \cup {None}
  BY AtRow DEF LookupErrs, Steps
<1>2. call' = [call EXCEPT ![c].at = "check", ![c].blind = TRUE]
  BY DEF LookupErrs, Goto
<1> DEFINE row == [call[c] EXCEPT !.at = "check", !.blind = TRUE]
<1>4. row \in CallRow
  BY <1>1 DEF CallRow, Steps, AnswerValues
<1>5. call' = [call EXCEPT ![c] = row]
  BY <1>1, <1>2 DEF AccountsInv, CallsTyped
<1>6. UNCHANGED <<up, tables>>
  BY DEF LookupErrs
<1>7. Knows(c)'
  <2>1. call'[c] = row /\ UNCHANGED <<users, verified, vehicles, resources>>
    BY <1>5, <1>6 DEF AccountsInv, CallsTyped, tables
  <2>2. /\ row.input = call[c].input /\ row.at = "check"
        /\ row.user = call[c].user
        /\ row.answer = call[c].answer
    BY <1>1 DEF CallRow
  <2> HIDE DEF row
  <2> QED
    BY <1>1, <2>1, <2>2 DEF Knows, Creating, CreateKinds
<1> QED
  BY <1>1, <1>4, <1>5, <1>6, <1>7, ReadingStep

LEMMA CheckRiderKeeps ==
  ASSUME AccountsInv, NEW c \in Calls, CheckRider(c)
  PROVE  AccountsInv'
<1>1. /\ up /\ call[c] \in CallRow /\ call[c] # Idle /\ call[c].at = "check" /\ Knows(c)
      /\ call[c].input \in Inputs /\ call[c].user \in UserIds \cup {None}
  BY AtRow DEF CheckRider, Steps
<1>2. call' = [call EXCEPT ![c].at = "saveResource"]
  BY DEF CheckRider, Goto
<1> DEFINE row == [call[c] EXCEPT !.at = "saveResource"]
<1>3. Eligible(call[c].input.kind, call[c].user, call[c].input.body)
  <2>1. /\ call[c].input.kind = "demand" /\ verified[call[c].user] # None
        /\ users[call[c].user] = call[c].input.subject /\ call[c].input.subject # None
    BY <1>1, InputShapes, AccountsAssumption DEF CheckRider, RiderEligible, Knows, Creating
  <2> QED
    BY <2>1 DEF Eligible
<1>4. row \in CallRow
  BY <1>1 DEF CallRow, Steps, AnswerValues
<1>5. call' = [call EXCEPT ![c] = row]
  BY <1>1, <1>2 DEF AccountsInv, CallsTyped
<1>6. UNCHANGED <<up, tables>>
  BY DEF CheckRider
<1>7. Knows(c)'
  <2>1. call'[c] = row /\ UNCHANGED <<users, verified, vehicles, resources>>
    BY <1>5, <1>6 DEF AccountsInv, CallsTyped, tables
  <2>2. /\ row.input = call[c].input /\ row.at = "saveResource"
        /\ row.user = call[c].user
        /\ row.answer = call[c].answer
    BY <1>1 DEF CallRow
  <2> HIDE DEF row
  <2>3. Eligible(call[c].input.kind, call[c].user, call[c].input.body)'
    BY <1>3, <2>1, <2>2 DEF Eligible
  <2> QED
    BY <1>1, <1>3, <2>1, <2>2, <2>3 DEF Knows, Creating
<1> QED
  BY <1>1, <1>4, <1>5, <1>6, <1>7, ReadingStep

LEMMA CheckDriverKeeps ==
  ASSUME AccountsInv, NEW c \in Calls, CheckDriver(c)
  PROVE  AccountsInv'
<1>1. /\ up /\ call[c] \in CallRow /\ call[c] # Idle /\ call[c].at = "check" /\ Knows(c)
      /\ call[c].input \in Inputs /\ call[c].user \in UserIds \cup {None}
  BY AtRow DEF CheckDriver, Steps
<1>2. call' = [call EXCEPT ![c].at = "saveResource"]
  BY DEF CheckDriver, Goto
<1> DEFINE row == [call[c] EXCEPT !.at = "saveResource"]
<1>3. Eligible(call[c].input.kind, call[c].user, call[c].input.body)
  <2>1. /\ verified[call[c].user] # None
        /\ users[call[c].user] = call[c].input.subject /\ call[c].input.subject # None
        /\ vehicles[call[c].input.body.vehicle] # None
        /\ \E v \in VehicleIds : vehicles[v] # None /\ vehicles[v].owner = call[c].user
    BY <1>1, InputShapes, AccountsAssumption DEF CheckDriver, DriverEligible, VehiclesOf, Knows, Creating
  <2> QED
    BY <2>1 DEF Eligible
<1>4. row \in CallRow
  BY <1>1 DEF CallRow, Steps, AnswerValues
<1>5. call' = [call EXCEPT ![c] = row]
  BY <1>1, <1>2 DEF AccountsInv, CallsTyped
<1>6. UNCHANGED <<up, tables>>
  BY DEF CheckDriver
<1>7. Knows(c)'
  <2>1. call'[c] = row /\ UNCHANGED <<users, verified, vehicles, resources>>
    BY <1>5, <1>6 DEF AccountsInv, CallsTyped, tables
  <2>2. /\ row.input = call[c].input /\ row.at = "saveResource"
        /\ row.user = call[c].user
        /\ row.answer = call[c].answer
    BY <1>1 DEF CallRow
  <2> HIDE DEF row
  <2>3. Eligible(call[c].input.kind, call[c].user, call[c].input.body)'
    BY <1>3, <2>1, <2>2 DEF Eligible
  <2> QED
    BY <1>1, <1>3, <2>1, <2>2, <2>3 DEF Knows, Creating
<1> QED
  BY <1>1, <1>4, <1>5, <1>6, <1>7, ReadingStep

LEMMA FinishKeeps ==
  ASSUME AccountsInv, NEW c \in Calls, Finish(c)
  PROVE  AccountsInv'
<1>1. /\ up /\ call[c] \in CallRow /\ call[c] # Idle /\ call[c].at = "finish" /\ Knows(c)
      /\ call[c].input \in Inputs /\ call[c].user \in UserIds \cup {None}
  BY AtRow DEF Finish, Steps
<1>2. call' = [call EXCEPT ![c].at = "done"]
  BY DEF Finish, Goto
<1> DEFINE row == [call[c] EXCEPT !.at = "done"]
<1>4. row \in CallRow
  BY <1>1 DEF CallRow, Steps, AnswerValues
<1>5. call' = [call EXCEPT ![c] = row]
  BY <1>1, <1>2 DEF AccountsInv, CallsTyped
<1>6. UNCHANGED <<up, tables>>
  BY DEF Finish
<1>7. Knows(c)'
  <2>1. call'[c] = row /\ UNCHANGED <<users, verified, vehicles, resources>>
    BY <1>5, <1>6 DEF AccountsInv, CallsTyped, tables
  <2>2. /\ row.input = call[c].input /\ row.at = "done"
        /\ row.user = call[c].user
        /\ row.answer = call[c].answer
    BY <1>1 DEF CallRow
  <2> HIDE DEF row
  <2>3. Resource(c)' = Resource(c) /\ row.input.kind # "me"
    BY <1>1, <2>1, <2>2 DEF Resource, Knows, Creating, CreateKinds
  <2> QED
    BY <1>1, <2>1, <2>2, <2>3 DEF Knows, Creating
<1> QED
  BY <1>1, <1>4, <1>5, <1>6, <1>7, ReadingStep

LEMMA LookupReplaysKeeps ==
  ASSUME AccountsInv, NEW c \in Calls, LookupReplays(c)
  PROVE  AccountsInv'
<1>1. /\ up /\ call[c] \in CallRow /\ call[c] # Idle /\ call[c].at = "lookup" /\ Knows(c)
      /\ call[c].input \in Inputs /\ call[c].user \in UserIds \cup {None}
  BY AtRow DEF LookupReplays, Steps
<1>2. call' = [call EXCEPT ![c].at = "done", ![c].answer = keys[call[c].input.key].resource]
  BY DEF LookupReplays, Goto
<1> DEFINE row == [call[c] EXCEPT !.at = "done", !.answer = keys[call[c].input.key].resource]
<1>3. /\ keys[call[c].input.key].resource \in ResourceIds
      /\ resources[keys[call[c].input.key].resource] = Resource(c) /\ Resource(c) # None
  <2>1. call[c].input.key \in Keys
    BY <1>1, InputShapes DEF Knows
  <2>2. keys[call[c].input.key] # None /\ keys[call[c].input.key].payload = Resource(c)
    BY DEF LookupReplays, Payload, Resource
  <2> QED
    BY <2>1, <2>2 DEF AccountsInv, TablesOK, TablesTyped, KeysLead, IsRecord
<1>4. row \in CallRow
  BY <1>1, <1>3 DEF CallRow, Steps, AnswerValues
<1>5. call' = [call EXCEPT ![c] = row]
  BY <1>1, <1>2 DEF AccountsInv, CallsTyped
<1>6. UNCHANGED <<up, tables>>
  BY DEF LookupReplays
<1>7. Knows(c)'
  <2>1. call'[c] = row /\ UNCHANGED <<users, verified, vehicles, resources>>
    BY <1>5, <1>6 DEF AccountsInv, CallsTyped, tables
  <2>2. /\ row.input = call[c].input /\ row.at = "done"
        /\ row.user = call[c].user
        /\ row.answer = keys[call[c].input.key].resource
    BY <1>1 DEF CallRow
  <2> HIDE DEF row
  <2>3. Resource(c)' = Resource(c) /\ row.input.kind # "me" /\ call[c].user # None
    BY <1>1, <2>1, <2>2 DEF Resource, Knows, Creating, CreateKinds
  <2> QED
    BY <1>1, <1>3, <2>1, <2>2, <2>3 DEF Knows, Creating
<1> QED
  BY <1>1, <1>4, <1>5, <1>6, <1>7, ReadingStep

LEMMA ReadMeKeeps ==
  ASSUME AccountsInv, NEW c \in Calls, ReadMe(c)
  PROVE  AccountsInv'
<1>1. /\ up /\ call[c] \in CallRow /\ call[c] # Idle /\ call[c].at = "read" /\ Knows(c)
      /\ call[c].input \in Inputs /\ call[c].user \in UserIds \cup {None}
  BY AtRow DEF ReadMe, Steps
<1>2. PICK u \in (IF call[c].user = None THEN {None} ELSE Accounts(call[c].input.subject)) : call' = [call EXCEPT ![c].at = "done", ![c].answer = Onboarding(u)]
  BY DEF ReadMe
<1> DEFINE row == [call[c] EXCEPT !.at = "done", !.answer = Onboarding(u)]
<1>3. /\ Onboarding(u) \in AnswerValues
      /\ Onboarding(u) = "ready" => u \in UserIds /\ users[u] = call[c].input.subject /\ verified[u] # None
  BY <1>2 DEF Onboarding, Accounts, AnswerValues
<1>4. row \in CallRow
  BY <1>1, <1>3 DEF CallRow, Steps, AnswerValues
<1>5. call' = [call EXCEPT ![c] = row]
  BY <1>1, <1>2 DEF AccountsInv, CallsTyped
<1>6. UNCHANGED <<up, tables>>
  BY DEF ReadMe
<1>7. Knows(c)'
  <2>1. call'[c] = row /\ UNCHANGED <<users, verified, vehicles, resources>>
    BY <1>5, <1>6 DEF AccountsInv, CallsTyped, tables
  <2>2. /\ row.input = call[c].input /\ row.at = "done"
        /\ row.user = call[c].user
        /\ row.answer = Onboarding(u)
    BY <1>1 DEF CallRow
  <2> HIDE DEF row
  <2>3. row.input.kind \notin CreateKinds
    BY <1>1, <2>2 DEF Knows, CreateKinds
  <2> QED
    BY <1>1, <1>3, <2>1, <2>2, <2>3 DEF Knows, Creating
<1> QED
  BY <1>1, <1>4, <1>5, <1>6, <1>7, ReadingStep


-----------------------------------------------------------------------------
(* Requests that write *)

LEMMA SaveUserKeeps ==
  ASSUME AccountsInv, NEW c \in Calls, SaveUser(c)
  PROVE  AccountsInv'
<1>1. /\ up /\ call[c] \in CallRow /\ call[c] # Idle /\ call[c].at = "saveUser" /\ Knows(c)
      /\ call[c].input \in Inputs /\ call[c].user \in UserIds \cup {None}
  BY AtRow DEF SaveUser, Steps
<1> DEFINE subject == call[c].input.subject
<1>2. PICK u \in (IF call[c].user = None THEN NewIds(users) ELSE {call[c].user}) :
        /\ Accounts(subject) \subseteq {u}
        /\ users' = [users EXCEPT ![u] = subject]
        /\ call' = [call EXCEPT ![c].at = AfterUser(c), ![c].user = u]
  BY DEF SaveUser
<1>3. UNCHANGED <<up, verified, vehicles, resources, keys>>
  BY DEF SaveUser
<1>4. TablesTyped /\ OneAccount /\ DemoRows /\ OwnersAreEligible /\ KeysLead
  BY DEF AccountsInv, TablesOK
<1>5. subject \in Subjects /\ subject # None /\ call[c].input.kind \in {"profile", "bootstrap"}
  BY <1>1, InputShapes, AccountsAssumption DEF Knows
<1>6. u \in UserIds /\ ((users[u] = None /\ u # DemoUser) \/ users[u] = subject)
  BY <1>1, <1>2, <1>4, <1>5 DEF NewIds, Knows, TablesTyped
<1>7. users' \in [UserIds -> Subjects \cup {None}] /\ users'[u] = subject /\ \A v \in UserIds \ {u} : users'[v] = users[v]
  BY <1>2, <1>4, <1>5, <1>6 DEF TablesTyped
<1>8. Grow
  BY <1>3, <1>6, <1>7 DEF Grow
<1>9. TablesOK'
  <2>1. TablesTyped'
    BY <1>3, <1>4, <1>7 DEF TablesTyped
  <2>2. OneAccount'
    BY <1>2, <1>4, <1>6, <1>7 DEF OneAccount, Accounts
  <2>3. DemoRows'
    BY <1>3, <1>4, <1>6, <1>7, AccountsAssumption DEF DemoRows
  <2>4. OwnersAreEligible'
    <3>1. \A r \in ResourceIds : resources[r] # None => resources[r].user \in UserIds
      BY <1>4 DEF TablesTyped, IsResource
    <3> QED
      BY <1>3, <1>4, <1>8, <3>1 DEF OwnersAreEligible, RiderEligible, Grow
  <2>5. KeysLead'
    BY <1>3, <1>4 DEF KeysLead
  <2> QED
    BY <2>1, <2>2, <2>3, <2>4, <2>5 DEF TablesOK
<1> DEFINE row == [call[c] EXCEPT !.at = AfterUser(c), !.user = u]
<1>10. row \in CallRow
  BY <1>1, <1>6 DEF CallRow, Steps, AfterUser
<1>11. call' = [call EXCEPT ![c] = row]
  BY <1>1, <1>2 DEF AccountsInv, CallsTyped
<1>12. Knows(c)'
  <2>1. call'[c] = row
    BY <1>11 DEF AccountsInv, CallsTyped
  <2>2. row.input = call[c].input /\ row.user = u /\ row.at = AfterUser(c)
    BY <1>1 DEF CallRow
  <2>3. \/ AfterUser(c) = "saveVerification" /\ call[c].input.kind = "bootstrap"
        \/ AfterUser(c) = "done" /\ call[c].input.kind \notin CreateKinds /\ call[c].input.kind # "me"
    BY <1>5 DEF AfterUser, CreateKinds
  <2>4. u # None /\ users'[u] = subject
    BY <1>6, <1>7, AccountsAssumption
  <2> HIDE DEF row
  <2> QED
    BY <2>1, <2>2, <2>3, <2>4 DEF Knows, Creating
<1> QED
  BY <1>1, <1>3, <1>8, <1>9, <1>10, <1>11, <1>12, ServingStep

LEMMA SaveVerificationKeeps ==
  ASSUME AccountsInv, NEW c \in Calls, SaveVerification(c)
  PROVE  AccountsInv'
<1>1. /\ up /\ call[c] \in CallRow /\ call[c] # Idle /\ call[c].at = "saveVerification" /\ Knows(c)
      /\ call[c].input \in Inputs /\ call[c].user \in UserIds \cup {None}
  BY AtRow DEF SaveVerification, Steps
<1> DEFINE u == call[c].user
           gender == call[c].input.body.gender
           next == IF call[c].input.body.plate = None THEN "done" ELSE "findPlate"
           row == [call[c] EXCEPT !.at = next]
<1>2. verified' = [verified EXCEPT ![u] = gender] /\ call' = [call EXCEPT ![c].at = next]
  BY DEF SaveVerification, Goto
<1>3. UNCHANGED <<up, users, vehicles, resources, keys>>
  BY DEF SaveVerification
<1>4. TablesTyped /\ OneAccount /\ DemoRows /\ OwnersAreEligible /\ KeysLead
  BY DEF AccountsInv, TablesOK
<1>5. u \in UserIds /\ gender \in Genders /\ gender # None /\ call[c].input.kind = "bootstrap"
  BY <1>1, InputShapes, AccountsAssumption DEF Knows
<1>6. verified' \in [UserIds -> Genders \cup {None}] /\ \A v \in UserIds : verified[v] # None => verified'[v] # None
  BY <1>2, <1>4, <1>5 DEF TablesTyped
<1>7. Grow
  BY <1>3, <1>6 DEF Grow
<1>8. TablesOK'
  <2>1. TablesTyped'
    BY <1>3, <1>4, <1>6 DEF TablesTyped
  <2>2. OneAccount' /\ DemoRows'
    BY <1>3, <1>4 DEF OneAccount, DemoRows
  <2>3. OwnersAreEligible'
    <3>1. \A r \in ResourceIds : resources[r] # None => resources[r].user \in UserIds
      BY <1>4 DEF TablesTyped, IsResource
    <3> QED
      BY <1>3, <1>4, <1>6, <3>1 DEF OwnersAreEligible, RiderEligible
  <2>4. KeysLead'
    BY <1>3, <1>4 DEF KeysLead
  <2> QED
    BY <2>1, <2>2, <2>3, <2>4 DEF TablesOK
<1>9. row \in CallRow
  BY <1>1 DEF CallRow, Steps
<1>10. call' = [call EXCEPT ![c] = row]
  BY <1>1, <1>2 DEF AccountsInv, CallsTyped
<1>11. Knows(c)'
  <2>1. call'[c] = row
    BY <1>10 DEF AccountsInv, CallsTyped
  <2>2. row.input = call[c].input /\ row.user = u /\ row.at = next
    BY <1>1 DEF CallRow
  <2>3. next = "done" \/ (next = "findPlate" /\ call[c].input.body.plate # None)
    BY DEF next
  <2>4. u # None /\ users'[u] = call[c].input.subject
    BY <1>1, <1>3, <1>5, AccountsAssumption DEF Knows
  <2> HIDE DEF row, next
  <2> QED
    BY <1>5, <2>1, <2>2, <2>3, <2>4 DEF Knows, Creating, CreateKinds
<1> QED
  BY <1>1, <1>3, <1>7, <1>8, <1>9, <1>10, <1>11, ServingStep

LEMMA SaveVehicleKeeps ==
  ASSUME AccountsInv, NEW c \in Calls, SaveVehicle(c)
  PROVE  AccountsInv'
<1>1. /\ up /\ call[c] \in CallRow /\ call[c] # Idle /\ call[c].at = "saveVehicle" /\ Knows(c)
      /\ call[c].input \in Inputs /\ call[c].user \in UserIds \cup {None}
  BY AtRow DEF SaveVehicle, Steps
<1> DEFINE u == call[c].user
           body == call[c].input.body
           row == [call[c] EXCEPT !.at = "done"]
<1>2. PICK v \in NewIds(vehicles) : vehicles' = [vehicles EXCEPT ![v] = Vehicle(u, body.plate, body.capacity)]
  BY DEF SaveVehicle
<1>3. UNCHANGED <<up, users, verified, resources, keys>> /\ call' = [call EXCEPT ![c].at = "done"]
  BY DEF SaveVehicle, Goto
<1>4. TablesTyped /\ OneAccount /\ DemoRows /\ OwnersAreEligible /\ KeysLead
  BY DEF AccountsInv, TablesOK
<1>5. /\ u \in UserIds /\ body.plate \in Plates /\ body.capacity \in Nat \ {0}
      /\ call[c].input.kind \in {"vehicle", "bootstrap"}
  <2>1. call[c].input.kind \in {"vehicle", "bootstrap"} /\ u # None /\ body.plate # None
    BY <1>1 DEF Knows
  <2>2. body.plate \in Plates /\ body.capacity \in Nat
    BY <1>1, <2>1, InputShapes
  <2>3. body.capacity > 0
    BY DEF SaveVehicle
  <2> QED
    BY <1>1, <2>1, <2>2, <2>3
<1>6. v \in VehicleIds /\ vehicles[v] = None /\ v # DemoVehicle
  BY <1>2, <1>4 DEF NewIds, TablesTyped
<1>7. Vehicle(u, body.plate, body.capacity) \in VehicleRow
  BY <1>5 DEF Vehicle, VehicleRow
<1>8. /\ vehicles' \in [VehicleIds -> VehicleRow \cup {None}]
      /\ \A w \in VehicleIds : vehicles[w] # None => vehicles'[w] = vehicles[w]
      /\ vehicles'[DemoVehicle] = vehicles[DemoVehicle]
  BY <1>2, <1>4, <1>6, <1>7, AccountsAssumption DEF TablesTyped
<1>9. Grow
  BY <1>3, <1>8 DEF Grow
<1>10. TablesOK'
  <2>1. TablesTyped'
    BY <1>3, <1>4, <1>8 DEF TablesTyped
  <2>2. OneAccount' /\ DemoRows'
    BY <1>3, <1>4, <1>8 DEF OneAccount, DemoRows
  <2>3. OwnersAreEligible'
    <3>1. ASSUME NEW r \in ResourceIds, resources[r] # None, resources[r].kind = "session"
          PROVE  resources[r].body.vehicle \in VehicleIds
      BY <1>4, <3>1 DEF TablesTyped, IsResource, Bodies, CreateKinds
    <3> QED
      BY <1>3, <1>4, <1>8, <3>1 DEF OwnersAreEligible, RiderEligible
  <2>4. KeysLead'
    BY <1>3, <1>4 DEF KeysLead
  <2> QED
    BY <2>1, <2>2, <2>3, <2>4 DEF TablesOK
<1>11. row \in CallRow
  BY <1>1 DEF CallRow, Steps
<1>12. call' = [call EXCEPT ![c] = row]
  BY <1>1, <1>3 DEF AccountsInv, CallsTyped
<1>13. Knows(c)'
  <2>1. call'[c] = row
    BY <1>12 DEF AccountsInv, CallsTyped
  <2>2. row.input = call[c].input /\ row.user = u /\ row.at = "done"
    BY <1>1 DEF CallRow
  <2>3. users'[u] = call[c].input.subject
    BY <1>1, <1>3, <1>5, AccountsAssumption DEF Knows
  <2> HIDE DEF row
  <2> QED
    BY <1>5, <2>1, <2>2, <2>3 DEF Knows, Creating, CreateKinds
<1> QED
  BY <1>1, <1>3, <1>9, <1>10, <1>11, <1>12, <1>13, ServingStep

LEMMA SaveResourceKeeps ==
  ASSUME AccountsInv, NEW c \in Calls, SaveResource(c)
  PROVE  AccountsInv'
<1>1. /\ up /\ call[c] \in CallRow /\ call[c] # Idle /\ call[c].at = "saveResource" /\ Knows(c)
      /\ call[c].input \in Inputs /\ call[c].user \in UserIds \cup {None}
  BY AtRow DEF SaveResource, Steps
<1> DEFINE next == IF call[c].input.key = None THEN "finish" ELSE "saveKey"
<1>2. PICK r \in NewIds(resources) :
        /\ resources' = [resources EXCEPT ![r] = Resource(c)]
        /\ call' = [call EXCEPT ![c].at = next, ![c].answer = r]
  BY DEF SaveResource
<1> DEFINE row == [call[c] EXCEPT !.at = next, !.answer = r]
<1>3. UNCHANGED <<up, users, verified, vehicles, keys>>
  BY DEF SaveResource
<1>4. TablesTyped /\ OneAccount /\ DemoRows /\ OwnersAreEligible /\ KeysLead
  BY DEF AccountsInv, TablesOK
<1>5. /\ call[c].user \in UserIds /\ call[c].input.kind \in CreateKinds
      /\ Eligible(call[c].input.kind, call[c].user, call[c].input.body)
  BY <1>1 DEF Knows, Creating
<1>6. r \in ResourceIds /\ resources[r] = None
  BY <1>2, <1>4 DEF NewIds, TablesTyped
<1>7. /\ Resource(c).kind = call[c].input.kind /\ Resource(c).user = call[c].user
      /\ Resource(c).key = call[c].input.key /\ Resource(c).body = call[c].input.body
      /\ Resource(c) # None
  BY <1>1, <1>5, AccountsAssumption DEF Resource
<1>8. IsResource(Resource(c))
  BY <1>1, <1>5, <1>7, InputShapes DEF IsResource
<1>9. /\ DOMAIN resources' = ResourceIds /\ resources'[r] = Resource(c)
      /\ \A q \in ResourceIds \ {r} : resources'[q] = resources[q]
  BY <1>2, <1>4, <1>6 DEF TablesTyped
<1>10. Grow
  BY <1>3, <1>6, <1>9 DEF Grow
<1>11. TablesOK'
  <2>1. TablesTyped'
    BY <1>3, <1>4, <1>8, <1>9 DEF TablesTyped
  <2>2. OneAccount' /\ DemoRows'
    BY <1>3, <1>4 DEF OneAccount, DemoRows
  <2>3. OwnersAreEligible'
    <3>1. ASSUME NEW q \in ResourceIds, q # r, resources'[q] # None
          PROVE  Eligible(resources'[q].kind, resources'[q].user, resources'[q].body)
      BY <1>4, <1>9, <3>1 DEF OwnersAreEligible, RiderEligible, Eligible
    <3>2. Eligible(resources'[r].kind, resources'[r].user, resources'[r].body)
      BY <1>5, <1>7, <1>9
    <3> QED
      BY <1>3, <3>1, <3>2 DEF OwnersAreEligible, RiderEligible, Eligible
  <2>4. KeysLead'
    <3>1. \A k \in Keys : keys[k] # None => keys[k].resource \in ResourceIds
      BY <1>4 DEF TablesTyped, IsRecord
    <3> QED
      BY <1>3, <1>4, <1>6, <1>9, <3>1 DEF KeysLead
  <2> QED
    BY <2>1, <2>2, <2>3, <2>4 DEF TablesOK
<1>12. row \in CallRow
  BY <1>1, <1>6 DEF CallRow, Steps, AnswerValues
<1>13. call' = [call EXCEPT ![c] = row]
  BY <1>1, <1>2 DEF AccountsInv, CallsTyped
<1>14. Knows(c)'
  <2>1. call'[c] = row
    BY <1>13 DEF AccountsInv, CallsTyped
  <2>2. row.input = call[c].input /\ row.user = call[c].user /\ row.at = next /\ row.answer = r
    BY <1>1 DEF CallRow
  <2>3. next = "finish" \/ (next = "saveKey" /\ call[c].input.key # None)
    BY DEF next
  <2>4. call[c].user # None /\ users'[call[c].user] = call[c].input.subject
    BY <1>1, <1>3, <1>5, AccountsAssumption DEF Knows
  <2> HIDE DEF row, next
  <2>5. Resource(c)' = Resource(c)
    BY <2>1, <2>2 DEF Resource
  <2> QED
    BY <1>5, <1>6, <1>7, <1>9, <2>1, <2>2, <2>3, <2>4, <2>5 DEF Knows, Creating
<1> QED
  BY <1>1, <1>3, <1>10, <1>11, <1>12, <1>13, <1>14, ServingStep

LEMMA SaveKeyKeeps ==
  ASSUME AccountsInv, NEW c \in Calls, SaveKey(c)
  PROVE  AccountsInv'
<1>1. /\ up /\ call[c] \in CallRow /\ call[c] # Idle /\ call[c].at = "saveKey" /\ Knows(c)
      /\ call[c].input \in Inputs /\ call[c].user \in UserIds \cup {None}
  BY AtRow DEF SaveKey, Steps
<1> DEFINE k == call[c].input.key
           record == [resource |-> call[c].answer, payload |-> Payload(c)]
           row == [call[c] EXCEPT !.at = "finish"]
<1>2. keys' = [keys EXCEPT ![k] = record] /\ call' = [call EXCEPT ![c].at = "finish"]
  BY DEF SaveKey, Goto
<1>3. UNCHANGED <<up, users, verified, vehicles, resources>>
  BY DEF SaveKey
<1>4. TablesTyped /\ OneAccount /\ DemoRows /\ OwnersAreEligible /\ KeysLead
  BY DEF AccountsInv, TablesOK
<1>5. /\ k \in Keys /\ call[c].input.kind \in CreateKinds /\ call[c].user # None
      /\ call[c].answer \in ResourceIds /\ resources[call[c].answer] = Resource(c) /\ Resource(c) # None
  BY <1>1, InputShapes DEF Knows, Creating
<1>6. /\ Payload(c) = Resource(c) /\ Payload(c).kind = call[c].input.kind /\ Payload(c).key = k
      /\ record.resource = call[c].answer /\ record.payload = Payload(c)
  BY DEF Payload, Resource
<1> HIDE DEF record
<1>7. DOMAIN keys' = Keys /\ keys'[k] = record /\ \A j \in Keys \ {k} : keys'[j] = keys[j]
  BY <1>2, <1>4, <1>5 DEF TablesTyped
<1>8. Grow
  BY <1>3 DEF Grow
<1>9. TablesOK'
  <2>1. TablesTyped'
    <3>1. IsRecord(record)
      BY <1>5, <1>6 DEF IsRecord
    <3> QED
      BY <1>3, <1>4, <1>7, <3>1 DEF TablesTyped
  <2>2. OneAccount' /\ DemoRows'
    BY <1>3, <1>4 DEF OneAccount, DemoRows
  <2>3. OwnersAreEligible'
    BY <1>3, <1>4 DEF OwnersAreEligible, RiderEligible
  <2>4. KeysLead'
    BY <1>3, <1>4, <1>5, <1>6, <1>7 DEF KeysLead
  <2> QED
    BY <2>1, <2>2, <2>3, <2>4 DEF TablesOK
<1>10. row \in CallRow
  BY <1>1 DEF CallRow, Steps
<1>11. call' = [call EXCEPT ![c] = row]
  BY <1>1, <1>2 DEF AccountsInv, CallsTyped
<1>12. Knows(c)'
  <2>1. call'[c] = row
    BY <1>11 DEF AccountsInv, CallsTyped
  <2>2. row.input = call[c].input /\ row.user = call[c].user /\ row.at = "finish" /\ row.answer = call[c].answer
    BY <1>1 DEF CallRow
  <2>3. users'[call[c].user] = call[c].input.subject
    BY <1>1, <1>3, <1>5 DEF Knows
  <2> HIDE DEF row
  <2>4. Resource(c)' = Resource(c)
    BY <2>1, <2>2 DEF Resource
  <2> QED
    BY <1>3, <1>5, <2>1, <2>2, <2>3, <2>4 DEF Knows, Creating
<1> QED
  BY <1>1, <1>3, <1>8, <1>9, <1>10, <1>11, <1>12, ServingStep

-----------------------------------------------------------------------------
(* The process *)

\* Every request is idle before and after: only the tables count.
LEMMA IdleStep ==
  ASSUME TablesOK', call' = [c \in Calls |-> Idle]
  PROVE  AccountsInv'
<1>1. \A c \in Calls : call'[c] = Idle
  OBVIOUS
<1>2. CallsTyped'
  BY DEF CallsTyped
<1> QED
  BY <1>1, <1>2 DEF AccountsInv, Knows

LEMMA InitHolds == Init => AccountsInv
<1> SUFFICES ASSUME Init PROVE AccountsInv
  OBVIOUS
<1>1. TablesTyped
  BY AccountsAssumption DEF Init, TablesTyped
<1>2. OneAccount /\ DemoRows /\ OwnersAreEligible /\ KeysLead
  BY AccountsAssumption DEF Init, OneAccount, DemoRows, OwnersAreEligible, KeysLead
<1>3. \A c \in Calls : call[c] = Idle
  BY DEF Init
<1>4. CallsTyped
  BY DEF Init, CallsTyped
<1> QED
  BY <1>1, <1>2, <1>3, <1>4 DEF AccountsInv, TablesOK, Knows

LEMMA CrashKeeps ==
  ASSUME AccountsInv, Crash
  PROVE  AccountsInv'
<1>1. TablesOK'
  BY Reading DEF Crash
<1> QED
  BY <1>1, IdleStep DEF Crash

LEMMA BootKeeps ==
  ASSUME AccountsInv, Boot
  PROVE  AccountsInv'
<1>1. TablesOK'
  BY Reading DEF Boot
<1>2. call' = call /\ \A c \in Calls : call[c] = Idle
  BY DEF Boot, AccountsInv
<1>3. call' = [c \in Calls |-> Idle]
  BY <1>2 DEF AccountsInv, CallsTyped
<1> QED
  BY <1>1, <1>3, IdleStep

LEMMA BootAndSeedKeeps ==
  ASSUME AccountsInv, BootAndSeed
  PROVE  AccountsInv'
<1>1. PICK n \in 1..3 : SeedDemoData(n)
  BY DEF BootAndSeed
<1>2. TablesTyped /\ OneAccount /\ DemoRows /\ OwnersAreEligible /\ KeysLead
  BY DEF AccountsInv, TablesOK
<1>3. UNCHANGED <<resources, keys, call>> /\ up' \in BOOLEAN
  BY <1>1 DEF SeedDemoData
<1>4. /\ users' \in [UserIds -> Subjects \cup {None}] /\ users'[DemoUser] = DemoSubject
      /\ \A u \in UserIds \ {DemoUser} : users'[u] = users[u] /\ users[u] # DemoSubject
  BY <1>1, <1>2, AccountsAssumption DEF SeedDemoData, TablesTyped, Accounts
<1>5. /\ verified' \in [UserIds -> Genders \cup {None}]
      /\ \A u \in UserIds : verified[u] # None => verified'[u] # None
  BY <1>1, <1>2, AccountsAssumption DEF SeedDemoData, TablesTyped
<1>6. /\ vehicles' \in [VehicleIds -> VehicleRow \cup {None}]
      /\ \A v \in VehicleIds \ {DemoVehicle} : vehicles'[v] = vehicles[v]
      /\ vehicles'[DemoVehicle] = vehicles[DemoVehicle]
           \/ (vehicles'[DemoVehicle] # None /\ vehicles'[DemoVehicle].owner = DemoUser)
  <2>1. /\ Vehicle(DemoUser, DemoPlate, 3) \in VehicleRow /\ Vehicle(DemoUser, DemoPlate, 3) # None
        /\ Vehicle(DemoUser, DemoPlate, 3).owner = DemoUser
    BY AccountsAssumption DEF Vehicle, VehicleRow
  <2>2. \/ vehicles' = vehicles
        \/ vehicles' = [vehicles EXCEPT ![DemoVehicle] = Vehicle(DemoUser, DemoPlate, 3)]
    BY <1>1 DEF SeedDemoData
  <2> QED
    BY <1>2, <2>1, <2>2, AccountsAssumption DEF TablesTyped
<1>7. Grow
  BY <1>2, <1>3, <1>4, <1>5, <1>6, AccountsAssumption DEF Grow, DemoRows
<1>8. TablesOK'
  <2>1. TablesTyped'
    BY <1>2, <1>3, <1>4, <1>5, <1>6 DEF TablesTyped
  <2>2. OneAccount'
    BY <1>2, <1>4 DEF OneAccount
  <2>3. DemoRows'
    BY <1>2, <1>4, <1>6 DEF DemoRows
  <2>4. OwnersAreEligible'
    <3>1. ASSUME NEW r \in ResourceIds, resources[r] # None
          PROVE  /\ resources[r].user \in UserIds
                 /\ resources[r].kind = "session" => resources[r].body.vehicle \in VehicleIds
      BY <1>2, <3>1 DEF TablesTyped, IsResource, Bodies, CreateKinds
    <3> QED
      BY <1>2, <1>3, <1>7, <3>1, AccountsAssumption DEF OwnersAreEligible, RiderEligible, Grow, TablesTyped
  <2>5. KeysLead'
    BY <1>2, <1>3 DEF KeysLead
  <2> QED
    BY <2>1, <2>2, <2>3, <2>4, <2>5 DEF TablesOK
<1>9. call' = [c \in Calls |-> Idle]
  <2>1. \A c \in Calls : call[c] = Idle
    BY DEF BootAndSeed, AccountsInv
  <2> QED
    BY <1>3, <2>1 DEF AccountsInv, CallsTyped
<1> QED
  BY <1>8, <1>9, IdleStep

LEMMA ServeKeeps ==
  ASSUME AccountsInv, NEW c \in Calls, Serve(c)
  PROVE  AccountsInv'
<1>1. CASE \E i \in Inputs : Arrive(c, i)
  BY <1>1, ArriveKeeps
<1>2. CASE Fail(c) \/ FindUser(c) \/ FindPlate(c) \/ Finish(c) \/ ReadMe(c)
  BY <1>2, FailKeeps, FindUserKeeps, FindPlateKeeps, FinishKeeps, ReadMeKeeps
<1>3. CASE LookupMisses(c) \/ LookupReplays(c) \/ LookupErrs(c) \/ CheckRider(c) \/ CheckDriver(c)
  BY <1>3, LookupMissesKeeps, LookupReplaysKeeps, LookupErrsKeeps, CheckRiderKeeps, CheckDriverKeeps
<1>4. CASE SaveUser(c) \/ SaveVerification(c) \/ SaveVehicle(c) \/ SaveResource(c) \/ SaveKey(c)
  BY <1>4, SaveUserKeeps, SaveVerificationKeeps, SaveVehicleKeeps, SaveResourceKeeps, SaveKeyKeeps
<1> QED
  BY <1>1, <1>2, <1>3, <1>4 DEF Serve

LEMMA StutterKeeps ==
  ASSUME AccountsInv, UNCHANGED vars
  PROVE  AccountsInv'
<1>1. TablesOK'
  BY Reading DEF vars, AccountsInv, TablesOK, TablesTyped
<1>2. Grow /\ call' = call /\ up' = up
  BY Reading DEF vars, AccountsInv, TablesOK, TablesTyped
<1>3. \A c \in Calls : Knows(c)'
  BY <1>2, KnowledgeStays
<1>4. CallsTyped' /\ (~up' => \A c \in Calls : call'[c] = Idle)
  BY <1>2 DEF AccountsInv, CallsTyped
<1> QED
  BY <1>1, <1>3, <1>4 DEF AccountsInv

LEMMA NextKeeps == AccountsInv /\ [Next]_vars => AccountsInv'
<1> SUFFICES ASSUME AccountsInv, [Next]_vars PROVE AccountsInv'
  OBVIOUS
<1>1. CASE Boot \/ BootAndSeed \/ Crash
  BY <1>1, BootKeeps, BootAndSeedKeeps, CrashKeeps
<1>2. CASE \E c \in Calls : Serve(c)
  BY <1>2, ServeKeeps
<1>3. CASE UNCHANGED vars
  BY <1>3, StutterKeeps
<1> QED
  BY <1>1, <1>2, <1>3 DEF Next, Step

-----------------------------------------------------------------------------
(* Theorems *)

\* The invariant that the others are read off: eligibility read by a request
\* survives until it saves, whatever the other requests and a crash do.
THEOREM AccountsInvariance == Spec => []AccountsInv
<1>1. Init => AccountsInv
  BY InitHolds
<1>2. AccountsInv /\ [Next]_vars => AccountsInv'
  BY NextKeeps
<1> QED
  BY <1>1, <1>2, PTL DEF Spec

\* Every table and every request in flight has its shape.
THEOREM AccountsTypes == Spec => []TypeOK
<1>1. ASSUME AccountsInv PROVE TypeOK
  <2>1. \A c \in Calls : IsCall(call[c])
    <3> TAKE c \in Calls
    <3>1. CASE call[c] = Idle
      BY <3>1 DEF IsCall
    <3>2. CASE call[c] # Idle
      BY <1>1, <3>2, CallShapes DEF IsCall, CallRow, AccountsInv
    <3> QED
      BY <3>1, <3>2
  <2> QED
    BY <1>1, <2>1 DEF AccountsInv, TablesOK, TablesTyped, CallsTyped, TypeOK
<1> QED
  BY <1>1, AccountsInvariance, PTL

\* Concurrent first sign-ins, bootstraps and demo seeds leave a person with one
\* account, and every request works for the account of its subject.
THEOREM SignInsAgreeAlways == Spec => []SignInsAgree
<1>1. AccountsInv => SignInsAgree
  BY DEF AccountsInv, TablesOK, OneAccount, Knows, SignInsAgree
<1> QED
  BY <1>1, AccountsInvariance, PTL

\* No order of sign-up, verification, failure, crash and retry gets around the
\* eligibility checks of TripDemandService.Create and DriverSessionService.Start.
THEOREM OwnersAlwaysEligible == Spec => []OwnersAreEligible
<1>1. AccountsInv => OwnersAreEligible
  BY DEF AccountsInv, TablesOK
<1> QED
  BY <1>1, AccountsInvariance, PTL

\* Whoever is answered, first or on a retry, is told of a stored row made from
\* just their input; a recorded key leads to one.
THEOREM AnswersAlwaysMatch == Spec => []AnswersMatch
<1>1. ASSUME AccountsInv PROVE AnswersMatch
  <2>1. ASSUME NEW c \in Calls, call[c].at \in {"finish", "done"}, call[c].input.kind \in CreateKinds
        PROVE  resources[call[c].answer] = Resource(c)
    <3>1. call[c] # Idle
      BY <2>1 DEF Idle
    <3> QED
      BY <1>1, <2>1, <3>1 DEF AccountsInv, Knows
  <2>2. \A k \in Keys : keys[k] # None =>
          resources[keys[k].resource] # None /\ resources[keys[k].resource].key = k
    BY <1>1 DEF AccountsInv, TablesOK, KeysLead
  <2> QED
    BY <2>1, <2>2 DEF AnswersMatch
<1> QED
  BY <1>1, AccountsInvariance, PTL

\* A person told to be ready stays eligible to ask for rides.
THEOREM ReadyAlwaysStays == Spec => []ReadyStays
<1>1. ASSUME AccountsInv PROVE ReadyStays
  <2>1. SUFFICES ASSUME NEW c \in Calls, call[c].at = "done", call[c].input.kind = "me", call[c].answer = "ready",
                        NEW u \in Accounts(call[c].input.subject)
                 PROVE  RiderEligible(u)
    BY DEF ReadyStays
  <2>2. call[c] # Idle
    BY <2>1 DEF Idle
  <2>3. call[c].input.subject # None
    BY <1>1, <2>2, CallShapes, InputShapes, AccountsAssumption DEF AccountsInv, CallRow
  <2>4. PICK v \in UserIds : users[v] = call[c].input.subject /\ verified[v] # None
    BY <1>1, <2>1, <2>2 DEF AccountsInv, Knows
  <2>5. u = v
    BY <1>1, <2>1, <2>3, <2>4 DEF AccountsInv, TablesOK, OneAccount, Accounts
  <2> QED
    BY <2>4, <2>5 DEF RiderEligible
<1> QED
  BY <1>1, AccountsInvariance, PTL

-----------------------------------------------------------------------------
(* Retries *)

\* A request whose key was recorded when it came goes past the lookup only blindly.
RepeatOK(c) == call[c] # Idle /\ call[c].repeat =>
  /\ call[c].input.key \in Keys /\ keys[call[c].input.key] # None
  /\ call[c].at \in {"check", "saveResource"} => call[c].blind

RepeatsInv == \A c \in Calls : RepeatOK(c)

KeysStay == \A k \in Keys : keys[k] # None => keys'[k] # None

LEMMA RecordsStay ==
  ASSUME AccountsInv, Step
  PROVE  KeysStay
<1>1. CASE UNCHANGED keys
  BY <1>1 DEF KeysStay
<1>2. ASSUME NEW c \in Calls, SaveKey(c) PROVE KeysStay
  <2>1. /\ call[c] \in CallRow /\ call[c] # Idle /\ Knows(c) /\ call[c].at = "saveKey"
        /\ call[c].input \in Inputs
    BY <1>2, AtRow DEF SaveKey, Steps
  <2>2. call[c].user \in UserIds /\ call[c].answer \in ResourceIds
    BY <2>1 DEF Knows, Creating, CallRow
  <2>3. [resource |-> call[c].answer, payload |-> Payload(c)] # None
    BY <2>1, <2>2, AccountsAssumption DEF Payload
  <2>4. DOMAIN keys = Keys
    BY DEF AccountsInv, TablesOK, TablesTyped
  <2>5. keys' = [keys EXCEPT ![call[c].input.key] = [resource |-> call[c].answer, payload |-> Payload(c)]]
    BY <1>2 DEF SaveKey
  <2> QED
    BY <2>3, <2>4, <2>5 DEF KeysStay
<1>3. UNCHANGED keys \/ \E c \in Calls : SaveKey(c)
  BY DEF Step, Serve, Boot, BootAndSeed, SeedDemoData, Crash, Arrive, Fail, FindUser, SaveUser, SaveVerification,
         FindPlate, SaveVehicle, LookupMisses, LookupReplays, LookupErrs, CheckRider, CheckDriver,
         SaveResource, Finish, ReadMe, tables
<1> QED
  BY <1>1, <1>2, <1>3

\* What a request that goes on takes along.
LEMMA GoingOn ==
  ASSUME AccountsInv, NEW c \in Calls, Serve(c), ~Fail(c), \A i \in Inputs : ~Arrive(c, i)
  PROVE  /\ call[c] \in CallRow /\ call[c] # Idle
         /\ call'[c].input = call[c].input /\ call'[c].repeat = call[c].repeat
         /\ \/ call'[c].at \notin {"check", "saveResource"}
            \/ call'[c].blind
            \/ call'[c].blind = call[c].blind /\ call[c].at = "check"
            \/ call[c].at = "lookup" /\ keys[call[c].input.key] = None
<1>1. PICK step \in Steps : At(c, step)
  BY DEF Serve, FindUser, SaveUser, SaveVerification, FindPlate, SaveVehicle, LookupMisses, LookupReplays,
         LookupErrs, CheckRider, CheckDriver, SaveResource, SaveKey, Finish, ReadMe, Steps
<1>2. call[c] \in CallRow /\ call[c] # Idle
  BY <1>1, AtRow
<1>3. call \in [Calls -> {Idle} \cup CallRow]
  BY DEF AccountsInv, CallsTyped
<1>4. CASE FindUser(c) \/ SaveUser(c) \/ SaveVerification(c) \/ FindPlate(c) \/ SaveVehicle(c)
  BY <1>2, <1>3, <1>4 DEF FindUser, SaveUser, SaveVerification, FindPlate, SaveVehicle, AfterUser, Goto, CallRow
<1>5. CASE LookupMisses(c) \/ LookupReplays(c) \/ LookupErrs(c) \/ CheckRider(c) \/ CheckDriver(c)
  BY <1>2, <1>3, <1>5 DEF LookupMisses, LookupReplays, LookupErrs, CheckRider, CheckDriver, Goto, At, CallRow
<1>6. CASE SaveResource(c) \/ SaveKey(c) \/ Finish(c) \/ ReadMe(c)
  BY <1>2, <1>3, <1>6 DEF SaveResource, SaveKey, Finish, ReadMe, Goto, CallRow
<1> QED
  BY <1>2, <1>4, <1>5, <1>6 DEF Serve

LEMMA OthersStay ==
  ASSUME AccountsInv, NEW c \in Calls, Serve(c), NEW d \in Calls, d # c
  PROVE  call'[d] = call[d]
<1>1. call \in [Calls -> {Idle} \cup CallRow]
  BY DEF AccountsInv, CallsTyped
<1>2. CASE (\E i \in Inputs : Arrive(c, i)) \/ Fail(c) \/ FindUser(c) \/ SaveUser(c) \/ SaveVerification(c) \/ FindPlate(c)
  BY <1>1, <1>2 DEF Arrive, Fail, FindUser, SaveUser, SaveVerification, FindPlate, Goto
<1>3. CASE SaveVehicle(c) \/ LookupMisses(c) \/ LookupReplays(c) \/ LookupErrs(c) \/ CheckRider(c) \/ CheckDriver(c)
  BY <1>1, <1>3 DEF SaveVehicle, LookupMisses, LookupReplays, LookupErrs, CheckRider, CheckDriver, Goto
<1>4. CASE SaveResource(c) \/ SaveKey(c) \/ Finish(c) \/ ReadMe(c)
  BY <1>1, <1>4 DEF SaveResource, SaveKey, Finish, ReadMe, Goto
<1> QED
  BY <1>2, <1>3, <1>4 DEF Serve

LEMMA RepeatsKeep ==
  ASSUME AccountsInv, RepeatsInv, [Next]_vars
  PROVE  RepeatsInv'
<1>1. CASE UNCHANGED vars
  BY <1>1 DEF RepeatsInv, RepeatOK, vars, tables
<1>2. CASE Boot \/ BootAndSeed \/ Crash
  <2>1. UNCHANGED <<keys, call>> \/ \A c \in Calls : call'[c] = Idle
    BY <1>2 DEF Boot, BootAndSeed, SeedDemoData, Crash, tables
  <2> QED
    BY <2>1 DEF RepeatsInv, RepeatOK
<1>3. ASSUME NEW c \in Calls, Serve(c), NEW d \in Calls PROVE RepeatOK(d)'
  <2>1. KeysStay
    BY <1>3, RecordsStay DEF Step
  <2>2. CASE d # c
    BY <1>3, <2>1, <2>2, OthersStay DEF RepeatsInv, RepeatOK, KeysStay
  <2>3. CASE d = c /\ Fail(c)
    BY <2>3 DEF Fail, RepeatOK, AccountsInv, CallsTyped
  <2>4. ASSUME d = c, NEW i \in Inputs, Arrive(c, i) PROVE RepeatOK(d)'
    <3>1. PICK u \in Resolved(i.subject) : call' = [call EXCEPT ![c] =
            [at |-> Entry(i), input |-> i, user |-> u, answer |-> None,
             repeat |-> i.key # None /\ keys[i.key] # None, blind |-> FALSE]]
      BY <2>4 DEF Arrive
    <3>2. call'[c] = [at |-> Entry(i), input |-> i, user |-> u, answer |-> None,
                      repeat |-> i.key # None /\ keys[i.key] # None, blind |-> FALSE]
      BY <3>1 DEF AccountsInv, CallsTyped
    <3>3. i.key # None => Entry(i) \notin {"check", "saveResource"} /\ i.key \in Keys
      BY InputShapes DEF Entry, Kinds, CreateKinds
    <3>4. keys' = keys
      BY <2>4 DEF Arrive, tables
    <3>6. call'[c].input = i /\ call'[c].at = Entry(i)
      BY <3>2
    <3>7. call'[c].repeat = (i.key # None /\ keys[i.key] # None)
      BY <3>2
    <3>5. /\ call'[c].input = i /\ call'[c].at = Entry(i)
          /\ call'[c].repeat => i.key # None /\ keys[i.key] # None
      BY <3>6, <3>7
    <3> QED
      BY <2>4, <3>3, <3>4, <3>5 DEF RepeatOK
  <2>5. CASE d = c /\ ~Fail(c) /\ \A i \in Inputs : ~Arrive(c, i)
    BY <1>3, <2>1, <2>5, GoingOn DEF RepeatsInv, RepeatOK, KeysStay
  <2> QED
    BY <2>2, <2>3, <2>4, <2>5
<1> QED
  BY <1>1, <1>2, <1>3 DEF Next, Step, RepeatsInv

\* A retry sent after the key was recorded creates nothing, unless its lookup
\* failed and Create or Start took that for nothing recorded.
THEOREM RetriesAlwaysMakeNothing == Spec => RetriesMakeNothing
<1>1. Init => RepeatsInv
  BY DEF Init, RepeatsInv, RepeatOK
<1>2. AccountsInv /\ RepeatsInv /\ [Next]_vars => RepeatsInv'
  BY RepeatsKeep
<1>3. AccountsInv /\ RepeatsInv /\ [Next]_vars =>
        [\A c \in Calls : call[c].at = "saveResource" /\ call'[c].at \in {"saveKey", "finish"} =>
           ~call[c].repeat \/ call[c].blind]_vars
  BY DEF RepeatsInv, RepeatOK, Idle
<1> QED
  BY <1>1, <1>2, <1>3, AccountsInvariance, PTL DEF Spec, RetriesMakeNothing

-----------------------------------------------------------------------------
(* Rides among women *)

\* What CheckRider has found of a request for women drivers only stays found.
MayAsk(c) ==
  call[c].at = "saveResource" /\ call[c].input.kind = "demand" /\ call[c].input.body.women
    => call[c].user \in women

WomenInv ==
  /\ \A u \in UserIds : verified[u] = "female" => u \in women
  /\ \A c \in Calls : MayAsk(c)
  /\ WomenAskForWomen

\* A step of a request to its saveResource is one of the two checks.
LEMMA ChecksDecide ==
  ASSUME AccountsInv, NEW c \in Calls, Serve(c), call'[c].at = "saveResource"
  PROVE  /\ CheckRider(c) \/ CheckDriver(c)
         /\ call'[c] = [call[c] EXCEPT !.at = "saveResource"]
         /\ call[c].user \in UserIds \cup {None}
<1>1. call \in [Calls -> {Idle} \cup CallRow]
  BY DEF AccountsInv, CallsTyped
<1>2. ASSUME NEW i \in Inputs, Arrive(c, i) PROVE FALSE
  <2>1. call'[c].at = Entry(i)
    BY <1>1, <1>2 DEF Arrive
  <2> QED
    BY <2>1, InputShapes DEF Entry, Kinds, CreateKinds
<1>3. CASE Fail(c)
  BY <1>1, <1>3 DEF Fail, Idle
<1>4. CASE ~Fail(c) /\ \A i \in Inputs : ~Arrive(c, i)
  <2>1. call[c] \in CallRow
    BY <1>4, GoingOn
  <2>2. CASE FindUser(c) \/ SaveUser(c) \/ SaveVerification(c) \/ FindPlate(c) \/ SaveVehicle(c)
    BY <1>1, <2>1, <2>2 DEF FindUser, SaveUser, SaveVerification, FindPlate, SaveVehicle, AfterUser, Goto, CallRow
  <2>3. CASE LookupMisses(c) \/ LookupReplays(c) \/ LookupErrs(c)
    BY <1>1, <2>1, <2>3 DEF LookupMisses, LookupReplays, LookupErrs, Goto, CallRow
  <2>4. CASE SaveResource(c) \/ SaveKey(c) \/ Finish(c) \/ ReadMe(c)
    BY <1>1, <2>1, <2>4 DEF SaveResource, SaveKey, Finish, ReadMe, Goto, CallRow
  <2>5. CASE CheckRider(c) \/ CheckDriver(c)
    BY <1>1, <2>1, <2>5 DEF CheckRider, CheckDriver, Goto, CallRow
  <2> QED
    BY <1>4, <2>2, <2>3, <2>4, <2>5 DEF Serve
<1> QED
  BY <1>2, <1>3, <1>4

\* A new demand is the one its request was checked for.
LEMMA DemandsAreChecked ==
  ASSUME AccountsInv, WomenInv, NEW c \in Calls, SaveResource(c), women \subseteq women'
  PROVE  WomenAskForWomen'
<1>1. call[c].at = "saveResource" /\ MayAsk(c)
  BY DEF SaveResource, At, WomenInv
<1>2. PICK new \in NewIds(resources) : resources' = [resources EXCEPT ![new] = Resource(c)]
  BY DEF SaveResource
<1>3. DOMAIN resources = ResourceIds
  BY DEF AccountsInv, TablesOK, TablesTyped
<1>4. ASSUME NEW r \in ResourceIds, resources'[r] # None, resources'[r].kind = "demand", resources'[r].body.women
      PROVE  resources'[r].user \in women'
  <2>1. CASE r = new
    <3>1. resources'[r] = Resource(c)
      BY <1>2, <1>3, <2>1
    <3>2. /\ Resource(c).kind = call[c].input.kind /\ Resource(c).body = call[c].input.body
          /\ Resource(c).user = call[c].user
      BY DEF Resource
    <3> QED
      BY <1>1, <1>4, <3>1, <3>2 DEF MayAsk
  <2>2. CASE r # new
    BY <1>2, <1>3, <1>4, <2>2 DEF WomenInv, WomenAskForWomen
  <2> QED
    BY <2>1, <2>2
<1> QED
  BY <1>4 DEF WomenAskForWomen

LEMMA WomenKeep ==
  ASSUME AccountsInv, WomenInv, [Next]_vars
  PROVE  WomenInv'
<1>1. CASE UNCHANGED vars
  BY <1>1 DEF WomenInv, MayAsk, WomenAskForWomen, vars, tables
<1>2. CASE Next
  <2>1. women \subseteq women' /\ \A u \in UserIds : verified'[u] = "female" => u \in women'
    BY <1>2 DEF Next
  <2>2. CASE Boot \/ BootAndSeed \/ Crash
    <3>1. resources' = resources /\ (call' = call \/ call' = [c \in Calls |-> Idle])
      BY <2>2 DEF Boot, BootAndSeed, SeedDemoData, Crash, tables
    <3>2. \A c \in Calls : MayAsk(c)'
      BY <2>1, <3>1 DEF WomenInv, MayAsk, Idle
    <3> QED
      BY <2>1, <3>1, <3>2 DEF WomenInv, WomenAskForWomen
  <2>3. ASSUME NEW c \in Calls, Serve(c) PROVE WomenInv'
    <3>1. WomenAskForWomen'
      <4>1. CASE SaveResource(c)
        BY <2>1, <4>1, DemandsAreChecked
      <4>2. CASE ~SaveResource(c)
        <5>1. resources' = resources
          BY <2>3, <4>2 DEF Serve, Arrive, Fail, FindUser, SaveUser, SaveVerification, FindPlate, SaveVehicle,
             LookupMisses, LookupReplays, LookupErrs, CheckRider, CheckDriver, SaveKey, Finish, ReadMe, tables
        <5> QED
          BY <2>1, <5>1 DEF WomenInv, WomenAskForWomen
      <4> QED
        BY <4>1, <4>2
    <3>2. ASSUME NEW d \in Calls PROVE MayAsk(d)'
      <4>1. CASE d # c
        <5>1. call'[d] = call[d] /\ MayAsk(d)
          BY <2>3, <4>1, OthersStay DEF WomenInv
        <5> QED
          BY <2>1, <5>1 DEF MayAsk
      <4>2. CASE d = c /\ call'[c].at = "saveResource"
        <5>1. CheckRider(c) \/ CheckDriver(c)
          BY <2>3, <4>2, ChecksDecide
        <5>2. call'[c] = [call[c] EXCEPT !.at = "saveResource"]
          BY <2>3, <4>2, ChecksDecide
        <5>3. call[c] \in CallRow /\ call[c].at = "check" /\ Knows(c) /\ call[c] # Idle
          BY <5>1, AtRow DEF CheckRider, CheckDriver, Steps
        <5>4. call'[c].input = call[c].input /\ call'[c].user = call[c].user
          BY <5>2, <5>3 DEF CallRow
        <5>5. call[c].user \in UserIds
          BY <5>3 DEF Knows, Creating, CallRow
        <5>6. call[c].input.kind = "demand" /\ call[c].input.body.women => verified[call[c].user] = "female"
          BY <5>1 DEF CheckRider, CheckDriver
        <5> QED
          BY <2>1, <4>2, <5>4, <5>5, <5>6 DEF MayAsk, WomenInv
      <4>3. CASE d = c /\ call'[c].at # "saveResource"
        BY <4>3 DEF MayAsk
      <4> QED
        BY <4>1, <4>2, <4>3
    <3> QED
      BY <2>1, <3>1, <3>2 DEF WomenInv
  <2> QED
    BY <1>2, <2>2, <2>3 DEF Next, Step
<1> QED
  BY <1>1, <1>2

\* Whatever bootstraps overwrite while a demand is created, women drivers only
\* are asked for by people whom Create has seen verified as women.
THEOREM OnlyWomenAskForWomen == Spec => []WomenAskForWomen
<1>1. Init => WomenInv
  BY AccountsAssumption DEF Init, WomenInv, MayAsk, WomenAskForWomen, Idle
<1>2. AccountsInv /\ WomenInv /\ [Next]_vars => WomenInv'
  BY WomenKeep
<1>3. WomenInv => WomenAskForWomen
  BY DEF WomenInv
<1> QED
  BY <1>1, <1>2, <1>3, AccountsInvariance, PTL DEF Spec

-----------------------------------------------------------------------------
(* Refinement of Membership *)

\* The set either stays or gains p, when only p can enter and p cannot leave.
LEMMA Gains ==
  ASSUME NEW S, NEW T, NEW p, \A s : s # p => (s \in S <=> s \in T), p \in S => p \in T
  PROVE  T \in {S, S \cup {p}}
<1>1. CASE p \in S \/ p \notin T
  <2>1. T = S
    BY <1>1
  <2> QED BY <2>1
<1>2. CASE p \notin S /\ p \in T
  <2>1. T = S \cup {p}
    BY <1>2
  <2> QED BY <2>1
<1> QED BY <1>1, <1>2

\* A statement about the rows of one user is a step of that person.
LEMMA OnePersonMoves ==
  ASSUME TablesOK, TablesOK', resources' = resources,
         NEW u \in UserIds, NEW p \in Subjects, users[u] \in {None, p}, users'[u] = p,
         \A w \in UserIds \ {u} : users'[w] = users[w] /\ verified'[w] = verified[w],
         verified[u] # None => verified'[u] # None,
         \A v \in VehicleIds :
           \/ vehicles'[v] = vehicles[v]
           \/ /\ vehicles[v] = None \/ vehicles[v].owner = u
              /\ vehicles'[v] # None /\ vehicles'[v].owner = u
  PROVE  Standing!Enroll(p)
<1>1. p # None
  BY AccountsAssumption
<1>2. ASSUME NEW s \in Subjects, s # p
      PROVE  Accounts(s)' = Accounts(s) /\ u \notin Accounts(s)
  BY <1>1, <1>2, AccountsAssumption DEF Accounts
<1>3. u \in Accounts(p)' /\ Accounts(p) \subseteq Accounts(p)'
  BY DEF Accounts
<1>4. Members' = Members \cup {p}
  <2>1. \A s \in Subjects \ {p} : s \in Members' <=> s \in Members
    BY <1>2 DEF Members
  <2>2. p \in Members'
    BY <1>3 DEF Members
  <2> QED BY <2>1, <2>2 DEF Members
<1>5. VerifiedPeople' \in {VerifiedPeople, VerifiedPeople \cup {p}}
  <2>1. ASSUME NEW s, s # p PROVE s \in VerifiedPeople <=> s \in VerifiedPeople'
    <3>1. SUFFICES ASSUME s \in Subjects PROVE s \in VerifiedPeople <=> s \in VerifiedPeople'
      BY DEF VerifiedPeople
    <3>2. \A w \in Accounts(s) : w \in UserIds \ {u}
      BY <1>2, <2>1, <3>1 DEF Accounts
    <3> QED BY <1>2, <2>1, <3>2 DEF VerifiedPeople
  <2>2. p \in VerifiedPeople => p \in VerifiedPeople'
    <3>1. \A w \in Accounts(p) : verified[w] # None => verified'[w] # None
      BY DEF Accounts
    <3> QED BY <1>3, <3>1 DEF VerifiedPeople
  <2>3. PICK T : T = VerifiedPeople'
    OBVIOUS
  <2> QED BY <2>1, <2>2, <2>3, Gains
<1>6. VehicleOwners' \in {VehicleOwners, VehicleOwners \cup {p}}
  <2>1. ASSUME NEW w \in UserIds, w # u PROVE VehiclesOf(w)' = VehiclesOf(w)
    BY <2>1 DEF VehiclesOf
  <2>2. VehiclesOf(u) \subseteq VehiclesOf(u)'
    BY DEF VehiclesOf
  <2>3. ASSUME NEW s, s # p PROVE s \in VehicleOwners <=> s \in VehicleOwners'
    <3>1. SUFFICES ASSUME s \in Subjects PROVE s \in VehicleOwners <=> s \in VehicleOwners'
      BY DEF VehicleOwners
    <3>2. \A w \in Accounts(s) : w \in UserIds /\ w # u
      BY <1>2, <2>3, <3>1 DEF Accounts
    <3>3. \A w \in Accounts(s) : VehiclesOf(w)' = VehiclesOf(w)
      BY <2>1, <3>2
    <3> QED BY <1>2, <2>3, <3>1, <3>3 DEF VehicleOwners
  <2>4. p \in VehicleOwners => p \in VehicleOwners'
    <3>1. \A w \in Accounts(p) : VehiclesOf(w) # {} => VehiclesOf(w)' # {}
      BY <2>1, <2>2 DEF Accounts
    <3> QED BY <1>3, <3>1 DEF VehicleOwners
  <2>5. PICK T : T = VehicleOwners'
    OBVIOUS
  <2> QED BY <2>3, <2>4, <2>5, Gains
<1>7. Made' = Made
  <2>1. ASSUME NEW r \in ResourceIds, resources[r] # None
        PROVE  users'[resources[r].user] = users[resources[r].user]
    BY <2>1 DEF TablesOK, TablesTyped, IsResource, OwnersAreEligible
  <2> QED BY <2>1 DEF Made
<1> QED BY <1>4, <1>5, <1>6, <1>7 DEF Standing!Enroll

\* A request sees to the account it was authenticated for.
LEMMA SignUpMoves ==
  ASSUME AccountsInv, NEW c \in Calls, SaveUser(c) \/ SaveVerification(c) \/ SaveVehicle(c)
  PROVE  \E p \in Subjects : Standing!Enroll(p)
<1>1. AccountsInv'
  BY SaveUserKeeps, SaveVerificationKeeps, SaveVehicleKeeps
<1>2. TablesOK /\ TablesOK' /\ resources' = resources
  BY <1>1 DEF AccountsInv, SaveUser, SaveVerification, SaveVehicle
<1>3. PICK step \in {"saveUser", "saveVerification", "saveVehicle"} : At(c, step)
  BY DEF SaveUser, SaveVerification, SaveVehicle
<1>4. /\ call[c] \in CallRow /\ call[c] # Idle /\ call[c].at = step /\ Knows(c)
      /\ call[c].input \in Inputs /\ call[c].user \in UserIds \cup {None}
  BY <1>3, AtRow DEF Steps
<1>5. PICK p \in Subjects : p = call[c].input.subject
  BY <1>4, InputShapes
<1>6. p # None
  BY AccountsAssumption
<1>7. CASE SaveUser(c)
  <2>1. PICK u \in (IF call[c].user = None THEN NewIds(users) ELSE {call[c].user}) :
          users' = [users EXCEPT ![u] = p]
    BY <1>5, <1>7 DEF SaveUser
  <2>2. u \in UserIds /\ users[u] \in {None, p}
    BY <1>2, <1>4, <1>5, <2>1 DEF NewIds, Knows, TablesOK, TablesTyped
  <2>3. users'[u] = p /\ \A w \in UserIds \ {u} : users'[w] = users[w]
    BY <1>2, <2>1, <2>2 DEF TablesOK, TablesTyped
  <2>4. verified' = verified /\ vehicles' = vehicles
    BY <1>7 DEF SaveUser
  <2> QED BY <1>2, <2>2, <2>3, <2>4, OnePersonMoves
<1>8. CASE SaveVerification(c)
  <2>1. PICK u : u = call[c].user
    OBVIOUS
  <2>2. u \in UserIds /\ users[u] = p /\ call[c].input.kind = "bootstrap"
    <3>1. call[c].at = "saveVerification"
      BY <1>8 DEF SaveVerification, At
    <3> QED BY <1>4, <1>5, <2>1, <3>1 DEF Knows
  <2>3. PICK g : g = call[c].input.body.gender
    OBVIOUS
  <2>4. g # None
    BY <1>4, <2>2, <2>3, InputShapes, AccountsAssumption
  <2>5. verified' = [verified EXCEPT ![u] = g] /\ users' = users /\ vehicles' = vehicles
    BY <1>8, <2>1, <2>3 DEF SaveVerification
  <2>6. verified'[u] # None /\ \A w \in UserIds \ {u} : verified'[w] = verified[w]
    BY <1>2, <2>2, <2>4, <2>5 DEF TablesOK, TablesTyped
  <2> QED BY <1>2, <2>2, <2>5, <2>6, OnePersonMoves
<1>9. CASE SaveVehicle(c)
  <2>1. PICK u : u = call[c].user
    OBVIOUS
  <2>2. u \in UserIds /\ users[u] = p
    <3>1. call[c].at = "saveVehicle"
      BY <1>9 DEF SaveVehicle, At
    <3> QED BY <1>4, <1>5, <2>1, <3>1 DEF Knows
  <2>3. PICK row : row = Vehicle(u, call[c].input.body.plate, call[c].input.body.capacity)
    OBVIOUS
  <2>4. PICK v \in NewIds(vehicles) : vehicles' = [vehicles EXCEPT ![v] = row]
    BY <1>9, <2>1, <2>3 DEF SaveVehicle
  <2>5. v \in VehicleIds /\ vehicles[v] = None /\ row.owner = u
    BY <1>2, <2>3, <2>4 DEF NewIds, Vehicle, TablesOK, TablesTyped
  <2>6. users' = users /\ verified' = verified
    BY <1>9 DEF SaveVehicle
  <2>7. \A w \in VehicleIds : vehicles'[w] = vehicles[w]
                             \/ (vehicles[w] = None /\ vehicles'[w] # None /\ vehicles'[w].owner = u)
    BY <1>2, <2>4, <2>5 DEF TablesOK, TablesTyped
  <2> QED BY <1>2, <2>2, <2>6, <2>7, OnePersonMoves
<1> QED BY <1>7, <1>8, <1>9

LEMMA SeedMoves ==
  ASSUME AccountsInv, BootAndSeed
  PROVE  Standing!Enroll(DemoSubject)
<1>1. AccountsInv'
  BY BootAndSeedKeeps
<1>2. TablesOK /\ TablesOK'
  BY <1>1 DEF AccountsInv
<1>3. PICK n \in 1..3 : SeedDemoData(n)
  BY DEF BootAndSeed
<1>4. PICK row : row = Vehicle(DemoUser, DemoPlate, 3)
  OBVIOUS
<1>5. row.owner = DemoUser /\ row # None /\ DemoUser \in UserIds /\ DemoSubject \in Subjects
      /\ DemoVehicle \in VehicleIds /\ "female" # None
  BY <1>4, AccountsAssumption DEF Vehicle
<1>6. users' = [users EXCEPT ![DemoUser] = DemoSubject] /\ resources' = resources
  BY <1>3 DEF SeedDemoData
<1>7. verified' = verified \/ verified' = [verified EXCEPT ![DemoUser] = "female"]
  BY <1>3 DEF SeedDemoData
<1>8. vehicles' = vehicles \/ vehicles' = [vehicles EXCEPT ![DemoVehicle] = row]
  BY <1>3, <1>4 DEF SeedDemoData
<1>9. users[DemoUser] \in {None, DemoSubject} /\ users'[DemoUser] = DemoSubject
      /\ \A w \in UserIds \ {DemoUser} : users'[w] = users[w]
  BY <1>2, <1>5, <1>6 DEF TablesOK, TablesTyped, DemoRows
<1>10. (verified[DemoUser] # None => verified'[DemoUser] # None)
       /\ \A w \in UserIds \ {DemoUser} : verified'[w] = verified[w]
  BY <1>2, <1>5, <1>7 DEF TablesOK, TablesTyped
<1>11. \A v \in VehicleIds :
         \/ vehicles'[v] = vehicles[v]
         \/ /\ vehicles[v] = None \/ vehicles[v].owner = DemoUser
            /\ vehicles'[v] # None /\ vehicles'[v].owner = DemoUser
  BY <1>2, <1>5, <1>8 DEF TablesOK, TablesTyped, DemoRows
<1> QED BY <1>2, <1>5, <1>6, <1>9, <1>10, <1>11, OnePersonMoves

\* A demand or a session is made by whom it is for, eligible still.
LEMMA SaveResourceMoves ==
  ASSUME AccountsInv, NEW c \in Calls, SaveResource(c)
  PROVE  \E p \in Subjects, id \in ResourceIds, kind \in {"demand", "session"} : Standing!Make(id, kind, p)
<1>1. /\ call[c] \in CallRow /\ call[c] # Idle /\ call[c].at = "saveResource" /\ Knows(c)
      /\ call[c].input \in Inputs /\ call[c].user \in UserIds \cup {None}
  BY AtRow DEF SaveResource, Steps
<1>2. TablesTyped /\ OwnersAreEligible
  BY DEF AccountsInv, TablesOK
<1>3. PICK p \in Subjects : p = call[c].input.subject
  BY <1>1, InputShapes
<1>4. PICK kind : kind = call[c].input.kind
  OBVIOUS
<1>5. PICK u : u = call[c].user
  OBVIOUS
<1>6. /\ u \in UserIds /\ users[u] = p /\ kind \in {"demand", "session"}
      /\ Eligible(kind, u, call[c].input.body)
  BY <1>1, <1>3, <1>4, <1>5 DEF Knows, Creating, CreateKinds
<1>7. PICK r \in NewIds(resources) : resources' = [resources EXCEPT ![r] = Resource(c)]
  BY DEF SaveResource
<1>8. r \in ResourceIds /\ resources[r] = None /\ UNCHANGED <<users, verified, vehicles>>
  BY <1>2, <1>7 DEF NewIds, SaveResource, TablesTyped
<1>9. p \in Members /\ p \in VerifiedPeople /\ (kind = "session" => p \in VehicleOwners)
  <2>1. u \in Accounts(p)
    BY <1>6 DEF Accounts
  <2>2. verified[u] # None /\ (kind = "session" => VehiclesOf(u) # {})
    BY <1>6 DEF Eligible, VehiclesOf
  <2> QED BY <2>1, <2>2 DEF Members, VerifiedPeople, VehicleOwners
<1>10. \A m \in Made : m.id # r
  BY <1>8 DEF Made
<1>11. Made' = Made \cup {[id |-> r, kind |-> kind, by |-> p]}
  <2>1. Resource(c) # None /\ Resource(c).kind = kind /\ Resource(c).user = u
    <3>1. Resource(c) = [kind |-> kind, user |-> u, key |-> call[c].input.key, body |-> call[c].input.body]
      BY <1>4, <1>5 DEF Resource
    <3>2. [kind |-> kind, user |-> u, key |-> call[c].input.key, body |-> call[c].input.body] # None
      BY <1>1, <1>4, <1>6, AccountsAssumption
    <3> QED BY <3>1, <3>2
  <2>2. resources'[r] = Resource(c) /\ \A x \in ResourceIds \ {r} : resources'[x] = resources[x]
    BY <1>2, <1>7, <1>8 DEF TablesTyped
  <2>3. users' = users
    BY <1>8
  <2> DEFINE Row(x) == [id |-> x, kind |-> resources[x].kind, by |-> users[resources[x].user]]
  <2>4. Row(r)' = [id |-> r, kind |-> kind, by |-> p] /\ \A x \in ResourceIds \ {r} : Row(x)' = Row(x)
    BY <1>6, <2>1, <2>2, <2>3
  <2>5. Made = {Row(x) : x \in {y \in ResourceIds : resources[y] # None}}
    BY DEF Made
  <2>6. Made' = {Row(x)' : x \in {y \in ResourceIds : resources'[y] # None}}
    BY DEF Made
  <2> HIDE DEF Row
  <2> QED BY <1>8, <2>1, <2>2, <2>4, <2>5, <2>6
<1>12. Members' = Members /\ VerifiedPeople' = VerifiedPeople /\ VehicleOwners' = VehicleOwners
  BY <1>8 DEF Members, VerifiedPeople, VehicleOwners, Accounts, VehiclesOf
<1>13. Standing!Make(r, kind, p)
  BY <1>9, <1>10, <1>11, <1>12 DEF Standing!Make
<1> QED BY <1>6, <1>8, <1>13

LEMMA NobodyMoves ==
  ASSUME UNCHANGED <<users, verified, vehicles, resources>>
  PROVE  UNCHANGED Standing!standing
  BY DEF Standing!standing, Members, VerifiedPeople, VehicleOwners, Made, Accounts, VehiclesOf

\* Statement by statement, with retries and crashes, accounts keep Membership:
\* nobody loses what they have, one step is about one person, and a demand or a
\* session is made only for somebody who is eligible when its row is saved.
THEOREM AccountsKeepMembership == Spec => KeepsMembership
<1>1. Init => Standing!Init
  BY AccountsAssumption DEF Init, Standing!Init, Members, VerifiedPeople, VehicleOwners, Made, Accounts
<1>2. AccountsInv /\ [Next]_vars => [Standing!Next]_(Standing!standing)
  <2> SUFFICES ASSUME AccountsInv, [Next]_vars PROVE Standing!Next \/ UNCHANGED Standing!standing
    OBVIOUS
  <2>1. CASE UNCHANGED vars \/ Boot \/ Crash
    BY <2>1, NobodyMoves DEF vars, Boot, Crash, tables
  <2>2. CASE BootAndSeed
    BY <2>2, SeedMoves, AccountsAssumption DEF Standing!Next
  <2>3. ASSUME NEW c \in Calls, Serve(c) PROVE Standing!Next \/ UNCHANGED Standing!standing
    <3>1. CASE SaveUser(c) \/ SaveVerification(c) \/ SaveVehicle(c)
      BY <3>1, SignUpMoves DEF Standing!Next
    <3>2. CASE SaveResource(c)
      BY <3>2, SaveResourceMoves DEF Standing!Next
    <3>3. CASE ~(SaveUser(c) \/ SaveVerification(c) \/ SaveVehicle(c) \/ SaveResource(c))
      BY <2>3, <3>3, NobodyMoves
      DEF Serve, Arrive, Fail, FindUser, FindPlate, LookupMisses, LookupReplays, LookupErrs, CheckRider,
          CheckDriver, SaveKey, Finish, ReadMe, tables
    <3> QED BY <3>1, <3>2, <3>3
  <2> QED BY <2>1, <2>2, <2>3 DEF Next, Step
<1> QED BY <1>1, <1>2, AccountsInvariance, PTL DEF Spec, KeepsMembership, Standing!Spec

=============================================================================
