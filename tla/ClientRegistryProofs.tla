------------------------- MODULE ClientRegistryProofs -------------------------
(***************************************************************************)
(* Proofs about ClientRegistry, for every set of clients, names, forms and  *)
(* slots, and with no bound on the number of events.                        *)
(***************************************************************************)
EXTENDS ClientRegistry, TLAPS

-----------------------------------------------------------------------------
(* Types.                                                                   *)

LEMMA FormTypes ==
    /\ NoForm \in AnyForm
    /\ \A f \in Form : f \in AnyForm /\ f.id \in ClientId
                       /\ f.name \in DisplayName /\ EffectiveType(f) \in Types
    /\ \A id \in ClientId : [NoForm EXCEPT !.id = id] \in AnyForm
    /\ \A id \in ClientId : [NoForm EXCEPT !.id = id].id = id
BY FormAssumption DEF NoForm, AnyForm, ValidForm, EffectiveType, Types

LEMMA InitTypeOK == Init => TypeOK
<1> SUFFICES ASSUME Init PROVE TypeOK
  OBVIOUS
<1>1. IdleRequest \in RequestState
  BY FormTypes DEF IdleRequest, RequestState
<1>2. IdlePass \in PassState /\ NewPass(config, TRUE) \in PassState
  BY DEF Init, IdlePass, NewPass, PassState
<1>3. req \in [Request -> RequestState] /\ pass \in [Pass -> PassState]
  BY <1>1, <1>2 DEF Init
<1>6. /\ apps = {} /\ tokens = {} /\ nextOid = 1 /\ config \in SUBSET ClientId
      /\ indexer = "check" /\ events = 0
  BY Zenon DEF Init
<1>4. StateTyped
  BY <1>3, <1>6 DEF StateTyped
<1>5. FlagsTyped
  BY Zenon DEF Init, FlagsTyped
<1> QED
  BY <1>4, <1>5 DEF TypeOK

(* What the type invariant does not say of a request: its operation, its    *)
(* form and its program counter go together.                                *)
RequestShape(q) ==
    /\ q.op \in {"add", "update"} => q.form \in Form
    /\ q.op = "delete" => q.form.id \in ClientId
    /\ q.pc \in {"find", "validate", "insert"} => q.op = "add"
    /\ q.pc = "update" => q.op = "update"
    /\ q.pc \in {"locate", "remove", "purge"} => q.op = "delete"
    /\ q.pc # "off" => q.result = "none"

(* ... and of a pass: what it is about to insert is still on its list.      *)
PassShape(q) ==
    /\ q.pc = "insert" => q.pick \in q.todo
    /\ q.pc # "off" => q.result = "none"

Shapes ==
    /\ \A r \in Request : RequestShape(req[r])
    /\ \A p \in Pass : PassShape(pass[p])

Typed == TypeOK /\ Shapes

LEMMA RequestAssigned ==
    ASSUME Typed, NEW r \in Request, NEW q \in RequestState, RequestShape(q),
           req' = [req EXCEPT ![r] = q]
    PROVE  /\ req' \in [Request -> RequestState]
           /\ req'[r] = q
           /\ \A s \in Request : s # r => req'[s] = req[s]
           /\ \A s \in Request : RequestShape(req'[s])
BY DEF Typed, TypeOK, StateTyped, Shapes

LEMMA PassAssigned ==
    ASSUME Typed, NEW p \in Pass, NEW q \in PassState, PassShape(q),
           pass' = [pass EXCEPT ![p] = q]
    PROVE  /\ pass' \in [Pass -> PassState]
           /\ pass'[p] = q
           /\ \A s \in Pass : s # p => pass'[s] = pass[s]
           /\ \A s \in Pass : PassShape(pass'[s])
BY DEF Typed, TypeOK, StateTyped, Shapes

(* What any step does to the collections.                                   *)
InsertStep == \E id \in ClientId, name \in DisplayName, type \in Types, secret \in BOOLEAN :
                 MayInsert(id) /\ Insert(id, name, type, secret)

AmendStep == \E a \in apps, name \in DisplayName, type \in Types :
                /\ apps' = (apps \ {a}) \cup {[a EXCEPT !.name = name, !.type = type]}
                /\ UNCHANGED <<tokens, nextOid>>

RemoveStep == \E oid \in Nat : Remove(oid)

PurgeStep == \E oid \in Nat : Purge(oid)

TokenStep == \E a \in apps : tokens' = tokens \cup {a.oid} /\ UNCHANGED <<apps, nextOid>>

DatabaseStep ==
    InsertStep \/ AmendStep \/ RemoveStep \/ PurgeStep \/ TokenStep \/ UNCHANGED database

DatabaseTyped == apps \subseteq App /\ tokens \subseteq Nat /\ nextOid \in Nat \ {0}

LEMMA DatabaseStepTyped ==
    ASSUME DatabaseTyped, DatabaseStep
    PROVE  DatabaseTyped'
<1>1. CASE InsertStep
  BY <1>1 DEF InsertStep, Insert, DatabaseTyped, App
<1>2. CASE AmendStep
  BY <1>2 DEF AmendStep, DatabaseTyped, App
<1>3. CASE RemoveStep
  BY <1>3 DEF RemoveStep, Remove, DatabaseTyped
<1>4. CASE PurgeStep
  BY <1>4 DEF PurgeStep, Purge, DatabaseTyped
<1>5. CASE TokenStep
  BY <1>5 DEF TokenStep, DatabaseTyped, App
<1>6. CASE UNCHANGED database
  BY <1>6 DEF database, DatabaseTyped
<1> QED
  BY <1>1, <1>2, <1>3, <1>4, <1>5, <1>6 DEF DatabaseStep

(* The admin requests.                                                      *)
LEMMA BeginTyped ==
    ASSUME Typed, NEW r \in Request, NEW f \in AnyForm,
           NEW op \in {"add", "update", "delete"},
           NEW pc \in {"find", "update", "locate"},
           NEW url, Begin(r, op, url, f, pc),
           op \in {"add", "update"} => f \in Form,
           op = "delete" => f.id \in ClientId,
           pc = "find" => op = "add",
           pc = "update" => op = "update",
           pc = "locate" => op = "delete"
    PROVE  Typed'
<1> DEFINE q == IF Refuses(url, f)
                 THEN [IdleRequest EXCEPT !.op = op, !.form = f,
                                          !.statics = config, !.result = "refused"]
                 ELSE [IdleRequest EXCEPT !.op = op, !.form = f,
                                          !.statics = config, !.pc = pc]
<1>1. q \in RequestState /\ RequestShape(q)
  BY FormTypes DEF Typed, TypeOK, StateTyped, IdleRequest, RequestState, RequestShape
<1>2. req' = [req EXCEPT ![r] = q]
  BY DEF Begin
<1> HIDE DEF q
<1>3. req' \in [Request -> RequestState] /\ \A s \in Request : RequestShape(req'[s])
  BY <1>1, <1>2, RequestAssigned
<1>4. StateTyped' /\ Shapes'
  BY <1>3 DEF Typed, TypeOK, StateTyped, Shapes, Begin, Event, database, index
<1>5. FlagsTyped'
  BY Zenon DEF Typed, TypeOK, FlagsTyped, Begin, index
<1> QED
  BY <1>4, <1>5 DEF Typed, TypeOK

(* What a step of the request in slot r does to everything but the database *)
(* and the slot.                                                            *)
LEMMA RequestFrameTyped ==
    ASSUME Typed, NEW r \in Request, NEW q \in RequestState, RequestShape(q),
           req' = [req EXCEPT ![r] = q], DatabaseStep,
           UNCHANGED <<index, config, pass, subscribed>>, events' \in Nat
    PROVE  Typed'
<1>1. req' \in [Request -> RequestState] /\ \A s \in Request : RequestShape(req'[s])
  BY RequestAssigned
<1>2. DatabaseTyped'
  BY DatabaseStepTyped DEF Typed, TypeOK, StateTyped, DatabaseTyped
<1>3. StateTyped' /\ Shapes'
  BY <1>1, <1>2 DEF Typed, TypeOK, StateTyped, Shapes, DatabaseTyped, index
<1>4. FlagsTyped'
  BY Zenon DEF Typed, TypeOK, FlagsTyped, index
<1> QED
  BY <1>3, <1>4 DEF Typed, TypeOK

(* A step of an admin request in flight: it rewrites its own slot by q and  *)
(* takes one step on the database.                                          *)
LEMMA RequestStepShape ==
    ASSUME Typed, NEW r \in Request, RequestStep(r) \/ RequestFails(r)
    PROVE  /\ \E q \in RequestState : RequestShape(q) /\ req' = [req EXCEPT ![r] = q]
           /\ DatabaseStep
           /\ UNCHANGED <<index, config, pass, subscribed>>
           /\ events' \in Nat
<1> DEFINE old == req[r]
           done(result) == [old EXCEPT !.pc = "off", !.result = result]
           at(pc) == [old EXCEPT !.pc = pc]
<1>0. old \in RequestState /\ RequestShape(old) /\ events \in Nat
  BY DEF Typed, TypeOK, StateTyped, Shapes
<1>1. ASSUME NEW result \in {"duplicate", "conflict", "rejected", "failed", "ok"}
      PROVE  done(result) \in RequestState /\ RequestShape(done(result))
  BY <1>0 DEF RequestState, RequestShape
<1>2. ASSUME NEW result \in {"duplicate", "conflict", "rejected", "failed", "ok"},
             Finish(r, result)
      PROVE  \E q \in RequestState : RequestShape(q) /\ req' = [req EXCEPT ![r] = q]
  BY <1>1, <1>2 DEF Finish
<1>3. CASE AddFind(r)
  <2>1. at("validate") \in RequestState /\ (old.pc = "find" => RequestShape(at("validate")))
    BY <1>0 DEF RequestState, RequestShape
  <2> QED
    BY <1>0, <1>2, <1>3, <2>1 DEF AddFind, Goto, RequestFrame, DatabaseStep
<1>4. CASE AddValidate(r)
  <2>1. at("insert") \in RequestState /\ (old.pc = "validate" => RequestShape(at("insert")))
    BY <1>0 DEF RequestState, RequestShape
  <2> QED
    BY <1>0, <1>2, <1>4, <2>1 DEF AddValidate, Goto, RequestFrame, DatabaseStep
<1>5. CASE AddInsert(r)
  <2>1. old.form \in Form
    BY <1>0, <1>5 DEF AddInsert, RequestShape
  <2>2. /\ old.form.id \in ClientId /\ old.form.name \in DisplayName
        /\ EffectiveType(old.form) \in Types /\ SecretGenerated(old.form) \in BOOLEAN
    BY <2>1, FormTypes DEF SecretGenerated
  <2>3. DatabaseStep
    BY <1>5, <2>2 DEF AddInsert, DatabaseStep, InsertStep
  <2> QED
    BY <1>0, <1>2, <1>5, <2>3 DEF AddInsert, RequestFrame
<1>6. CASE Update(r)
  <2>1. old.form \in Form
    BY <1>0, <1>6 DEF Update, RequestShape
  <2>2. old.form.name \in DisplayName /\ EffectiveType(old.form) \in Types
    BY <2>1, FormTypes
  <2>3. DatabaseStep
    BY <1>6, <2>2 DEF Update, DatabaseStep, AmendStep, WithId, database
  <2> QED
    BY <1>0, <1>2, <1>6, <2>3 DEF Update, RequestFrame
<1>7. CASE DeleteLocate(r)
  <2>1. ASSUME NEW a \in apps
        PROVE  /\ [old EXCEPT !.pc = "remove", !.doc = a.oid] \in RequestState
               /\ old.pc = "locate" =>
                    RequestShape([old EXCEPT !.pc = "remove", !.doc = a.oid])
    BY <1>0 DEF Typed, TypeOK, StateTyped, App, RequestState, RequestShape
  <2> QED
    BY <1>0, <1>2, <1>7, <2>1 DEF DeleteLocate, WithId, RequestFrame, DatabaseStep
<1>8. CASE DeleteRemove(r)
  <2>1. at("purge") \in RequestState /\ (old.pc = "remove" => RequestShape(at("purge")))
    BY <1>0 DEF RequestState, RequestShape
  <2>2. old.doc \in Nat
    BY <1>0 DEF RequestState
  <2>3. DatabaseStep
    BY <1>8, <2>2 DEF DeleteRemove, DatabaseStep, RemoveStep
  <2> QED
    BY <1>0, <1>2, <1>8, <2>1, <2>3 DEF DeleteRemove, Goto, RequestFrame
<1>9. CASE DeletePurge(r)
  <2>1. old.doc \in Nat
    BY <1>0 DEF RequestState
  <2>2. DatabaseStep
    BY <1>9, <2>1 DEF DeletePurge, DatabaseStep, PurgeStep
  <2> QED
    BY <1>0, <1>2, <1>9, <2>2 DEF DeletePurge, RequestFrame
<1>10. CASE RequestFails(r)
  BY <1>0, <1>2, <1>10 DEF RequestFails, DatabaseStep, Event
<1> QED
  BY <1>3, <1>4, <1>5, <1>6, <1>7, <1>8, <1>9, <1>10 DEF RequestStep

(* The initializer's passes.                                                *)
LEMMA PassFrameTyped ==
    ASSUME Typed, NEW p \in Pass, NEW q \in PassState, PassShape(q),
           pass' = [pass EXCEPT ![p] = q], DatabaseStep,
           UNCHANGED <<index, config, req, subscribed>>, events' \in Nat
    PROVE  Typed'
<1>1. pass' \in [Pass -> PassState] /\ \A s \in Pass : PassShape(pass'[s])
  BY PassAssigned
<1>2. DatabaseTyped'
  BY DatabaseStepTyped DEF Typed, TypeOK, StateTyped, DatabaseTyped
<1>3. StateTyped' /\ Shapes'
  BY <1>1, <1>2 DEF Typed, TypeOK, StateTyped, Shapes, DatabaseTyped, index
<1>4. FlagsTyped'
  BY Zenon DEF Typed, TypeOK, FlagsTyped, index
<1> QED
  BY <1>3, <1>4 DEF Typed, TypeOK

LEMMA PassStepShape ==
    ASSUME Typed, NEW p \in Pass, PassStep(p) \/ PassFails(p)
    PROVE  /\ \E q \in PassState : PassShape(q) /\ pass' = [pass EXCEPT ![p] = q]
           /\ DatabaseStep
           /\ UNCHANGED <<index, config, req, subscribed>>
           /\ events' \in Nat
<1> DEFINE old == pass[p]
           over(result) == [old EXCEPT !.pc = "off", !.result = result]
           next(doomed, todo) ==
             [old EXCEPT !.doomed = doomed, !.todo = todo,
                         !.pc = IF doomed # {} THEN "delete"
                                ELSE IF todo # {} THEN "create" ELSE "off",
                         !.result = IF doomed \cup todo = {} THEN "ok" ELSE "none"]
<1>0. old \in PassState /\ PassShape(old) /\ events \in Nat /\ apps \subseteq App
  BY DEF Typed, TypeOK, StateTyped, Shapes
<1>1. ASSUME NEW result \in {"failed", "gone", "exists"}, Abandon(p, result)
      PROVE  \E q \in PassState : PassShape(q) /\ pass' = [pass EXCEPT ![p] = q]
  <2>1. over(result) \in PassState /\ PassShape(over(result))
    BY <1>0 DEF PassState, PassShape
  <2> QED
    BY <1>1, <2>1 DEF Abandon
<1>2. ASSUME NEW doomed \in SUBSET Nat, NEW todo \in SUBSET ClientId, Resume(p, doomed, todo)
      PROVE  \E q \in PassState : PassShape(q) /\ pass' = [pass EXCEPT ![p] = q]
  <2>1. next(doomed, todo) \in PassState
    BY <1>0 DEF PassState
  <2>2. PassShape(next(doomed, todo))
    BY <1>0 DEF PassState, PassShape
  <2> QED
    BY <1>2, <2>1, <2>2 DEF Resume
<1>3. CASE PassList(p)
  <2>1. Doomed(old.cfg) \in SUBSET Nat /\ old.cfg \in SUBSET ClientId
    BY <1>0 DEF Doomed, App, PassState
  <2> QED
    BY <1>0, <1>2, <1>3, <2>1 DEF PassList, PassFrame, DatabaseStep
<1>4. CASE PassRemove(p)
  <2>1. ASSUME NEW oid \in old.doomed
        PROVE  /\ oid \in Nat
               /\ [old EXCEPT !.pc = "purge", !.doc = oid] \in PassState
               /\ old.pc = "delete" => PassShape([old EXCEPT !.pc = "purge", !.doc = oid])
    BY <1>0 DEF PassState, PassShape
  <2>2. DatabaseStep
    BY <1>4, <2>1 DEF PassRemove, DatabaseStep, RemoveStep
  <2> QED
    BY <1>0, <1>1, <1>4, <2>1, <2>2 DEF PassRemove, PassFrame
<1>5. CASE PassPurge(p)
  <2>1. old.doc \in Nat /\ old.doomed \ {old.doc} \in SUBSET Nat /\ old.todo \in SUBSET ClientId
    BY <1>0 DEF PassState
  <2>2. DatabaseStep
    BY <1>5, <2>1 DEF PassPurge, DatabaseStep, PurgeStep
  <2> QED
    BY <1>0, <1>2, <1>5, <2>1, <2>2 DEF PassPurge, PassFrame
<1>6. CASE PassValidate(p)
  <2>1. ASSUME NEW id \in old.todo
        PROVE  /\ [old EXCEPT !.pc = "insert", !.pick = id] \in PassState
               /\ old.pc = "create" => PassShape([old EXCEPT !.pc = "insert", !.pick = id])
    BY <1>0 DEF PassState, PassShape
  <2> QED
    BY <1>0, <1>1, <1>6, <2>1 DEF PassValidate, PassFrame, DatabaseStep
<1>7. CASE PassInsert(p)
  <2>1. old.pick \in ClientId /\ old.todo \ {old.pick} \in SUBSET ClientId /\ {} \in SUBSET Nat
    BY <1>0, <1>7 DEF PassInsert, PassShape, PassState
  <2>2. /\ Entry[old.pick].name \in DisplayName /\ Entry[old.pick].type \in Types
        /\ (Entry[old.pick].type = "confidential") \in BOOLEAN
    BY <2>1, EntryAssumption
  <2>3. DatabaseStep
    BY <1>7, <2>1, <2>2 DEF PassInsert, DatabaseStep, InsertStep
  <2> QED
    BY <1>0, <1>1, <1>2, <1>7, <2>1, <2>3 DEF PassInsert, PassFrame
<1>8. CASE PassFails(p)
  BY <1>0, <1>1, <1>8 DEF PassFails, DatabaseStep, Event
<1> QED
  BY <1>3, <1>4, <1>5, <1>6, <1>7, <1>8 DEF PassStep

(* Saves, restarts and the index build.                                     *)
LEMMA NewPassTyped ==
    ASSUME NEW c \in SUBSET ClientId, NEW calm \in BOOLEAN
    PROVE  NewPass(c, calm) \in PassState /\ PassShape(NewPass(c, calm))
BY DEF NewPass, IdlePass, PassState, PassShape

LEMMA ConfigurationTyped ==
    ASSUME Typed, NEW c \in SUBSET ClientId,
           (\E p \in Pass : Reload(c, p)) \/ ReloadUnwatched(c) \/ Restart(c)
    PROVE  Typed'
<1>0. ASSUME NEW q \in Pass
      PROVE  /\ [pass[q] EXCEPT !.calm = FALSE] \in PassState
             /\ PassShape([pass[q] EXCEPT !.calm = FALSE])
  BY DEF Typed, TypeOK, StateTyped, Shapes, PassState, PassShape
<1>1. CASE \E p \in Pass : Reload(c, p)
  <2>1. Unattended(c) \in BOOLEAN
    BY DEF Unattended
  <2>2. pass' \in [Pass -> PassState] /\ \A s \in Pass : PassShape(pass'[s])
    BY <1>0, <1>1, <2>1, NewPassTyped DEF Reload
  <2>3. StateTyped' /\ Shapes'
    BY <1>1, <2>2 DEF Typed, TypeOK, StateTyped, Shapes, Reload, Event, database, index
  <2>4. FlagsTyped'
    BY <1>1, Zenon DEF Typed, TypeOK, FlagsTyped, Reload, index
  <2> QED
    BY <2>3, <2>4 DEF Typed, TypeOK
<1>2. CASE ReloadUnwatched(c)
  <2>2. pass' \in [Pass -> PassState] /\ \A s \in Pass : PassShape(pass'[s])
    BY <1>0, <1>2 DEF ReloadUnwatched
  <2>3. StateTyped' /\ Shapes'
    BY <1>2, <2>2 DEF Typed, TypeOK, StateTyped, Shapes, ReloadUnwatched, Event, database, index
  <2>4. FlagsTyped'
    BY <1>2, Zenon DEF Typed, TypeOK, FlagsTyped, ReloadUnwatched, index
  <2> QED
    BY <2>3, <2>4 DEF Typed, TypeOK
<1>3. CASE Restart(c)
  <2>1. /\ IdleRequest \in RequestState /\ RequestShape(IdleRequest)
        /\ IdlePass \in PassState /\ PassShape(IdlePass)
    BY FormTypes DEF IdleRequest, RequestState, RequestShape, IdlePass, PassState, PassShape
  <2>2. /\ pass' \in [Pass -> PassState] /\ \A s \in Pass : PassShape(pass'[s])
        /\ req' \in [Request -> RequestState] /\ \A s \in Request : RequestShape(req'[s])
    BY <1>3, <2>1, NewPassTyped DEF Restart
  <2>3. /\ UNCHANGED <<apps, tokens, nextOid>>
        /\ indexer' = "check" /\ config' = c /\ events' = events + 1
    BY <1>3, Zenon DEF Restart, Event, database
  <2>5. StateTyped' /\ Shapes'
    BY <2>2, <2>3 DEF Typed, TypeOK, StateTyped, Shapes
  <2>4. FlagsTyped'
    BY <1>3, Zenon DEF Typed, TypeOK, FlagsTyped, Restart
  <2> QED
    BY <2>4, <2>5 DEF Typed, TypeOK
<1> QED
  BY <1>1, <1>2, <1>3

LEMMA IndexTyped ==
    ASSUME Typed, IndexCheck \/ IndexBuild \/ IndexSetFlag \/ IndexFails
    PROVE  Typed'
<1>1. UNCHANGED <<database, config, req, pass, subscribed>>
  BY Zenon DEF IndexCheck, IndexBuild, IndexSetFlag, IndexFails, IndexFrame
<1>2. indexer' \in {"off", "check", "build", "flag"}
  BY Zenon DEF IndexCheck, IndexBuild, IndexSetFlag, IndexFails
<1>3. events' \in Nat
  BY DEF Typed, TypeOK, StateTyped, Event, IndexCheck, IndexBuild, IndexSetFlag, IndexFails
<1>4. StateTyped' /\ Shapes'
  BY <1>1, <1>2, <1>3 DEF Typed, TypeOK, StateTyped, Shapes, database
<1>5. indexed' \in BOOLEAN /\ indexFlag' \in BOOLEAN
  BY Zenon DEF Typed, TypeOK, FlagsTyped, IndexCheck, IndexBuild, IndexSetFlag, IndexFails
<1>6. FlagsTyped'
  BY <1>1, <1>5, Zenon DEF Typed, TypeOK, FlagsTyped
<1> QED
  BY <1>4, <1>6 DEF Typed, TypeOK

LEMMA IssueTyped ==
    ASSUME Typed, IssueToken
    PROVE  Typed' /\ DatabaseStep
<1>1. DatabaseStep
  BY DEF IssueToken, DatabaseStep, TokenStep
<1>2. DatabaseTyped'
  BY <1>1, DatabaseStepTyped DEF Typed, TypeOK, StateTyped, DatabaseTyped
<1>3. StateTyped' /\ Shapes'
  BY <1>2 DEF Typed, TypeOK, StateTyped, Shapes, DatabaseTyped, IssueToken, index
<1>4. FlagsTyped'
  BY Zenon DEF Typed, TypeOK, FlagsTyped, IssueToken, index
<1> QED
  BY <1>1, <1>3, <1>4 DEF Typed, TypeOK

LEMMA TypedInductive == Typed /\ [Next]_vars => Typed'
<1> SUFFICES ASSUME Typed, [Next]_vars PROVE Typed'
  OBVIOUS
<1>1. ASSUME NEW r \in Request, RequestStep(r) \/ RequestFails(r)
      PROVE  Typed'
  BY <1>1, RequestStepShape, RequestFrameTyped
<1>2. ASSUME NEW r \in Request,
             \/ \E f \in Form : Begin(r, "add", f.id, f, "find")
             \/ \E f \in Form, url \in ClientId : Begin(r, "update", url, f, "update")
             \/ \E id \in ClientId :
                  Begin(r, "delete", id, [NoForm EXCEPT !.id = id], "locate")
      PROVE  Typed'
  <2>1. ASSUME NEW f \in Form, Begin(r, "add", f.id, f, "find") PROVE Typed'
    BY <2>1, FormTypes, BeginTyped
  <2>2. ASSUME NEW f \in Form, NEW url, Begin(r, "update", url, f, "update") PROVE Typed'
    BY <2>2, FormTypes, BeginTyped
  <2>3. ASSUME NEW id \in ClientId,
               Begin(r, "delete", id, [NoForm EXCEPT !.id = id], "locate")
        PROVE  Typed'
    <3> DEFINE f == [NoForm EXCEPT !.id = id]
    <3>1. f \in AnyForm /\ f.id \in ClientId
      BY FormTypes
    <3> HIDE DEF f
    <3>2. Begin(r, "delete", id, f, "locate")
      BY <2>3 DEF f
    <3> QED
      BY <3>1, <3>2, BeginTyped
  <2> QED
    BY <1>2, <2>1, <2>2, <2>3
<1>3. ASSUME NEW p \in Pass, PassStep(p) \/ PassFails(p)
      PROVE  Typed'
  BY <1>3, PassStepShape, PassFrameTyped
<1>4. CASE Subscribe
  <2>1. StateTyped' /\ Shapes'
    BY <1>4 DEF Typed, TypeOK, StateTyped, Shapes, Subscribe, database, index
  <2>2. FlagsTyped'
    BY <1>4, Zenon DEF Typed, TypeOK, FlagsTyped, Subscribe, index
  <2> QED
    BY <2>1, <2>2 DEF Typed, TypeOK
<1>5. CASE UNCHANGED vars
  <2>1. StateTyped' /\ Shapes'
    BY <1>5 DEF Typed, TypeOK, StateTyped, Shapes, vars
  <2>2. FlagsTyped'
    BY <1>5, Zenon DEF Typed, TypeOK, FlagsTyped, vars
  <2> QED
    BY <2>1, <2>2 DEF Typed, TypeOK
<1> QED
  BY <1>1, <1>2, <1>3, <1>4, <1>5, ConfigurationTyped, IndexTyped, IssueTyped
     DEF Next, Admin, Initializer, Configuration, IndexStep,
         BeginAdd, BeginUpdate, BeginDelete

LEMMA InitTyped == Init => Typed
<1>1. IdleRequest.op = "none" /\ IdleRequest.pc = "off"
      /\ IdlePass.pc = "off"
  BY DEF IdleRequest, IdlePass
<1>2. ASSUME Init PROVE Shapes
  <2>1. RequestShape(IdleRequest) /\ PassShape(IdlePass)
    BY <1>1 DEF RequestShape, PassShape
  <2>2. config \in SUBSET ClientId
        /\ req = [r \in Request |-> IdleRequest]
        /\ pass = [p \in Pass |-> IF p = StartupPass THEN NewPass(config, TRUE) ELSE IdlePass]
    BY <1>2, Zenon DEF Init
  <2> QED
    BY <2>1, <2>2, NewPassTyped DEF Shapes
<1> QED
  BY <1>2, InitTypeOK DEF Typed

LEMMA TypedAlways == Spec => []Typed
BY InitTyped, TypedInductive, PTL DEF Spec

(* The registry keeps its types: in particular what a form asks for is      *)
(* turned into a client type the manager supports before it is stored.      *)
THEOREM TypeCorrect == Spec => []TypeOK
BY TypedAlways, PTL DEF Typed

-----------------------------------------------------------------------------
(* The collections.                                                         *)

LEMMA DatabaseStepAlways ==
    ASSUME Typed, [Next]_vars
    PROVE  DatabaseStep
<1>1. ASSUME NEW r \in Request, RequestStep(r) \/ RequestFails(r)
      PROVE  DatabaseStep
  BY <1>1, RequestStepShape
<1>2. ASSUME NEW p \in Pass, PassStep(p) \/ PassFails(p)
      PROVE  DatabaseStep
  BY <1>2, PassStepShape
<1>3. CASE UNCHANGED vars
  BY <1>3 DEF vars, DatabaseStep, database
<1>4. ASSUME Subscribe \/ Configuration \/ IndexStep \/ IndexFails
      PROVE  DatabaseStep
  <2>1. UNCHANGED database
    BY <1>4, Zenon DEF Subscribe, Configuration, Reload, ReloadUnwatched, Restart, IndexStep,
       IndexCheck, IndexBuild, IndexSetFlag, IndexFails, IndexFrame
  <2> QED
    BY <2>1 DEF DatabaseStep
<1>5. ASSUME NEW r \in Request, BeginAdd(r) \/ BeginUpdate(r) \/ BeginDelete(r)
      PROVE  DatabaseStep
  BY <1>5, Zenon DEF BeginAdd, BeginUpdate, BeginDelete, Begin, DatabaseStep
<1> QED
  BY <1>1, <1>2, <1>3, <1>4, <1>5, IssueTyped DEF Next, Admin, Initializer

(* Object ids are generated in increasing order and never used twice.       *)
ObjectIds ==
    /\ \A a \in apps : a.oid # 0 /\ a.oid < nextOid
    /\ \A a, b \in apps : a.oid = b.oid => a = b
    /\ \A t \in tokens : t # 0 /\ t < nextOid

(* A document and its tokens, once gone, are gone for good.                 *)
Gone(oid) == ~Exists(oid) /\ oid \notin tokens

LEMMA DatabaseStepObjectIds ==
    ASSUME DatabaseTyped, ObjectIds, DatabaseStep
    PROVE  /\ ObjectIds'
           /\ nextOid <= nextOid'
           /\ \A oid \in Nat : oid < nextOid /\ ~Exists(oid) => ~Exists(oid)'
           /\ \A oid \in Nat : oid < nextOid /\ Gone(oid) => Gone(oid)'
           /\ \A b \in apps' : b.oid < nextOid => \E a \in apps : a.oid = b.oid /\ a.id = b.id
<1>0. apps \subseteq App /\ nextOid \in Nat
  BY DEF DatabaseTyped
<1>1. CASE InsertStep
  <2>1. PICK e \in App : e.oid = nextOid /\ apps' = apps \cup {e}
                         /\ nextOid' = nextOid + 1 /\ tokens' = tokens
    BY <1>0, <1>1 DEF InsertStep, Insert, App
  <2>2. ObjectIds'
    BY <1>0, <2>1 DEF ObjectIds, App, DatabaseTyped
  <2> QED
    BY <1>0, <2>1, <2>2 DEF Gone, Exists, App
<1>2. CASE AmendStep
  <2>1. PICK a \in apps, e \in App :
          /\ e.oid = a.oid /\ e.id = a.id /\ apps' = (apps \ {a}) \cup {e}
          /\ UNCHANGED <<tokens, nextOid>>
    BY <1>0, <1>2 DEF AmendStep, App
  <2>2. ObjectIds'
    BY <1>0, <2>1 DEF ObjectIds
  <2> QED
    BY <1>0, <2>1, <2>2 DEF Gone, Exists, App
<1>3. CASE RemoveStep
  BY <1>0, <1>3 DEF RemoveStep, Remove, ObjectIds, Gone, Exists, App
<1>4. CASE PurgeStep
  BY <1>0, <1>4 DEF PurgeStep, Purge, ObjectIds, Gone, Exists, App
<1>5. CASE TokenStep
  BY <1>0, <1>5 DEF TokenStep, ObjectIds, Gone, Exists, App
<1>6. CASE UNCHANGED database
  BY <1>0, <1>6 DEF database, ObjectIds, Gone, Exists
<1> QED
  BY <1>1, <1>2, <1>3, <1>4, <1>5, <1>6 DEF DatabaseStep

(* The unique index keeps what its build established.                       *)
LEMMA DatabaseStepUnique ==
    ASSUME DatabaseTyped, DatabaseStep, indexed, IdsUnique
    PROVE  IdsUnique'
<1>1. CASE InsertStep
  BY <1>1 DEF InsertStep, Insert, MayInsert, WithId, IdsUnique
<1>2. CASE AmendStep
  BY <1>2 DEF AmendStep, IdsUnique, DatabaseTyped, App
<1>3. CASE RemoveStep
  BY <1>3 DEF RemoveStep, Remove, IdsUnique
<1>4. CASE PurgeStep \/ TokenStep \/ UNCHANGED database
  BY <1>4 DEF PurgeStep, Purge, TokenStep, database, IdsUnique
<1> QED
  BY <1>1, <1>2, <1>3, <1>4 DEF DatabaseStep

-----------------------------------------------------------------------------
(* The unique index and its flag.                                           *)

IndexInv == IndexHonest /\ (indexer = "flag" => indexed)

(* Only the index initializer, and a restart, touch the index.               *)
LEMMA WhoIndexes ==
    ASSUME Typed, [Next]_vars
    PROVE  \/ UNCHANGED <<indexed, indexFlag, indexer>>
           \/ IndexStep \/ IndexFails
           \/ \E c \in SUBSET ClientId : Restart(c)
<1>1. ASSUME NEW r \in Request, RequestStep(r) \/ RequestFails(r)
      PROVE  UNCHANGED <<indexed, indexFlag, indexer>>
  BY <1>1, RequestStepShape, Zenon DEF index
<1>2. ASSUME NEW p \in Pass, PassStep(p) \/ PassFails(p)
      PROVE  UNCHANGED <<indexed, indexFlag, indexer>>
  BY <1>2, PassStepShape, Zenon DEF index
<1>3. ASSUME NEW r \in Request, BeginAdd(r) \/ BeginUpdate(r) \/ BeginDelete(r)
      PROVE  UNCHANGED <<indexed, indexFlag, indexer>>
  BY <1>3, Zenon DEF BeginAdd, BeginUpdate, BeginDelete, Begin, index
<1>4. ASSUME Subscribe \/ IssueToken \/ UNCHANGED vars
      PROVE  UNCHANGED <<indexed, indexFlag, indexer>>
  BY <1>4, Zenon DEF Subscribe, IssueToken, vars, index
<1>5. ASSUME NEW c \in SUBSET ClientId, (\E p \in Pass : Reload(c, p)) \/ ReloadUnwatched(c)
      PROVE  UNCHANGED <<indexed, indexFlag, indexer>>
  BY <1>5, Zenon DEF Reload, ReloadUnwatched, index
<1> QED
  BY <1>1, <1>2, <1>3, <1>4, <1>5, Zenon DEF Next, Admin, Initializer, Configuration

LEMMA IndexInductive ==
    ASSUME Typed, IndexInv, [Next]_vars
    PROVE  IndexInv'
<1>1. CASE UNCHANGED <<indexed, indexFlag, indexer>>
  <2>1. indexed /\ IdsUnique => IdsUnique'
    BY DatabaseStepAlways, DatabaseStepUnique DEF Typed, TypeOK, StateTyped, DatabaseTyped
  <2> QED
    BY <1>1, <2>1, Zenon DEF IndexInv, IndexHonest
<1>2. CASE IndexStep \/ IndexFails
  <2>1. IdsUnique => IdsUnique'
    BY <1>2, Zenon DEF IndexStep, IndexCheck, IndexBuild, IndexSetFlag, IndexFails,
       IndexFrame, database, IdsUnique
  <2>2. CASE IndexCheck
    BY <2>1, <2>2, Zenon DEF IndexCheck, IndexInv, IndexHonest
  <2>3. CASE IndexBuild
    BY <2>1, <2>3, Zenon DEF IndexBuild, IndexInv, IndexHonest
  <2>4. CASE IndexSetFlag
    BY <2>1, <2>4, Zenon DEF IndexSetFlag, IndexInv, IndexHonest
  <2>5. CASE IndexFails
    BY <2>1, <2>5, Zenon DEF IndexFails, IndexInv, IndexHonest
  <2> QED
    BY <1>2, <2>2, <2>3, <2>4, <2>5, Zenon DEF IndexStep
<1>3. ASSUME NEW c \in SUBSET ClientId, Restart(c)
      PROVE  IndexInv'
  <2>1. IdsUnique => IdsUnique'
    BY <1>3, Zenon DEF Restart, database, IdsUnique
  <2> QED
    BY <1>3, <2>1, Zenon DEF Restart, IndexInv, IndexHonest
<1> QED
  BY <1>1, <1>2, <1>3, WhoIndexes

(* Once the unique index exists no client id has two documents, and the     *)
(* flag that makes later starts skip the build is set only when it does     *)
(* (MongoDbPerformanceInitializer.Initialize).                              *)
THEOREM IndexIsHonest == Spec => []IndexHonest
<1>1. Init => IndexInv
  BY Zenon DEF Init, IndexInv, IndexHonest, IdsUnique
<1>2. Typed /\ IndexInv /\ [Next]_vars => IndexInv'
  BY IndexInductive
<1>3. IndexInv => IndexHonest
  BY DEF IndexInv
<1> QED
  BY <1>1, <1>2, <1>3, TypedAlways, PTL DEF Spec

-----------------------------------------------------------------------------
(* Who changes which slot.                                                  *)

LEMMA OneRequestMoves ==
    ASSUME Typed, [Next]_vars, NEW r \in Request, req'[r] # req[r]
    PROVE  \/ RequestStep(r) \/ RequestFails(r)
           \/ BeginAdd(r) \/ BeginUpdate(r) \/ BeginDelete(r)
           \/ \E c \in SUBSET ClientId : Restart(c)
<1>1. ASSUME NEW s \in Request, RequestStep(s) \/ RequestFails(s), s # r
      PROVE  FALSE
  BY <1>1, RequestStepShape, RequestAssigned
<1>2. ASSUME NEW s \in Request, BeginAdd(s) \/ BeginUpdate(s) \/ BeginDelete(s), s # r
      PROVE  FALSE
  BY <1>2 DEF BeginAdd, BeginUpdate, BeginDelete, Begin, Typed, TypeOK, StateTyped
<1>3. ASSUME NEW p \in Pass, PassStep(p) \/ PassFails(p)
      PROVE  FALSE
  BY <1>3, PassStepShape
<1>4. ASSUME Subscribe \/ IndexStep \/ IndexFails \/ IssueToken \/ UNCHANGED vars
      PROVE  FALSE
  <2>1. UNCHANGED req
    BY <1>4, Zenon DEF Subscribe, IndexStep, IndexCheck, IndexBuild, IndexSetFlag,
       IndexFails, IndexFrame, IssueToken, vars
  <2> QED
    BY <2>1
<1>5. ASSUME NEW c \in SUBSET ClientId, (\E p \in Pass : Reload(c, p)) \/ ReloadUnwatched(c)
      PROVE  FALSE
  <2>1. UNCHANGED req
    BY <1>5, Zenon DEF Reload, ReloadUnwatched
  <2> QED
    BY <2>1
<1> QED
  BY <1>1, <1>2, <1>3, <1>4, <1>5, Zenon DEF Next, Admin, Initializer, Configuration

(* A deletion holds on to the document it located; once removed, and once   *)
(* answered, that document does not come back.                              *)
DeleteState(r) ==
    /\ req[r].doc < nextOid
    /\ req[r].pc = "locate" => req[r].doc = 0
    /\ req[r].pc = "purge" => ~Exists(req[r].doc)
    /\ req[r].result = "ok" => Gone(req[r].doc)

DeleteInv == ObjectIds /\ \A r \in Request : req[r].op = "delete" => DeleteState(r)

LEMMA DeleteInductive ==
    ASSUME Typed, DeleteInv, [Next]_vars
    PROVE  DeleteInv'
<1>1. DatabaseTyped /\ DatabaseStep
  BY DatabaseStepAlways DEF Typed, TypeOK, StateTyped, DatabaseTyped
<1>2. ObjectIds' /\ nextOid <= nextOid'
      /\ (\A oid \in Nat : oid < nextOid /\ ~Exists(oid) => ~Exists(oid)')
      /\ (\A oid \in Nat : oid < nextOid /\ Gone(oid) => Gone(oid)')
  BY <1>1, DatabaseStepObjectIds DEF DeleteInv
<1>3. nextOid \in Nat /\ nextOid' \in Nat /\ 0 < nextOid /\ 0 < nextOid'
  BY <1>1, DatabaseStepTyped DEF DatabaseTyped
<1>4. ~Exists(0)' /\ 0 \notin tokens'
  BY <1>2 DEF ObjectIds, Exists
<1> SUFFICES ASSUME NEW r \in Request, req'[r].op = "delete"
             PROVE  DeleteState(r)'
  BY <1>2 DEF DeleteInv
<1>0. req[r] \in RequestState /\ RequestShape(req[r]) /\ req \in [Request -> RequestState]
      /\ req[r].doc \in Nat
  BY DEF Typed, TypeOK, StateTyped, Shapes, RequestState
<1>5. CASE req'[r] = req[r]
  <2>1. DeleteState(r) /\ req'[r].doc = req[r].doc /\ req'[r].pc = req[r].pc
        /\ req'[r].result = req[r].result
    BY <1>5 DEF DeleteInv
  <2> QED
    BY <1>0, <1>2, <1>3, <2>1 DEF DeleteState
<1>6. CASE AddFind(r) \/ AddValidate(r) \/ AddInsert(r) \/ Update(r)
  <2>1. req[r].op # "delete"
    BY <1>0, <1>6 DEF AddFind, AddValidate, AddInsert, Update, RequestShape
  <2>2. CASE AddFind(r)
    BY <1>0, <2>1, <2>2 DEF AddFind, Finish, Goto, RequestState
  <2>3. CASE AddValidate(r)
    BY <1>0, <2>1, <2>3 DEF AddValidate, Finish, Goto, RequestState
  <2>4. CASE AddInsert(r)
    BY <1>0, <2>1, <2>4 DEF AddInsert, Finish, RequestState
  <2>5. CASE Update(r)
    BY <1>0, <2>1, <2>5 DEF Update, Finish, RequestState
  <2> QED
    BY <1>6, <2>1, <2>2, <2>3, <2>4, <2>5
<1>7. CASE DeleteLocate(r)
  <2>1. req[r].op = "delete" /\ req[r].doc = 0 /\ req[r].result = "none"
    BY <1>0, <1>7 DEF DeleteLocate, RequestShape, DeleteInv, DeleteState, Finish
  <2>2. \A a \in apps : a.oid < nextOid
    BY DEF DeleteInv, ObjectIds
  <2>3. CASE Finish(r, "ok")
    BY <1>0, <1>3, <1>4, <2>1, <2>3 DEF Finish, DeleteState, Gone
  <2>4. ASSUME NEW a \in apps,
               req' = [req EXCEPT ![r] = [@ EXCEPT !.pc = "remove", !.doc = a.oid]]
        PROVE  DeleteState(r)'
    BY <1>0, <1>1, <1>2, <1>3, <2>1, <2>2, <2>4 DEF DeleteState, DatabaseTyped, App
  <2> QED
    BY <1>7, <2>3, <2>4 DEF DeleteLocate, WithId
<1>8. CASE DeleteRemove(r)
  <2>1. req[r].op = "delete" /\ req[r].result = "none" /\ DeleteState(r)
    BY <1>0, <1>8 DEF DeleteRemove, RequestShape, DeleteInv
  <2>2. CASE Finish(r, "conflict")
    BY <1>0, <1>2, <1>3, <2>1, <2>2 DEF Finish, DeleteState
  <2>3. CASE Remove(req[r].doc) /\ Goto(r, "purge")
    <3>1. ~Exists(req[r].doc)'
      BY <1>0, <2>3 DEF Remove, Goto, Exists
    <3> QED
      BY <1>0, <1>2, <1>3, <2>1, <2>3, <3>1 DEF Goto, DeleteState, Exists
  <2> QED
    BY <1>8, <2>2, <2>3 DEF DeleteRemove
<1>9. CASE DeletePurge(r)
  <2>1. req[r].op = "delete" /\ DeleteState(r) /\ ~Exists(req[r].doc)
    BY <1>0, <1>9 DEF DeletePurge, RequestShape, DeleteInv, DeleteState
  <2>2. req[r].doc \notin tokens' /\ apps' = apps
    BY <1>9 DEF DeletePurge, Purge
  <2> QED
    BY <1>0, <1>2, <1>3, <1>9, <2>1, <2>2 DEF DeletePurge, Finish, DeleteState, Gone, Exists
<1>10. CASE RequestFails(r)
  <2>1. req[r].op = "delete" /\ DeleteState(r)
    BY <1>0, <1>10 DEF RequestFails, Finish, DeleteInv
  <2> QED
    BY <1>0, <1>2, <1>3, <1>10, <2>1 DEF RequestFails, Finish, DeleteState
<1>11. CASE BeginAdd(r) \/ BeginUpdate(r) \/ BeginDelete(r)
  <2>1. ASSUME NEW op, NEW url, NEW f, NEW pc \in {"find", "update", "locate"},
               Begin(r, op, url, f, pc)
        PROVE  req'[r].doc = 0 /\ req'[r].pc \in {"find", "update", "locate", "off"}
               /\ req'[r].result \in {"none", "refused"}
    BY <1>0, <2>1 DEF Begin, IdleRequest
  <2>2. req'[r].doc = 0 /\ req'[r].pc \in {"find", "update", "locate", "off"}
        /\ req'[r].result \in {"none", "refused"}
    BY <1>11, <2>1 DEF BeginAdd, BeginUpdate, BeginDelete
  <2> QED
    BY <1>3, <2>2 DEF DeleteState
<1>12. CASE \E c \in SUBSET ClientId : Restart(c)
  BY <1>12 DEF Restart, IdleRequest
<1> QED
  BY <1>5, <1>6, <1>7, <1>8, <1>9, <1>10, <1>11, <1>12, OneRequestMoves DEF RequestStep

LEMMA DeleteInit == Init => DeleteInv
<1> SUFFICES ASSUME Init PROVE DeleteInv
  OBVIOUS
<1>1. apps = {} /\ tokens = {} /\ req = [r \in Request |-> IdleRequest]
  BY Zenon DEF Init
<1> QED
  BY <1>1 DEF DeleteInv, ObjectIds, IdleRequest

(* The document of an answered deletion, and the tokens stored while it      *)
(* existed, stay away (AppClientDeleteRequestHandler).                      *)
THEOREM DeletionIsFinal == Spec => []DeletedStaysDeleted
<1>1. Init => DeleteInv
  BY DeleteInit
<1>2. Typed /\ DeleteInv /\ [Next]_vars => DeleteInv'
  BY DeleteInductive
<1>3. DeleteInv => DeletedStaysDeleted
  BY DEF DeleteInv, DeleteState, DeletedStaysDeleted, Gone
<1> QED
  BY <1>1, <1>2, <1>3, TypedAlways, PTL DEF Spec
-----------------------------------------------------------------------------
(* What an admin request may touch.                                         *)

(* A request that got past ThrowIfStaticClient works on an id that was not  *)
(* static when it began, and the document it located has that id.           *)
Own(r) ==
    /\ req[r].pc # "off" => req[r].form.id \notin req[r].statics
    /\ req[r].pc = "remove" => \A a \in apps : a.oid = req[r].doc => a.id = req[r].form.id

OwnInv == \A r \in Request : Own(r)

(* The documents a step of the request creates, changes or removes.         *)
Touched == (apps \ apps') \cup (apps' \ apps)

LEMMA RequestTouches ==
    ASSUME Typed, DeleteInv, OwnInv, NEW r \in Request, RequestStep(r)
    PROVE  \A a \in Touched : a.id = req[r].form.id
<1>1. CASE AddFind(r) \/ AddValidate(r) \/ DeleteLocate(r) \/ DeletePurge(r)
  BY <1>1, Zenon DEF AddFind, AddValidate, DeleteLocate, DeletePurge, Purge, database, Touched
<1>2. CASE AddInsert(r)
  BY <1>2 DEF AddInsert, Insert, database, Touched
<1>3. CASE Update(r)
  BY <1>3 DEF Update, WithId, Touched, Typed, TypeOK, StateTyped, App
<1>4. CASE DeleteRemove(r)
  BY <1>4 DEF DeleteRemove, Remove, database, Touched, OwnInv, Own
<1> QED
  BY <1>1, <1>2, <1>3, <1>4 DEF RequestStep

LEMMA OwnInductive ==
    ASSUME Typed, DeleteInv, OwnInv, [Next]_vars
    PROVE  OwnInv'
<1>1. DatabaseTyped /\ DatabaseStep
  BY DatabaseStepAlways DEF Typed, TypeOK, StateTyped, DatabaseTyped
<1>2. \A b \in apps' : b.oid < nextOid => \E a \in apps : a.oid = b.oid /\ a.id = b.id
  BY <1>1, DatabaseStepObjectIds DEF DeleteInv
<1> SUFFICES ASSUME NEW r \in Request PROVE Own(r)'
  BY DEF OwnInv
<1>0. req \in [Request -> RequestState] /\ req[r] \in RequestState /\ RequestShape(req[r])
  BY DEF Typed, TypeOK, StateTyped, Shapes
<1>3. CASE req'[r] = req[r]
  <2>1. req[r].pc = "remove" => req[r].doc < nextOid
    BY <1>0 DEF RequestShape, DeleteInv, DeleteState
  <2>2. Own(r)
    BY DEF OwnInv
  <2> HIDE DEF OwnInv, DeleteInv
  <2>3. req'[r].pc = "remove" => \A b \in apps' : b.oid = req'[r].doc => b.id = req'[r].form.id
    BY <1>2, <1>3, <2>1, <2>2 DEF Own
  <2> QED
    BY <1>3, <2>2, <2>3 DEF Own
<1>4. CASE DeleteLocate(r)
  <2>1. apps' = apps /\ req[r].form.id \notin req[r].statics
    BY <1>4 DEF DeleteLocate, database, OwnInv, Own
  <2>2. CASE Finish(r, "ok")
    BY <1>0, <2>2 DEF Finish, Own
  <2>3. ASSUME NEW a \in WithId(req[r].form.id),
               req' = [req EXCEPT ![r] = [@ EXCEPT !.pc = "remove", !.doc = a.oid]]
        PROVE  Own(r)'
    <3>1. a \in apps /\ a.id = req[r].form.id
      BY DEF WithId
    <3>2. \A b \in apps : b.oid = a.oid => b = a
      BY <3>1 DEF DeleteInv, ObjectIds
    <3>3. req'[r].doc = a.oid /\ req'[r].form = req[r].form /\ req'[r].statics = req[r].statics
      BY <1>0, <2>3 DEF RequestState
    <3> QED
      BY <2>1, <3>1, <3>2, <3>3 DEF Own
  <2> QED
    BY <1>4, <2>2, <2>3 DEF DeleteLocate
<1>5. CASE RequestStep(r) /\ ~DeleteLocate(r)
  <2>1. /\ req[r].pc # "off" /\ req'[r].pc # "remove"
        /\ req'[r].form = req[r].form /\ req'[r].statics = req[r].statics
    <3>1. CASE AddFind(r)
      BY <1>0, <3>1 DEF AddFind, Finish, Goto, RequestState
    <3>2. CASE AddValidate(r)
      BY <1>0, <3>2 DEF AddValidate, Finish, Goto, RequestState
    <3>3. CASE AddInsert(r)
      BY <1>0, <3>3 DEF AddInsert, Finish, RequestState
    <3>4. CASE Update(r)
      BY <1>0, <3>4 DEF Update, Finish, RequestState
    <3>5. CASE DeleteRemove(r)
      BY <1>0, <3>5 DEF DeleteRemove, Finish, Goto, RequestState
    <3>6. CASE DeletePurge(r)
      BY <1>0, <3>6 DEF DeletePurge, Finish, RequestState
    <3> QED
      BY <1>5, <3>1, <3>2, <3>3, <3>4, <3>5, <3>6 DEF RequestStep
  <2> QED
    BY <2>1 DEF OwnInv, Own
<1>6. CASE RequestFails(r)
  BY <1>0, <1>6 DEF RequestFails, Finish, OwnInv, Own
<1>7. CASE BeginAdd(r) \/ BeginUpdate(r) \/ BeginDelete(r)
  <2>1. ASSUME NEW op, NEW url, NEW f, NEW pc \in {"find", "update", "locate"},
               Begin(r, op, url, f, pc)
        PROVE  Own(r)'
    BY <1>0, <2>1 DEF Begin, IdleRequest, Refuses, ThrowIfStaticClient, Own
  <2> QED
    BY <1>7, <2>1 DEF BeginAdd, BeginUpdate, BeginDelete
<1>8. CASE \E c \in SUBSET ClientId : Restart(c)
  BY <1>8 DEF Restart, IdleRequest, Own
<1> QED
  BY <1>3, <1>4, <1>5, <1>6, <1>7, <1>8, OneRequestMoves

(* The admin API leaves the documents of static clients alone: none that    *)
(* was static when the request began is created, changed or removed by any  *)
(* step of it (the handlers' ThrowIfStaticClient, and what they write).     *)
THEOREM AdminSparesStaticClients == Spec => StaticClientsProtected
<1> DEFINE A == \A r \in Request :
                  req'[r] # req[r] =>
                    \A a \in (apps \ apps') \cup (apps' \ apps) : a.id \notin req[r].statics
<1>1. Init => DeleteInv /\ OwnInv
  BY DeleteInit DEF Init, OwnInv, Own, IdleRequest
<1>2. Typed /\ DeleteInv /\ OwnInv /\ [Next]_vars => DeleteInv' /\ OwnInv'
  BY DeleteInductive, OwnInductive
<1>3. Typed /\ DeleteInv /\ OwnInv /\ [Next]_vars => [A]_vars
  <2> SUFFICES ASSUME Typed, DeleteInv, OwnInv, [Next]_vars,
                      NEW r \in Request, req'[r] # req[r],
                      NEW a \in (apps \ apps') \cup (apps' \ apps)
               PROVE  a.id \notin req[r].statics
    OBVIOUS
  <2>1. CASE RequestStep(r)
    <3>1. a.id = req[r].form.id
      BY <2>1, RequestTouches DEF Touched
    <3>2. req[r].pc # "off"
      BY <2>1 DEF RequestStep, AddFind, AddValidate, AddInsert, Update, DeleteLocate,
         DeleteRemove, DeletePurge
    <3> QED
      BY <3>1, <3>2 DEF OwnInv, Own
  <2>2. CASE \/ RequestFails(r) \/ BeginAdd(r) \/ BeginUpdate(r) \/ BeginDelete(r)
             \/ \E c \in SUBSET ClientId : Restart(c)
    <3>1. apps' = apps
      BY <2>2, Zenon DEF RequestFails, BeginAdd, BeginUpdate, BeginDelete, Begin,
         Restart, database
    <3> QED
      BY <3>1
  <2> QED
    BY <2>1, <2>2, OneRequestMoves
<1> QED
  BY <1>1, <1>2, <1>3, TypedAlways, PTL DEF Spec, StaticClientsProtected

-----------------------------------------------------------------------------
(* The registry is a catalogue.                                             *)

LEMMA OnePassMoves ==
    ASSUME Typed, [Next]_vars, NEW p \in Pass, pass'[p] # pass[p]
    PROVE  PassStep(p) \/ PassFails(p) \/ Configuration
<1>1. ASSUME NEW q \in Pass, PassStep(q) \/ PassFails(q), q # p
      PROVE  FALSE
  BY <1>1, PassStepShape, PassAssigned
<1>2. ASSUME NEW r \in Request, RequestStep(r) \/ RequestFails(r)
      PROVE  FALSE
  BY <1>2, RequestStepShape
<1>3. ASSUME \/ \E r \in Request : BeginAdd(r) \/ BeginUpdate(r) \/ BeginDelete(r)
             \/ Subscribe \/ IndexStep \/ IndexFails \/ IssueToken \/ UNCHANGED vars
      PROVE  FALSE
  <2>1. UNCHANGED pass
    BY <1>3, Zenon DEF BeginAdd, BeginUpdate, BeginDelete, Begin, Subscribe, IndexStep,
       IndexCheck, IndexBuild, IndexSetFlag, IndexFails, IndexFrame, IssueToken, vars
  <2> QED
    BY <2>1
<1> QED
  BY <1>1, <1>2, <1>3, Zenon DEF Next, Admin, Initializer

(* A pass purges the tokens of a document that is gone.                      *)
PurgesGone(p) == pass[p].pc = "purge" => ~Exists(pass[p].doc) /\ pass[p].doc < nextOid

CatalogueInv == DeleteInv /\ \A p \in Pass : PurgesGone(p)

LEMMA CatalogueInit == Init => CatalogueInv
<1> SUFFICES ASSUME Init PROVE CatalogueInv
  OBVIOUS
<1>1. pass = [p \in Pass |-> IF p = StartupPass THEN NewPass(config, TRUE) ELSE IdlePass]
  BY Zenon DEF Init
<1>2. NewPass(config, TRUE).pc = "list" /\ IdlePass.pc = "off"
  BY DEF NewPass, IdlePass
<1> QED
  BY <1>1, <1>2, DeleteInit DEF CatalogueInv, PurgesGone

LEMMA CatalogueInductive ==
    ASSUME Typed, CatalogueInv, [Next]_vars
    PROVE  CatalogueInv'
<1>1. DeleteInv' /\ ObjectIds
  BY DeleteInductive DEF CatalogueInv, DeleteInv
<1>2. DatabaseTyped /\ DatabaseStep
  BY DatabaseStepAlways DEF Typed, TypeOK, StateTyped, DatabaseTyped
<1>3. nextOid \in Nat /\ nextOid' \in Nat /\ nextOid <= nextOid'
      /\ (\A oid \in Nat : oid < nextOid /\ ~Exists(oid) => ~Exists(oid)')
  BY <1>1, <1>2, DatabaseStepObjectIds, DatabaseStepTyped DEF DatabaseTyped
<1> SUFFICES ASSUME NEW p \in Pass PROVE PurgesGone(p)'
  BY <1>1 DEF CatalogueInv
<1>4. pass \in [Pass -> PassState] /\ pass[p] \in PassState /\ pass[p].doc \in Nat
  BY DEF Typed, TypeOK, StateTyped, PassState
<1>5. ASSUME pass'[p].pc = pass[p].pc, pass'[p].doc = pass[p].doc
      PROVE  PurgesGone(p)'
  <2>1. PurgesGone(p)
    BY DEF CatalogueInv
  <2> QED
    BY <1>3, <1>4, <1>5, <2>1 DEF PurgesGone, Exists
<1>6. CASE PassRemove(p)
  <2>1. CASE pass'[p].pc = "off"
    BY <2>1 DEF PurgesGone
  <2>2. ASSUME NEW oid \in pass[p].doomed, Exists(oid), Remove(oid),
               pass' = [pass EXCEPT ![p] = [@ EXCEPT !.pc = "purge", !.doc = oid]]
        PROVE  PurgesGone(p)'
    <3>1. pass'[p].doc = oid
      BY <1>4, <2>2 DEF PassState
    <3>2. oid < nextOid /\ nextOid' = nextOid
      BY <1>1, <2>2 DEF Exists, ObjectIds, Remove
    <3>3. \A a \in apps' : a.oid # oid
      BY <2>2 DEF Remove
    <3> QED
      BY <3>1, <3>2, <3>3 DEF PurgesGone, Exists
  <2>3. ASSUME Abandon(p, "gone")
        PROVE  pass'[p].pc = "off"
    BY <1>4, <2>3 DEF Abandon, PassState
  <2> QED
    BY <1>6, <2>1, <2>2, <2>3 DEF PassRemove
<1>7. ASSUME \/ PassList(p) \/ PassPurge(p) \/ PassValidate(p)
             \/ PassInsert(p) \/ PassFails(p)
      PROVE  PurgesGone(p)'
  <2>1. ASSUME NEW doomed, NEW todo, Resume(p, doomed, todo)
        PROVE  pass'[p].pc # "purge"
    BY <1>4, <2>1 DEF Resume, PassState
  <2>2. ASSUME NEW result, Abandon(p, result)
        PROVE  pass'[p].pc # "purge"
    BY <1>4, <2>2 DEF Abandon, PassState
  <2>3. ASSUME NEW id, pass' = [pass EXCEPT ![p] = [@ EXCEPT !.pc = "insert", !.pick = id]]
        PROVE  pass'[p].pc # "purge"
    BY <1>4, <2>3 DEF PassState
  <2>4. pass'[p].pc # "purge"
    BY <1>7, <2>1, <2>2, <2>3
       DEF PassList, PassPurge, PassValidate, PassInsert, PassFails
  <2> QED
    BY <2>4 DEF PurgesGone
<1>8. CASE Configuration
  <2>1. ASSUME NEW c, NEW calm
        PROVE  NewPass(c, calm).pc = "list" /\ IdlePass.pc = "off"
    BY DEF NewPass, IdlePass
  <2>2. \/ pass'[p] = [pass[p] EXCEPT !.calm = FALSE]
        \/ pass'[p] = IdlePass
        \/ \E c, calm : pass'[p] = NewPass(c, calm)
    <3>1. ASSUME NEW c, NEW s \in Pass, Reload(c, s)
          PROVE  \/ pass'[p] = [pass[p] EXCEPT !.calm = FALSE]
                 \/ \E d, calm : pass'[p] = NewPass(d, calm)
      <4>1. PICK calm : pass' = [q \in Pass |-> IF q = s THEN NewPass(c, calm)
                                                ELSE [pass[q] EXCEPT !.calm = FALSE]]
        BY <3>1 DEF Reload
      <4> QED
        BY <4>1
    <3>2. ASSUME NEW c, ReloadUnwatched(c)
          PROVE  pass'[p] = [pass[p] EXCEPT !.calm = FALSE]
      BY <3>2 DEF ReloadUnwatched
    <3>3. ASSUME NEW c, Restart(c)
          PROVE  pass'[p] = IdlePass \/ \E d, calm : pass'[p] = NewPass(d, calm)
      BY <3>3 DEF Restart
    <3> QED
      BY <1>8, <3>1, <3>2, <3>3 DEF Configuration
  <2>3. CASE pass'[p] = [pass[p] EXCEPT !.calm = FALSE]
    <3>1. pass'[p].pc = pass[p].pc /\ pass'[p].doc = pass[p].doc
      BY <1>4, <2>3 DEF PassState
    <3> QED
      BY <1>5, <3>1
  <2>4. CASE pass'[p].pc # "purge"
    BY <2>4 DEF PurgesGone
  <2> QED
    BY <2>1, <2>2, <2>3, <2>4
<1>9. CASE pass'[p] = pass[p]
  BY <1>5, <1>9
<1> QED
  BY <1>6, <1>7, <1>8, <1>9, OnePassMoves DEF PassStep

(* Only the tokens of documents that are gone are taken away.                *)
LEMMA StandingKeepTokens ==
    ASSUME Typed, CatalogueInv, [Next]_vars, NEW oid \in tokens \ tokens'
    PROVE  tokens' = tokens \ {oid} /\ ~Exists(oid) /\ UNCHANGED <<apps, nextOid, indexed>>
<1>1. ASSUME NEW r \in Request, DeletePurge(r)
      PROVE  tokens' = tokens \ {oid} /\ ~Exists(oid) /\ UNCHANGED <<apps, nextOid, indexed>>
  <2>1. req[r].pc = "purge" /\ Purge(req[r].doc) /\ UNCHANGED indexed
    BY <1>1, Zenon DEF DeletePurge, RequestFrame, index
  <2>2. req[r].op = "delete"
    BY <2>1 DEF Typed, Shapes, RequestShape
  <2>3. ~Exists(req[r].doc)
    BY <2>1, <2>2 DEF CatalogueInv, DeleteInv, DeleteState
  <2>4. oid = req[r].doc
    BY <2>1 DEF Purge
  <2> QED
    BY <2>1, <2>3, <2>4, Zenon DEF Purge
<1>2. ASSUME NEW p \in Pass, PassPurge(p)
      PROVE  tokens' = tokens \ {oid} /\ ~Exists(oid) /\ UNCHANGED <<apps, nextOid, indexed>>
  <2>1. pass[p].pc = "purge" /\ Purge(pass[p].doc) /\ UNCHANGED indexed
    BY <1>2, Zenon DEF PassPurge, PassFrame, index
  <2>2. ~Exists(pass[p].doc)
    BY <2>1 DEF CatalogueInv, PurgesGone
  <2>3. oid = pass[p].doc
    BY <2>1 DEF Purge
  <2> QED
    BY <2>1, <2>2, <2>3, Zenon DEF Purge
<1>3. ASSUME NEW r \in Request, RequestStep(r) \/ RequestFails(r), ~DeletePurge(r)
      PROVE  FALSE
  BY <1>3 DEF RequestStep, RequestFails, AddFind, AddValidate, AddInsert, Update,
     DeleteLocate, DeleteRemove, Insert, Remove, database
<1>4. ASSUME NEW p \in Pass, PassStep(p) \/ PassFails(p), ~PassPurge(p)
      PROVE  FALSE
  BY <1>4 DEF PassStep, PassFails, PassList, PassRemove, PassValidate, PassInsert,
     Insert, Remove, database
<1>5. ASSUME \/ \E r \in Request : BeginAdd(r) \/ BeginUpdate(r) \/ BeginDelete(r)
             \/ Subscribe \/ Configuration \/ IndexStep \/ IndexFails \/ IssueToken
             \/ UNCHANGED vars
      PROVE  FALSE
  <2>1. UNCHANGED tokens \/ IssueToken
    BY <1>5, Zenon DEF BeginAdd, BeginUpdate, BeginDelete, Begin, Subscribe, Configuration,
       Reload, ReloadUnwatched, Restart, IndexStep, IndexCheck, IndexBuild, IndexSetFlag,
       IndexFails, IndexFrame, vars, database
  <2> QED
    BY <2>1 DEF IssueToken
<1> QED
  BY <1>1, <1>2, <1>3, <1>4, <1>5, Zenon DEF Next, Admin, Initializer

LEMMA InitCatalogue == Init => Clients!Init
<1> SUFFICES ASSUME Init PROVE Clients!Init
  OBVIOUS
<1>1. apps = {} /\ tokens = {} /\ nextOid = 1 /\ indexed = FALSE
  BY Zenon DEF Init
<1>2. {[oid |-> a.oid, id |-> a.id] : a \in apps} = {} /\ 1 .. (nextOid - 1) = {}
  BY <1>1
<1> QED
  BY <1>1, <1>2, Zenon DEF Clients!Init

(* Every step on the collections is one of the catalogue's, or none.         *)
Shown(S) == {[oid |-> a.oid, id |-> a.id] : a \in S}

LEMMA ShownFacts ==
    ASSUME Typed, CatalogueInv
    PROVE  /\ apps \subseteq App /\ nextOid \in Nat /\ 0 < nextOid
           /\ \A oid : oid \in {d.oid : d \in Shown(apps)} <=> Exists(oid)
           /\ \A a \in apps : a.oid \in Nat /\ a.oid < nextOid
           /\ \A a, b \in apps : a.oid = b.oid => a = b
<1>1. apps \subseteq App /\ nextOid \in Nat /\ 0 < nextOid
  BY DEF Typed, TypeOK, StateTyped
<1>2. \A oid : oid \in {d.oid : d \in Shown(apps)} <=> Exists(oid)
  <2>1. ASSUME NEW a \in apps
        PROVE  a.oid \in {d.oid : d \in Shown(apps)}
    <3> DEFINE e == [oid |-> a.oid, id |-> a.id]
    <3>1. e \in Shown(apps) /\ e.oid = a.oid
      BY DEF Shown
    <3> HIDE DEF e
    <3> QED
      BY <3>1
  <2>2. ASSUME NEW d \in Shown(apps)
        PROVE  Exists(d.oid)
    BY DEF Shown, Exists
  <2> QED
    BY <2>1, <2>2 DEF Exists
<1> QED
  BY <1>1, <1>2 DEF App, CatalogueInv, DeleteInv, ObjectIds

LEMMA InsertRegisters ==
    ASSUME Typed, CatalogueInv, InsertStep, indexed' = indexed
    PROVE  Clients!Register
<1>1. PICK id \in ClientId, e \in App :
        /\ e.oid = nextOid /\ e.id = id /\ MayInsert(id)
        /\ apps' = apps \cup {e} /\ nextOid' = nextOid + 1 /\ tokens' = tokens
  BY ShownFacts DEF InsertStep, Insert, App
<1> DEFINE d == [oid |-> nextOid, id |-> id]
<1>2. Shown(apps') = Shown(apps) \cup {d}
  BY <1>1 DEF Shown
<1>3. d.oid = nextOid /\ d.id = id /\ d \in [oid : Nat, id : ClientId]
  BY ShownFacts
<1>4. \A x \in Shown(apps) : \E a \in apps : x.oid = a.oid /\ x.id = a.id
  BY DEF Shown
<1> HIDE DEF d
<1>5. d \notin Shown(apps)
  BY <1>3, <1>4, ShownFacts
<1>6. 1 .. (nextOid' - 1) = (1 .. (nextOid - 1)) \cup {nextOid} /\ nextOid \notin 1 .. (nextOid - 1)
  BY <1>1, ShownFacts
<1>7. indexed => \A x \in Shown(apps) : x.id # id
  BY <1>1, <1>4 DEF MayInsert, WithId
<1> QED
  BY <1>1, <1>2, <1>3, <1>5, <1>6, <1>7 DEF Clients!Register, Clients!Document, Shown

LEMMA StepCatalogue ==
    ASSUME Typed, CatalogueInv, [Next]_vars, indexed' = indexed
    PROVE  Clients!Next \/ UNCHANGED Clients!vars
<1>1. CASE InsertStep
  BY <1>1, InsertRegisters DEF Clients!Next
<1>2. CASE AmendStep
  <2>1. PICK a \in apps, e \in App : /\ e.oid = a.oid /\ e.id = a.id
                                     /\ apps' = (apps \ {a}) \cup {e}
                                     /\ UNCHANGED <<tokens, nextOid>>
    BY <1>2, ShownFacts DEF AmendStep, App
  <2>2. Shown(apps') = Shown(apps)
    BY <2>1 DEF Shown
  <2> QED
    BY <2>1, <2>2 DEF Clients!vars, Shown
<1>3. CASE RemoveStep
  <2>1. PICK oid \in Nat : /\ apps' = {a \in apps : a.oid # oid}
                           /\ UNCHANGED <<tokens, nextOid>>
    BY <1>3 DEF RemoveStep, Remove
  <2>2. CASE \A a \in apps : a.oid # oid
    BY <2>1, <2>2 DEF Clients!vars
  <2>3. ASSUME NEW a \in apps, a.oid = oid
        PROVE  Clients!Remove
    <3> DEFINE d == [oid |-> a.oid, id |-> a.id]
    <3>1. d \in Shown(apps)
      BY DEF Shown
    <3>2. apps' = apps \ {a}
      BY <2>1, <2>3, ShownFacts
    <3>3. \A b \in apps : [oid |-> b.oid, id |-> b.id] = d => b = a
      BY ShownFacts
    <3> HIDE DEF d
    <3>4. Shown(apps') = Shown(apps) \ {d}
      BY <3>2, <3>3 DEF Shown, d
    <3> QED
      BY <2>1, <3>1, <3>4 DEF Clients!Remove, Shown
  <2> QED
    BY <2>2, <2>3 DEF Clients!Next
<1>4. CASE PurgeStep
  <2>1. UNCHANGED <<apps, nextOid>>
    BY <1>4 DEF PurgeStep, Purge
  <2>2. CASE tokens' = tokens
    BY <2>1, <2>2 DEF Clients!vars
  <2>3. CASE tokens' # tokens
    <3>1. PICK oid \in tokens : oid \notin tokens'
      BY <1>4, <2>3 DEF PurgeStep, Purge
    <3>2. tokens' = tokens \ {oid} /\ ~Exists(oid)
      BY <3>1, StandingKeepTokens
    <3>3. Clients!Purge
      BY <2>1, <3>1, <3>2, ShownFacts DEF Clients!Purge, Clients!Standing, Shown
    <3> QED
      BY <3>3 DEF Clients!Next
  <2> QED
    BY <2>2, <2>3
<1>5. CASE TokenStep
  <2>1. PICK a \in apps : tokens' = tokens \cup {a.oid} /\ UNCHANGED <<apps, nextOid>>
    BY <1>5 DEF TokenStep
  <2>2. Clients!Issue
    BY <2>1, ShownFacts DEF Clients!Issue, Clients!Standing, Shown, Exists
  <2> QED
    BY <2>2 DEF Clients!Next
<1>6. CASE UNCHANGED database
  BY <1>6 DEF Clients!vars, database
<1> QED
  BY <1>1, <1>2, <1>3, <1>4, <1>5, <1>6, DatabaseStepAlways DEF DatabaseStep

LEMMA BuildCatalogue ==
    ASSUME Typed, [Next]_vars, indexed' # indexed
    PROVE  Clients!BuildIndex
<1>1. IndexBuild
  BY WhoIndexes, Zenon DEF IndexStep, IndexCheck, IndexSetFlag, IndexFails, Restart
<1>2. UNCHANGED <<apps, tokens, nextOid>>
  BY <1>1, Zenon DEF IndexBuild, IndexFrame, database
<1>3. indexed' = TRUE /\ IdsUnique
  BY <1>1, Zenon DEF IndexBuild, Typed, TypeOK, FlagsTyped
<1>4. \A d, e \in Shown(apps) : d.id = e.id => d = e
  BY <1>3 DEF IdsUnique, Shown
<1> QED
  BY <1>2, <1>3, <1>4 DEF Clients!BuildIndex, Shown

(* The registry keeps the promise of a catalogue whoever writes: ids of      *)
(* documents are given once, client ids are unique once the index is built,   *)
(* and tokens are taken away only once their document is gone (the handlers,  *)
(* the passes, MongoDbPerformanceInitializer and the manager's deletes).      *)
THEOREM RegistryIsACatalogue == Spec => ImplementsCatalogue
<1>1. Typed /\ CatalogueInv /\ [Next]_vars => [Clients!Next]_(Clients!vars)
  BY StepCatalogue, BuildCatalogue DEF Clients!Next
<1>2. Typed /\ CatalogueInv /\ [Next]_vars => CatalogueInv'
  BY CatalogueInductive
<1> QED
  BY <1>1, <1>2, InitCatalogue, CatalogueInit, TypedAlways, PTL
  DEF Spec, ImplementsCatalogue, Clients!Spec
=============================================================================
