-------------------------- MODULE StaticClientProofs --------------------------
(* The pass of ApplicationClientInitializer that has its clients to itself  *)
(* leaves them as configured: StaticClientsServed for every instance.       *)
EXTENDS ClientRegistryProofs

-----------------------------------------------------------------------------
(* The inductive invariant.                                                 *)

(* Nothing but the pass can reach a document of a static client.            *)
Alone(p) ==
    /\ pass[p].cfg = config
    /\ \A q \in Pass : q # p => pass[q].pc = "off"
    /\ \A r \in Request : req[r].pc # "off" => req[r].form.id \notin config

(* Every document of a static client is still to be deleted.                *)
Listed(ids, oids) == \A a \in apps : a.id \in ids => a.oid \in oids

(* Those still to be created have no document, the others are served.       *)
Created(ids, todo) ==
    /\ todo \subseteq ids
    /\ \A id \in todo : WithId(id) = {}
    /\ \A id \in ids \ todo : Served(id)

(* How far the pass has come.                                               *)
Progress(q) ==
    /\ q.result # "exists"
    /\ q.pc \in {"list", "delete", "purge"} => q.todo = q.cfg
    /\ q.pc = "delete" => Listed(q.cfg, q.doomed)
    /\ q.pc = "purge" => Listed(q.cfg, q.doomed \ {q.doc})
    /\ q.pc \in {"create", "insert"} => Created(q.cfg, q.todo)
    /\ q.result = "ok" => \A id \in q.cfg : Served(id)

CalmInv == \A p \in Pass : pass[p].calm => Alone(p) /\ Progress(pass[p])

-----------------------------------------------------------------------------
(* Progress depends on the documents of the static clients only.            *)

SameDocuments(ids) == \A a : a.id \in ids => (a \in apps <=> a \in apps')

LEMMA ServedFrame ==
    ASSUME NEW ids, SameDocuments(ids), NEW id \in ids
    PROVE  /\ WithId(id) = {} => WithId(id)' = {}
           /\ Served(id) => Served(id)'
BY DEF SameDocuments, WithId, Served, AsConfigured

LEMMA ProgressFrame ==
    ASSUME NEW q \in PassState, Progress(q), SameDocuments(q.cfg)
    PROVE  Progress(q)'
<1>1. \A oids : Listed(q.cfg, oids) => Listed(q.cfg, oids)'
  BY DEF SameDocuments, Listed
<1>2. \A todo : Created(q.cfg, todo) => Created(q.cfg, todo)'
  BY ServedFrame DEF Created
<1>3. (\A id \in q.cfg : Served(id)) => (\A id \in q.cfg : Served(id))'
  BY ServedFrame
<1> QED
  BY <1>1, <1>2, <1>3 DEF Progress

-----------------------------------------------------------------------------
(* The steps of the pass itself.                                            *)

(* The slot of a pass after Resume.                                         *)
LEMMA Resumed ==
    ASSUME pass \in [Pass -> PassState], NEW p \in Pass, NEW doomed, NEW todo,
           Resume(p, doomed, todo)
    PROVE  /\ pass'[p].doomed = doomed /\ pass'[p].todo = todo /\ pass'[p].cfg = pass[p].cfg
           /\ doomed # {} => pass'[p].pc = "delete" /\ pass'[p].result = "none"
           /\ doomed = {} /\ todo # {} => pass'[p].pc = "create" /\ pass'[p].result = "none"
           /\ doomed = {} /\ todo = {} => pass'[p].pc = "off" /\ pass'[p].result = "ok"
BY DEF Resume, PassState

LEMMA ListProgress ==
    ASSUME Typed, NEW p \in Pass, Progress(pass[p]), PassList(p)
    PROVE  Progress(pass[p])'
<1>0. PICK cfg, doomed : cfg = pass[p].cfg /\ doomed = Doomed(cfg)
  OBVIOUS
<1>1. pass \in [Pass -> PassState] /\ Resume(p, doomed, cfg) /\ apps' = apps
  BY <1>0 DEF PassList, database, Typed, TypeOK, StateTyped
<1>2. \A a \in apps : a.id \in cfg => a.oid \in doomed
  BY <1>0 DEF Doomed
<1>3. Listed(cfg, doomed)'
  BY <1>1, <1>2 DEF Listed
<1>4. CASE doomed # {}
  BY <1>0, <1>1, <1>3, <1>4, Resumed DEF Progress
<1>5. CASE doomed = {}
  <2>1. \A id \in cfg : WithId(id)' = {}
    BY <1>1, <1>2, <1>5 DEF WithId
  <2>2. Created(cfg, cfg)'
    BY <2>1 DEF Created
  <2> QED
    BY <1>0, <1>1, <1>5, <2>2, Resumed DEF Progress
<1> QED
  BY <1>4, <1>5

LEMMA RemoveProgress ==
    ASSUME Typed, NEW p \in Pass, Progress(pass[p]), PassRemove(p)
    PROVE  Progress(pass[p])'
<1>0. pass \in [Pass -> PassState] /\ pass[p].pc = "delete" /\ pass[p].result = "none"
  BY DEF PassRemove, Typed, TypeOK, StateTyped, Shapes, PassShape
<1>1. pass[p].todo = pass[p].cfg /\ Listed(pass[p].cfg, pass[p].doomed)
  BY <1>0 DEF Progress
<1>2. CASE Abandon(p, "gone")
  BY <1>0, <1>2 DEF Abandon, Progress, PassState
<1>3. ASSUME NEW oid \in pass[p].doomed, Remove(oid),
             pass' = [pass EXCEPT ![p] = [@ EXCEPT !.pc = "purge", !.doc = oid]]
      PROVE  Progress(pass[p])'
  <2>1. Listed(pass[p].cfg, pass[p].doomed \ {oid})'
    BY <1>0, <1>1, <1>3 DEF Remove, Listed, PassState
  <2>2. /\ pass'[p].pc = "purge" /\ pass'[p].doc = oid /\ pass'[p].result = "none"
        /\ pass'[p].todo = pass[p].todo /\ pass'[p].cfg = pass[p].cfg
        /\ pass'[p].doomed = pass[p].doomed
    BY <1>0, <1>3 DEF PassState
  <2> QED
    BY <1>1, <2>1, <2>2 DEF Progress
<1> QED
  BY <1>2, <1>3 DEF PassRemove

LEMMA PurgeProgress ==
    ASSUME Typed, NEW p \in Pass, Progress(pass[p]), PassPurge(p)
    PROVE  Progress(pass[p])'
<1>0. PICK cfg, left : cfg = pass[p].cfg /\ left = pass[p].doomed \ {pass[p].doc}
  OBVIOUS
<1>1. pass[p].todo = cfg /\ Listed(cfg, left)
  BY <1>0 DEF PassPurge, Progress
<1>2. pass \in [Pass -> PassState] /\ Resume(p, left, cfg) /\ apps' = apps
  BY <1>0, <1>1 DEF PassPurge, Purge, Typed, TypeOK, StateTyped
<1>3. CASE left # {}
  BY <1>0, <1>1, <1>2, <1>3, Resumed DEF Progress, Listed
<1>4. CASE left = {}
  <2>1. Created(cfg, cfg)'
    BY <1>1, <1>2, <1>4 DEF Created, Listed, WithId
  <2> QED
    BY <1>0, <1>2, <1>4, <2>1, Resumed DEF Progress
<1> QED
  BY <1>3, <1>4

LEMMA ValidateProgress ==
    ASSUME Typed, NEW p \in Pass, Progress(pass[p]), PassValidate(p)
    PROVE  Progress(pass[p])'
<1>1. /\ pass \in [Pass -> PassState] /\ pass[p].pc = "create" /\ pass[p].result = "none"
      /\ apps' = apps
  BY DEF PassValidate, Typed, TypeOK, StateTyped, Shapes, PassShape, database
<1>2. Created(pass[p].cfg, pass[p].todo)
  BY <1>1 DEF Progress
<1>3. \A id \in pass[p].todo :
        PassesValidation(id, Entry[id].type, Entry[id].type = "confidential")
  BY <1>2 DEF Created, PassesValidation, Acceptable
<1>4. PICK id \in pass[p].todo :
        pass' = [pass EXCEPT ![p] = [@ EXCEPT !.pc = "insert", !.pick = id]]
  BY <1>3, Zenon DEF PassValidate
<1>5. /\ pass'[p].pc = "insert" /\ pass'[p].result = "none"
      /\ pass'[p].todo = pass[p].todo /\ pass'[p].cfg = pass[p].cfg
  BY <1>1, <1>4 DEF PassState
<1>6. Created(pass[p].cfg, pass[p].todo)'
  BY <1>1, <1>2, <1>5 DEF Created, Served, AsConfigured, WithId
<1> QED
  BY <1>5, <1>6 DEF Progress

LEMMA InsertProgress ==
    ASSUME Typed, NEW p \in Pass, Progress(pass[p]), PassInsert(p)
    PROVE  Progress(pass[p])'
<1>0. PICK cfg, todo, id : cfg = pass[p].cfg /\ todo = pass[p].todo /\ id = pass[p].pick
  OBVIOUS
<1>1. pass \in [Pass -> PassState] /\ pass[p].pc = "insert" /\ id \in todo
  BY <1>0 DEF PassInsert, Typed, TypeOK, StateTyped, Shapes, PassShape
<1>2. Created(cfg, todo)
  BY <1>0, <1>1 DEF Progress
<1>3. MayInsert(id)
  BY <1>1, <1>2 DEF Created, MayInsert
<1>4. PICK new : /\ new.id = id /\ AsConfigured(new)
                 /\ apps' = apps \cup {new} /\ Resume(p, {}, todo \ {id})
  <2> DEFINE document == [oid |-> nextOid, id |-> id, name |-> Entry[id].name,
                          type |-> Entry[id].type, secret |-> (Entry[id].type = "confidential")]
  <2>1. apps' = apps \cup {document} /\ Resume(p, {}, todo \ {id})
    BY <1>0, <1>3, Zenon DEF PassInsert, Insert
  <2>2. document.id = id /\ AsConfigured(document)
    BY DEF AsConfigured
  <2> QED
    BY <2>1, <2>2
<1>5. ASSUME NEW other, other # id
      PROVE  /\ WithId(other) = {} => WithId(other)' = {}
             /\ Served(other) => Served(other)'
  <2>1. \A a : a.id = other => (a \in apps <=> a \in apps')
    BY <1>4, <1>5
  <2>2. SameDocuments({other})
    BY <2>1 DEF SameDocuments
  <2> QED
    BY <2>2, ServedFrame
<1>6. Served(id)'
  <2>1. \A b \in apps : b.id # id
    BY <1>1, <1>2 DEF Created, WithId
  <2>2. new \in apps' /\ \A b \in apps' : b.id = id => b = new
    BY <1>4, <2>1
  <2> QED
    BY <1>4, <2>2 DEF Served, AsConfigured
<1>7. Created(cfg, todo \ {id})'
  <2>1. todo \subseteq cfg /\ (\A other \in todo : WithId(other) = {})
        /\ (\A other \in cfg \ todo : Served(other))
    BY <1>2 DEF Created
  <2>2. ASSUME NEW other \in todo \ {id} PROVE WithId(other)' = {}
    BY <1>5, <2>1
  <2>3. ASSUME NEW other \in cfg \ (todo \ {id}) PROVE Served(other)'
    <3>1. CASE other = id
      BY <1>6, <3>1
    <3>2. CASE other # id
      BY <1>5, <2>1, <3>2
    <3> QED
      BY <3>1, <3>2
  <2> QED
    BY <2>1, <2>2, <2>3 DEF Created
<1>8. todo \ {id} = {} => \A other \in cfg : Served(other)'
  BY <1>7 DEF Created
<1> QED
  BY <1>0, <1>1, <1>4, <1>7, <1>8, Resumed DEF Progress

LEMMA PassProgress ==
    ASSUME Typed, NEW p \in Pass, Progress(pass[p]), PassStep(p) \/ PassFails(p)
    PROVE  Progress(pass[p])'
<1>1. CASE PassFails(p)
  <2>1. pass'[p].pc = "off" /\ pass'[p].result = "failed"
    BY <1>1 DEF PassFails, Abandon, Typed, TypeOK, StateTyped, PassState
  <2> QED
    BY <2>1 DEF Progress
<1> QED
  BY <1>1, ListProgress, RemoveProgress, PurgeProgress, ValidateProgress, InsertProgress
     DEF PassStep

-----------------------------------------------------------------------------
(* Every step keeps the invariant.                                          *)

(* A step of anything but the pass leaves it and its documents alone.       *)
Undisturbed(p) ==
    /\ pass' = pass
    /\ config' = config
    /\ SameDocuments(config)

LEMMA RequestUndisturbing ==
    ASSUME Typed, DeleteInv, OwnInv, NEW p \in Pass, Alone(p), NEW r \in Request,
           RequestStep(r) \/ RequestFails(r)
    PROVE  Undisturbed(p)
<1>1. UNCHANGED <<index, config, pass, subscribed>>
  BY RequestStepShape
<1>2. CASE RequestFails(r)
  BY <1>1, <1>2 DEF RequestFails, database, SameDocuments, Undisturbed
<1>3. CASE RequestStep(r)
  <2>1. req[r].pc # "off"
    BY <1>3 DEF RequestStep, AddFind, AddValidate, AddInsert, Update, DeleteLocate,
       DeleteRemove, DeletePurge
  <2>2. req[r].form.id \notin config
    BY <2>1 DEF Alone
  <2>3. \A a \in Touched : a.id \notin config
    BY <1>3, <2>2, RequestTouches
  <2> QED
    BY <1>1, <2>3 DEF Touched, SameDocuments, Undisturbed
<1> QED
  BY <1>2, <1>3

LEMMA QuietSteps ==
    ASSUME NEW p \in Pass,
           \/ \E r \in Request : BeginAdd(r) \/ BeginUpdate(r) \/ BeginDelete(r)
           \/ Subscribe \/ IndexStep \/ IndexFails \/ IssueToken \/ UNCHANGED vars
    PROVE  Undisturbed(p)
<1>1. pass' = pass /\ config' = config /\ apps' = apps
  <2>1. ASSUME NEW r \in Request, BeginAdd(r) \/ BeginUpdate(r) \/ BeginDelete(r)
        PROVE  pass' = pass /\ config' = config /\ apps' = apps
    BY <2>1, Zenon DEF BeginAdd, BeginUpdate, BeginDelete, Begin, database
  <2>2. CASE Subscribe \/ IssueToken \/ UNCHANGED vars
    BY <2>2, Zenon DEF Subscribe, IssueToken, vars, database
  <2>3. CASE IndexStep \/ IndexFails
    BY <2>3, Zenon DEF IndexStep, IndexCheck, IndexBuild, IndexSetFlag, IndexFails,
       IndexFrame, database
  <2> QED
    BY <2>1, <2>2, <2>3
<1> QED
  BY <1>1 DEF Undisturbed, SameDocuments

(* Who can be in flight for a static client while the pass is calm.         *)
LEMMA RequestsStayAway ==
    ASSUME Typed, [Next]_vars, config' = config, NEW r \in Request,
           req[r].pc # "off" => req[r].form.id \notin config
    PROVE  req'[r].pc # "off" => req'[r].form.id \notin config
<1>0. req \in [Request -> RequestState]
  BY DEF Typed, TypeOK, StateTyped
<1>1. CASE req'[r] = req[r]
  BY <1>1
<1>2. CASE RequestStep(r) \/ RequestFails(r)
  <2>1. req[r].pc # "off"
    BY <1>2 DEF RequestStep, AddFind, AddValidate, AddInsert, Update, DeleteLocate,
       DeleteRemove, DeletePurge, RequestFails
  <2>2. req'[r].form = req[r].form
    <3>1. CASE AddFind(r)
      BY <1>0, <3>1 DEF AddFind, Finish, Goto, RequestState
    <3>2. CASE AddValidate(r)
      BY <1>0, <3>2 DEF AddValidate, Finish, Goto, RequestState
    <3>3. CASE AddInsert(r)
      BY <1>0, <3>3 DEF AddInsert, Finish, RequestState
    <3>4. CASE Update(r)
      BY <1>0, <3>4 DEF Update, Finish, RequestState
    <3>5. CASE DeleteLocate(r)
      BY <1>0, <3>5 DEF DeleteLocate, Finish, RequestState
    <3>6. CASE DeleteRemove(r)
      BY <1>0, <3>6 DEF DeleteRemove, Finish, Goto, RequestState
    <3>7. CASE DeletePurge(r)
      BY <1>0, <3>7 DEF DeletePurge, Finish, RequestState
    <3>8. CASE RequestFails(r)
      BY <1>0, <3>8 DEF RequestFails, Finish, RequestState
    <3> QED
      BY <1>2, <3>1, <3>2, <3>3, <3>4, <3>5, <3>6, <3>7, <3>8 DEF RequestStep
  <2> QED
    BY <2>1, <2>2
<1>3. CASE BeginAdd(r) \/ BeginUpdate(r) \/ BeginDelete(r)
  <2>1. ASSUME NEW op, NEW url, NEW f, NEW pc, Begin(r, op, url, f, pc)
        PROVE  req'[r].pc # "off" => req'[r].form.id \notin config
    BY <1>0, <2>1 DEF Begin, IdleRequest, Refuses, ThrowIfStaticClient
  <2> QED
    BY <1>3, <2>1 DEF BeginAdd, BeginUpdate, BeginDelete
<1>4. CASE \E c \in SUBSET ClientId : Restart(c)
  BY <1>4 DEF Restart, IdleRequest
<1> QED
  BY <1>1, <1>2, <1>3, <1>4, OneRequestMoves

(* An idle slot, as the provers need it. *)
LEMMA IdlePassIs == IdlePass.calm = FALSE /\ IdlePass.pc = "off"
BY DEF IdlePass

LEMMA PassKeeps ==
    ASSUME Typed, NEW p \in Pass, PassStep(p) \/ PassFails(p)
    PROVE  pass'[p].calm = pass[p].calm /\ pass'[p].cfg = pass[p].cfg
<1>0. pass \in [Pass -> PassState]
  BY DEF Typed, TypeOK, StateTyped
<1>1. CASE PassList(p)
  BY <1>0, <1>1 DEF PassList, Resume, PassState
<1>2. CASE PassRemove(p)
  BY <1>0, <1>2 DEF PassRemove, Abandon, PassState
<1>3. CASE PassPurge(p)
  BY <1>0, <1>3 DEF PassPurge, Resume, PassState
<1>4. CASE PassValidate(p)
  BY <1>0, <1>4 DEF PassValidate, Abandon, PassState
<1>5. CASE PassInsert(p)
  <2>1. CASE Abandon(p, "exists")
    BY <1>0, <2>1 DEF Abandon, PassState
  <2>2. CASE \E todo : Resume(p, {}, todo)
    BY <1>0, <2>2 DEF Resume, PassState
  <2> QED
    BY <1>5, <2>1, <2>2, Zenon DEF PassInsert
<1>6. CASE PassFails(p)
  BY <1>0, <1>6 DEF PassFails, Abandon, PassState
<1> QED
  BY <1>1, <1>2, <1>3, <1>4, <1>5, <1>6 DEF PassStep

LEMMA CalmInductive ==
    ASSUME Typed, DeleteInv, OwnInv, CalmInv, [Next]_vars
    PROVE  CalmInv'
<1> SUFFICES ASSUME NEW p \in Pass, pass'[p].calm
             PROVE  Alone(p)' /\ Progress(pass[p])'
  BY DEF CalmInv
<1>0. pass \in [Pass -> PassState] /\ pass[p] \in PassState
  BY DEF Typed, TypeOK, StateTyped
<1>1. ASSUME pass[p].calm, Undisturbed(p) PROVE Alone(p)' /\ Progress(pass[p])'
  <2>1. Alone(p) /\ Progress(pass[p]) /\ pass' = pass /\ config' = config
    BY <1>1 DEF CalmInv, Undisturbed
  <2>2. Progress(pass[p])'
    BY <1>0, <1>1, <2>1, ProgressFrame DEF Undisturbed, Alone
  <2>3. Alone(p)'
    BY <2>1, RequestsStayAway DEF Alone
  <2> QED
    BY <2>2, <2>3
<1>2. ASSUME PassStep(p) \/ PassFails(p) PROVE Alone(p)' /\ Progress(pass[p])'
  <2>1. pass[p].calm /\ pass'[p].cfg = pass[p].cfg
    BY <1>2, PassKeeps
  <2>2. Alone(p) /\ Progress(pass[p])
    BY <2>1 DEF CalmInv
  <2>3. config' = config /\ req' = req /\ \A q \in Pass : q # p => pass'[q] = pass[q]
    BY <1>2, PassStepShape, PassAssigned
  <2>4. Alone(p)'
    BY <2>1, <2>2, <2>3 DEF Alone
  <2> QED
    BY <1>2, <2>2, <2>4, PassProgress
<1>3. ASSUME NEW q \in Pass, q # p, PassStep(q) \/ PassFails(q) PROVE FALSE
  <2>1. pass'[p] = pass[p]
    BY <1>3, PassStepShape, PassAssigned
  <2>2. pass[q].pc = "off"
    BY <1>3, <2>1 DEF CalmInv, Alone
  <2> QED
    BY <1>3, <2>2 DEF PassStep, PassList, PassRemove, PassPurge, PassValidate, PassInsert,
       PassFails
<1>4. ASSUME NEW c \in SUBSET ClientId, NEW q \in Pass, Reload(c, q)
      PROVE  Alone(p)' /\ Progress(pass[p])'
  <2>1. /\ config' = c /\ req' = req
        /\ \A s \in Pass : pass'[s] = IF s = q THEN NewPass(c, Unattended(c))
                                               ELSE [pass[s] EXCEPT !.calm = FALSE]
    BY <1>4 DEF Reload
  <2>2. p = q
    BY <1>0, <2>1 DEF PassState
  <2>3. Unattended(c) /\ pass'[p] = NewPass(c, Unattended(c))
    BY <2>1, <2>2 DEF NewPass, IdlePass
  <2>4. Progress(pass[p])' /\ pass'[p].cfg = c
    <3>1. /\ pass'[p].pc = "list" /\ pass'[p].result = "none"
          /\ pass'[p].todo = c /\ pass'[p].cfg = c
      BY <2>3 DEF NewPass, IdlePass
    <3> QED
      BY <3>1 DEF Progress
  <2>5. Alone(p)'
    <3>1. \A s \in Pass : s # p => pass'[s].pc = "off"
      BY <2>1, <2>2, <2>3 DEF Unattended, Typed, TypeOK, StateTyped, PassState
    <3>2. \A r \in Request : req'[r].pc # "off" => req'[r].form.id \notin config'
      BY <2>1, <2>3 DEF Unattended
    <3> QED
      BY <2>1, <2>4, <3>1, <3>2 DEF Alone
  <2> QED
    BY <2>4, <2>5
<1>5. ASSUME NEW c \in SUBSET ClientId, ReloadUnwatched(c) PROVE FALSE
  BY <1>0, <1>5 DEF ReloadUnwatched, PassState
<1>6. ASSUME NEW c \in SUBSET ClientId, Restart(c) PROVE Alone(p)' /\ Progress(pass[p])'
  <2>1. /\ config' = c /\ \A r \in Request : req'[r] = IdleRequest
        /\ \A s \in Pass : pass'[s] = IF s = StartupPass THEN NewPass(c, TRUE) ELSE IdlePass
    BY <1>6, PassAssumption DEF Restart
  <2>2. p = StartupPass /\ pass'[p] = NewPass(c, TRUE)
    BY <2>1, IdlePassIs
  <2>3. Progress(pass[p])' /\ pass'[p].cfg = c
    <3>1. /\ pass'[p].pc = "list" /\ pass'[p].result = "none"
          /\ pass'[p].todo = c /\ pass'[p].cfg = c
      BY <2>2 DEF NewPass, IdlePass
    <3> QED
      BY <3>1 DEF Progress
  <2>4. Alone(p)'
    <3>1. \A s \in Pass : s # p => pass'[s].pc = "off"
      BY <2>1, <2>2, IdlePassIs
    <3>2. \A r \in Request : req'[r].pc = "off"
      BY <2>1 DEF IdleRequest
    <3> QED
      BY <2>1, <2>3, <3>1, <3>2 DEF Alone
  <2> QED
    BY <2>3, <2>4
<1>7. ASSUME NEW r \in Request, RequestStep(r) \/ RequestFails(r)
      PROVE  Alone(p)' /\ Progress(pass[p])'
  <2>1. pass' = pass
    BY <1>7, RequestStepShape
  <2>2. pass[p].calm /\ Alone(p)
    BY <2>1 DEF CalmInv
  <2> QED
    BY <1>1, <1>7, <2>2, RequestUndisturbing
<1>8. ASSUME \/ \E r \in Request : BeginAdd(r) \/ BeginUpdate(r) \/ BeginDelete(r)
             \/ Subscribe \/ IndexStep \/ IndexFails \/ IssueToken \/ UNCHANGED vars
      PROVE  Alone(p)' /\ Progress(pass[p])'
  <2>1. Undisturbed(p)
    BY <1>8, QuietSteps
  <2>2. pass[p].calm
    BY <2>1 DEF Undisturbed
  <2> QED
    BY <1>1, <2>1, <2>2
<1> QED
  BY <1>2, <1>3, <1>4, <1>5, <1>6, <1>7, <1>8, Zenon DEF Next, Admin, Initializer, Configuration

(* A pass of ApplicationClientInitializer with its clients to itself leaves *)
(* each of them registered as configured, and they stay so until the next   *)
(* change of the configuration or the next start; and it never stumbles     *)
(* over a document it failed to clear away.                                 *)
THEOREM StaticClientsAreServed == Spec => []StaticClientsServed
<1>1. Init => DeleteInv /\ OwnInv /\ CalmInv
  <2> SUFFICES ASSUME Init PROVE DeleteInv /\ OwnInv /\ CalmInv
    OBVIOUS
  <2>1. /\ req = [r \in Request |-> IdleRequest]
        /\ pass = [p \in Pass |-> IF p = StartupPass THEN NewPass(config, TRUE) ELSE IdlePass]
    BY Zenon DEF Init
  <2>2. DeleteInv /\ OwnInv
    BY <2>1, DeleteInit DEF OwnInv, Own, IdleRequest
  <2>3. ASSUME NEW p \in Pass, pass[p].calm PROVE Alone(p) /\ Progress(pass[p])
    <3>1. p = StartupPass /\ pass[p] = NewPass(config, TRUE)
      BY <2>1, <2>3 DEF IdlePass
    <3>2. Progress(pass[p]) /\ pass[p].cfg = config
      <4>1. /\ pass[p].pc = "list" /\ pass[p].result = "none"
            /\ pass[p].todo = config /\ pass[p].cfg = config
        BY <3>1 DEF NewPass, IdlePass
      <4> QED
        BY <4>1 DEF Progress
    <3>3. Alone(p)
      BY <2>1, <3>1, <3>2 DEF Alone, IdlePass, IdleRequest
    <3> QED
      BY <3>2, <3>3
  <2> QED
    BY <2>2, <2>3 DEF CalmInv
<1>2. Typed /\ DeleteInv /\ OwnInv /\ CalmInv /\ [Next]_vars => DeleteInv' /\ OwnInv' /\ CalmInv'
  BY DeleteInductive, OwnInductive, CalmInductive
<1>3. CalmInv => StaticClientsServed
  BY DEF CalmInv, Progress, StaticClientsServed
<1> QED
  BY <1>1, <1>2, <1>3, TypedAlways, PTL DEF Spec
=============================================================================
