---------------------------- MODULE ClientRegistry ----------------------------
(***************************************************************************)
(* The OAuth client registry of the identity provider host: the            *)
(* "applications" collection in MongoDB and its three kinds of writers.     *)
(*                                                                         *)
(*  - the admin API's add, update and delete handlers, each a short         *)
(*    sequence of database calls that runs beside the others and works      *)
(*    with the list of static clients its scope read when it began;         *)
(*  - ApplicationClientInitializer, whose passes (one at start-up, one per  *)
(*    configuration change) delete and re-create the static clients;        *)
(*  - MongoDbPerformanceInitializer, which builds the unique index on       *)
(*    client_id once and records that it did.                               *)
(*                                                                         *)
(* Each step between two awaits of the code is one action, so every         *)
(* interleaving of the handlers, the passes and a restart is a behaviour.   *)
(***************************************************************************)
EXTENDS Naturals

CONSTANTS
    ClientId,       \* client ids
    DisplayName,    \* display names
    None,           \* "no client", "no name"
    Form,           \* the bodies an administrator may submit
    Entry,          \* what the configuration says of a client when it lists it
    Request,        \* slots for admin requests that are in flight together
    Pass,           \* slots for initializer passes that run together
    StartupPass,    \* the pass ExecuteAsync runs before it subscribes
    MaxEvents       \* bound: requests, reloads, restarts and failures together

Types == {"public", "confidential"}

AnyForm == [id : ClientId \cup {None}, name : DisplayName \cup {None},
            type : Types \cup {"unset"}, flow : {"code", "credentials"}]

NoForm == [id |-> None, name |-> None, type |-> "unset", flow |-> "code"]

(* AppClientData.Validate: an id and a name always, a client type unless    *)
(* the flow is client_credentials.                                          *)
ValidForm(f) ==
    /\ f.id \in ClientId
    /\ f.name \in DisplayName
    /\ f.flow = "code" => f.type \in Types

ASSUME FormAssumption == Form \subseteq {f \in AnyForm : ValidForm(f)}
ASSUME EntryAssumption == Entry \in [ClientId -> [name : DisplayName, type : Types]]
ASSUME NoneAssumption == None \notin ClientId \cup DisplayName
ASSUME PassAssumption == StartupPass \in Pass
ASSUME BoundAssumption == MaxEvents \in Nat

VARIABLES
    (* in MongoDB, and on disk: they survive a restart *)
    apps,        \* the documents of the applications collection
    tokens,      \* documents with a token or authorization stored while they existed
    nextOid,     \* object ids are generated in increasing order
    indexed,     \* does the unique index on client_id exist?
    indexFlag,   \* AppDbSettings.PerformanceIndexCreated
    config,      \* ids of the static clients in the configuration
    (* in the process *)
    req,         \* the admin request in each slot
    pass,        \* the initializer pass in each slot
    subscribed,  \* has ExecuteAsync registered its OnChange callback?
    indexer,     \* where MongoDbPerformanceInitializer stands
    events       \* events so far (bounded by MaxEvents)

database == <<apps, tokens, nextOid>>
index == <<indexed, indexFlag, indexer>>
vars == <<apps, tokens, nextOid, indexed, indexFlag, config, req, pass,
          subscribed, indexer, events>>

App == [oid : Nat, id : ClientId, name : DisplayName, type : Types, secret : BOOLEAN]

RequestState ==
    [op : {"none", "add", "update", "delete"},
     pc : {"off", "find", "validate", "insert", "update", "locate", "remove", "purge"},
     form : AnyForm,
     statics : SUBSET ClientId,   \* IOptionsSnapshot: as configured at the start
     doc : Nat,                   \* the object id a delete works on, 0 for none
     result : {"none", "refused", "duplicate", "conflict", "rejected", "failed", "ok"}]

PassState ==
    [pc : {"off", "list", "delete", "purge", "create", "insert"},
     cfg : SUBSET ClientId,       \* the options value the pass was given
     doomed : SUBSET Nat,         \* listed documents still to delete
     doc : Nat,                   \* the document whose tokens are being purged
     todo : SUBSET ClientId,      \* static clients still to create
     pick : ClientId \cup {None}, \* the one whose descriptor was validated
     result : {"none", "failed", "gone", "exists", "ok"},
     calm : BOOLEAN]              \* history: nothing else could touch its clients

IdleRequest == [op |-> "none", pc |-> "off", form |-> NoForm, statics |-> {},
                doc |-> 0, result |-> "none"]

IdlePass == [pc |-> "off", cfg |-> {}, doomed |-> {}, doc |-> 0, todo |-> {},
             pick |-> None, result |-> "none", calm |-> FALSE]

NewPass(c, calm) == [IdlePass EXCEPT !.pc = "list", !.cfg = c, !.todo = c, !.calm = calm]

FlagsTyped ==
    /\ indexed \in BOOLEAN
    /\ indexFlag \in BOOLEAN
    /\ subscribed \in BOOLEAN

StateTyped ==
    /\ apps \subseteq App
    /\ tokens \subseteq Nat
    /\ nextOid \in Nat \ {0}
    /\ config \subseteq ClientId
    /\ req \in [Request -> RequestState]
    /\ pass \in [Pass -> PassState]
    /\ indexer \in {"off", "check", "build", "flag"}
    /\ events \in Nat

TypeOK == FlagsTyped /\ StateTyped

(* The host starts on an empty database. *)
Init ==
    /\ apps = {}
    /\ tokens = {}
    /\ nextOid = 1
    /\ indexed = FALSE
    /\ indexFlag = FALSE
    /\ config \in SUBSET ClientId
    /\ req = [r \in Request |-> IdleRequest]
    /\ pass = [p \in Pass |-> IF p = StartupPass THEN NewPass(config, TRUE) ELSE IdlePass]
    /\ subscribed = FALSE
    /\ indexer = "check"
    /\ events = 0

Event == events < MaxEvents /\ events' = events + 1

-----------------------------------------------------------------------------
(* OpenIddict's application manager and MongoDB, as the handlers use them.  *)

WithId(id) == {a \in apps : a.id = id}

(* A confidential client must have a secret and a public one none. *)
Acceptable(type, secret) == secret <=> type = "confidential"

(* CreateAsync's validation: a free client_id and a consistent secret. *)
PassesValidation(id, type, secret) == WithId(id) = {} /\ Acceptable(type, secret)

(* The unique index, once built, refuses a second document for a client_id. *)
MayInsert(id) == indexed => WithId(id) = {}

Insert(id, name, type, secret) ==
    /\ apps' = apps \cup {[oid |-> nextOid, id |-> id, name |-> name,
                           type |-> type, secret |-> secret]}
    /\ nextOid' = nextOid + 1
    /\ UNCHANGED tokens

(* DeleteAsync's first write is filtered by the document's id and token. *)
Exists(oid) == \E a \in apps : a.oid = oid

Remove(oid) ==
    /\ apps' = {a \in apps : a.oid # oid}
    /\ UNCHANGED <<tokens, nextOid>>

Purge_OfAll(oid) ==   (* mutant: the deletes are not filtered by the application *)
    /\ tokens' = {}
    /\ UNCHANGED <<apps, nextOid>>

(* ... and its second and third delete the authorizations and the tokens. *)
Purge(oid) ==
    /\ tokens' = tokens \ {oid}
    /\ UNCHANGED <<apps, nextOid>>

(* A token endpoint request stores a token that refers to its client. (One   *)
(* that found its client earlier may do so after the client was deleted;     *)
(* "tokens" does not count what is stored that late.)                       *)
IssueToken ==
    \E a \in apps :
        /\ tokens' = tokens \cup {a.oid}
        /\ UNCHANGED <<apps, nextOid, index, config, req, pass, subscribed, events>>

-----------------------------------------------------------------------------
(* Admin requests.                                                          *)

Finish(r, result) ==
    req' = [req EXCEPT ![r] = [@ EXCEPT !.pc = "off", !.result = result]]

Goto(r, pc) == req' = [req EXCEPT ![r] = [@ EXCEPT !.pc = pc]]

(* ThrowIfStaticClient, on the options the request's scope has just read.   *)
ThrowIfStaticClient_Dropped(id) == FALSE

ThrowIfStaticClient(id) == id \in config

Refuses_ByUrl(url, form) == ThrowIfStaticClient(url)   \* mutant: the ids are not compared

(* What ends a request before its first call. The client id in the URL is    *)
(* the one looked up among the static clients; later calls go by the form's. *)
Refuses(url, form) == form.id # url \/ ThrowIfStaticClient(url)

(* A request begins. *)
Begin(r, op, url, form, pc) ==
    /\ req[r].pc = "off"
    /\ Event
    /\ req' = [req EXCEPT ![r] =
                 IF Refuses(url, form)
                 THEN [IdleRequest EXCEPT !.op = op, !.form = form,
                                          !.statics = config, !.result = "refused"]
                 ELSE [IdleRequest EXCEPT !.op = op, !.form = form,
                                          !.statics = config, !.pc = pc]]
    /\ UNCHANGED <<database, index, config, pass, subscribed>>

(* An add has no client id in its URL, a delete no form.                    *)
BeginAdd(r) == \E f \in Form : Begin(r, "add", f.id, f, "find")

BeginUpdate(r) ==
    \E f \in Form, url \in ClientId : Begin(r, "update", url, f, "update")

BeginDelete(r) ==
    \E id \in ClientId : Begin(r, "delete", id, [NoForm EXCEPT !.id = id], "locate")

RequestFrame == UNCHANGED <<index, config, pass, subscribed, events>>

(* client_credentials forces the stored type to confidential ...            *)
EffectiveType(f) == IF f.flow = "credentials" THEN "confidential" ELSE f.type

(* ... after the secret was generated from the type that was asked for.     *)
SecretGenerated(f) == f.type = "confidential"

(* AddHandler: look for a document with the same client id or name. *)
AddFind(r) ==
    /\ req[r].pc = "find"
    /\ LET f == req[r].form IN
         IF \E a \in apps : a.id = f.id \/ a.name = f.name
         THEN Finish(r, "duplicate")
         ELSE Goto(r, "validate")
    /\ UNCHANGED database
    /\ RequestFrame

AddValidate(r) ==
    /\ req[r].pc = "validate"
    /\ LET f == req[r].form IN
         IF PassesValidation(f.id, EffectiveType(f), SecretGenerated(f))
         THEN Goto(r, "insert")
         ELSE Finish(r, IF WithId(f.id) = {} THEN "rejected" ELSE "conflict")
    /\ UNCHANGED database
    /\ RequestFrame

AddInsert(r) ==
    /\ req[r].pc = "insert"
    /\ LET f == req[r].form IN
         \/ /\ MayInsert(f.id)
            /\ Insert(f.id, f.name, EffectiveType(f), SecretGenerated(f))
            /\ Finish(r, "ok")
         \/ /\ ~MayInsert(f.id)
            /\ Finish(r, "conflict")
            /\ UNCHANGED database
    /\ RequestFrame

(* UpdateHandler: one UpdateOne on the collection, past the manager. It     *)
(* answers the same whether it matched a document or not.                   *)
Update(r) ==
    /\ req[r].pc = "update"
    /\ LET f == req[r].form IN
         \/ /\ WithId(f.id) = {}
            /\ UNCHANGED apps
         \/ \E a \in WithId(f.id) :
              apps' = (apps \ {a}) \cup
                        {[a EXCEPT !.name = f.name, !.type = EffectiveType(f)]}
    /\ Finish(r, "ok")
    /\ UNCHANGED <<tokens, nextOid>>
    /\ RequestFrame

DeleteLocate_NoNullCheck(r) ==
    /\ req[r].pc = "locate"
    /\ \/ /\ WithId(req[r].form.id) = {}
          /\ req' = [req EXCEPT ![r] = [@ EXCEPT !.pc = "remove", !.doc = None]]
       \/ \E a \in WithId(req[r].form.id) :
            req' = [req EXCEPT ![r] = [@ EXCEPT !.pc = "remove", !.doc = a.oid]]
    /\ UNCHANGED database
    /\ RequestFrame

(* DeleteHandler: find the client, then the manager's three deletes. *)
DeleteLocate(r) ==
    /\ req[r].pc = "locate"
    /\ \/ /\ WithId(req[r].form.id) = {}
          /\ Finish(r, "ok")
       \/ \E a \in WithId(req[r].form.id) :
            req' = [req EXCEPT ![r] = [@ EXCEPT !.pc = "remove", !.doc = a.oid]]
    /\ UNCHANGED database
    /\ RequestFrame

DeleteRemove_NoPurge(r) ==
    /\ req[r].pc = "remove"
    /\ Remove(req[r].doc)
    /\ Finish(r, "ok")
    /\ RequestFrame

DeleteRemove(r) ==
    /\ req[r].pc = "remove"
    /\ \/ /\ Exists(req[r].doc)
          /\ Remove(req[r].doc)
          /\ Goto(r, "purge")
       \/ /\ ~Exists(req[r].doc)
          /\ Finish(r, "conflict")
          /\ UNCHANGED database
    /\ RequestFrame

DeletePurge(r) ==
    /\ req[r].pc = "purge"
    /\ Purge(req[r].doc)
    /\ Finish(r, "ok")
    /\ RequestFrame

(* A database call throws; the caller gets an error page. *)
RequestFails(r) ==
    /\ req[r].pc # "off"
    /\ Event
    /\ Finish(r, "failed")
    /\ UNCHANGED <<database, index, config, pass, subscribed>>

RequestStep(r) ==
    \/ AddFind(r) \/ AddValidate(r) \/ AddInsert(r)
    \/ Update(r)
    \/ DeleteLocate(r) \/ DeleteRemove(r) \/ DeletePurge(r)

-----------------------------------------------------------------------------
(* ApplicationClientInitializer: the passes.                                *)

PassFrame == UNCHANGED <<index, config, req, subscribed, events>>

(* TryAddOrUpdateAppClient logs what AddOrUpdateAppClient throws. *)
Abandon(p, result) ==
    pass' = [pass EXCEPT ![p] = [@ EXCEPT !.pc = "off", !.result = result]]

(* Where a pass stands once it has `doomed` to delete and `todo` to create. *)
Resume(p, doomed, todo) ==
    pass' = [pass EXCEPT ![p] =
               [@ EXCEPT !.doomed = doomed, !.todo = todo,
                         !.pc = IF doomed # {} THEN "delete"
                                ELSE IF todo # {} THEN "create" ELSE "off",
                         !.result = IF doomed \cup todo = {} THEN "ok" ELSE "none"]]

Doomed_OnlyDuplicates(cfg) ==
    {a.oid : a \in {b \in apps : \E c \in apps : c.id = b.id /\ c.oid < b.oid}}

(* clientIds.Add is false for a configured id and for an id seen before.    *)
Doomed(cfg) ==
    {a.oid : a \in {b \in apps : \/ b.id \in cfg
                                 \/ \E c \in apps : c.id = b.id /\ c.oid < b.oid}}

PassList(p) ==
    /\ pass[p].pc = "list"
    /\ Resume(p, Doomed(pass[p].cfg), pass[p].cfg)
    /\ UNCHANGED database
    /\ PassFrame

(* Documents go in the order they were listed, which is object id order. A *)
(* document somebody else deleted meanwhile is a concurrency exception.     *)
PassRemove(p) ==
    /\ pass[p].pc = "delete"
    /\ \E oid \in pass[p].doomed :
         /\ \A other \in pass[p].doomed : oid <= other
         /\ \/ /\ Exists(oid)
               /\ Remove(oid)
               /\ pass' = [pass EXCEPT ![p] = [@ EXCEPT !.pc = "purge", !.doc = oid]]
            \/ /\ ~Exists(oid)
               /\ Abandon(p, "gone")
               /\ UNCHANGED database
    /\ PassFrame

PassPurge(p) ==
    /\ pass[p].pc = "purge"
    /\ Purge(pass[p].doc)
    /\ Resume(p, pass[p].doomed \ {pass[p].doc}, pass[p].todo)
    /\ PassFrame

PassValidate(p) ==
    /\ pass[p].pc = "create"
    /\ \E id \in pass[p].todo :
         IF PassesValidation(id, Entry[id].type, Entry[id].type = "confidential")
         THEN pass' = [pass EXCEPT ![p] = [@ EXCEPT !.pc = "insert", !.pick = id]]
         ELSE Abandon(p, "exists")
    /\ UNCHANGED database
    /\ PassFrame

PassInsert(p) ==
    /\ pass[p].pc = "insert"
    /\ LET id == pass[p].pick IN
         \/ /\ MayInsert(id)
            /\ Insert(id, Entry[id].name, Entry[id].type, Entry[id].type = "confidential")
            /\ Resume(p, {}, pass[p].todo \ {id})
         \/ /\ ~MayInsert(id)
            /\ Abandon(p, "exists")
            /\ UNCHANGED database
    /\ PassFrame

PassFails(p) ==
    /\ pass[p].pc # "off"
    /\ Event
    /\ Abandon(p, "failed")
    /\ UNCHANGED <<database, index, config, req, subscribed>>

PassStep(p) ==
    \/ PassList(p) \/ PassRemove(p) \/ PassPurge(p)
    \/ PassValidate(p) \/ PassInsert(p)

Subscribe_AfterSuccess ==
    /\ ~subscribed
    /\ pass[StartupPass].pc = "off"
    /\ pass[StartupPass].result = "ok"
    /\ subscribed' = TRUE
    /\ UNCHANGED <<database, index, config, req, pass, events>>

(* ExecuteAsync: the start-up pass is over, however it ended. *)
Subscribe ==
    /\ ~subscribed
    /\ pass[StartupPass].pc = "off"
    /\ subscribed' = TRUE
    /\ UNCHANGED <<database, index, config, req, pass, events>>

(* The configuration file is saved. Each save runs the OnChange callback,   *)
(* which starts a pass and does not wait for the passes still running.      *)
Unattended(c) ==
    /\ \A p \in Pass : pass[p].pc = "off"
    /\ \A r \in Request : req[r].pc # "off" => req[r].form.id \notin c

Reload(c, p) ==
    /\ subscribed
    /\ Event
    /\ pass[p].pc = "off"
    /\ config' = c
    /\ pass' = [q \in Pass |-> IF q = p THEN NewPass(c, Unattended(c))
                                        ELSE [pass[q] EXCEPT !.calm = FALSE]]
    /\ UNCHANGED <<database, index, req, subscribed>>

ReloadUnwatched(c) ==
    /\ ~subscribed
    /\ Event
    /\ config' = c
    /\ pass' = [q \in Pass |-> [pass[q] EXCEPT !.calm = FALSE]]
    /\ UNCHANGED <<database, index, req, subscribed>>

-----------------------------------------------------------------------------
(* MongoDbPerformanceInitializer.                                           *)

IdsUnique == \A a, b \in apps : a.id = b.id => a = b

IndexFrame == UNCHANGED <<database, config, req, pass, subscribed>>

(* ShouldRunScript *)
IndexCheck ==
    /\ indexer = "check"
    /\ indexer' = IF indexFlag THEN "off" ELSE "build"
    /\ UNCHANGED <<indexed, indexFlag, events>>
    /\ IndexFrame

IndexBuild_IgnoresFailure ==
    /\ indexer = "build"
    /\ indexed' = (indexed \/ IdsUnique)
    /\ indexer' = "flag"
    /\ UNCHANGED <<indexFlag, events>>
    /\ IndexFrame

(* AddApplicationIndexes: the build of a unique index fails on duplicates   *)
(* and the exception ends Initialize.                                       *)
IndexBuild ==
    /\ indexer = "build"
    /\ indexed' = (indexed \/ IdsUnique)
    /\ indexer' = IF indexed \/ IdsUnique THEN "flag" ELSE "off"
    /\ UNCHANGED <<indexFlag, events>>
    /\ IndexFrame

(* SetPerformanceIndexCreated, after the indexes of the other collections.  *)
IndexSetFlag ==
    /\ indexer = "flag"
    /\ indexFlag' = TRUE
    /\ indexer' = "off"
    /\ UNCHANGED <<indexed, events>>
    /\ IndexFrame

IndexFails ==
    /\ indexer # "off"
    /\ Event
    /\ indexer' = "off"
    /\ UNCHANGED <<indexed, indexFlag>>
    /\ IndexFrame

IndexStep == IndexCheck \/ IndexBuild \/ IndexSetFlag

-----------------------------------------------------------------------------
(* The process dies, at any point, and the host is started again, perhaps   *)
(* with another configuration.                                              *)
Restart(c) ==
    /\ Event
    /\ config' = c
    /\ req' = [r \in Request |-> IdleRequest]
    /\ pass' = [p \in Pass |-> IF p = StartupPass THEN NewPass(c, TRUE) ELSE IdlePass]
    /\ subscribed' = FALSE
    /\ indexer' = "check"
    /\ UNCHANGED <<database, indexed, indexFlag>>

Admin ==
    \E r \in Request :
        \/ BeginAdd(r) \/ BeginUpdate(r) \/ BeginDelete(r)
        \/ RequestStep(r)
        \/ RequestFails(r)

Initializer ==
    \/ \E p \in Pass : PassStep(p) \/ PassFails(p)
    \/ Subscribe

Configuration ==
    \E c \in SUBSET ClientId :
        \/ \E p \in Pass : Reload(c, p)
        \/ ReloadUnwatched(c)
        \/ Restart(c)

Next ==
    \/ Admin
    \/ Initializer
    \/ Configuration
    \/ IndexStep
    \/ IndexFails
    \/ IssueToken

Spec == Init /\ [][Next]_vars

(* Handlers and hosted services run on the thread pool: each goes on as     *)
(* long as it can. Requests, saves, failures and restarts need not happen.  *)
Fairness ==
    /\ \A r \in Request : WF_vars(RequestStep(r))
    /\ \A p \in Pass : WF_vars(PassStep(p))
    /\ WF_vars(Subscribe)
    /\ WF_vars(IndexStep)

FairSpec == Spec /\ Fairness

-----------------------------------------------------------------------------
(* Safety.                                                                  *)

(* Once the unique index exists, no client id has two documents, whatever   *)
(* admin requests and passes ran together; and the settings flag, which     *)
(* makes every later start skip the index build, is only ever set when the  *)
(* index is there (MongoDbPerformanceInitializer.Initialize).               *)
IndexHonest ==
    /\ indexFlag => indexed
    /\ indexed => IdsUnique

(* A pass that ended well, with nothing else running that could touch its   *)
(* clients, leaves exactly one document for each of them, as configured;    *)
(* and that stays so, against every admin request, until the configuration  *)
(* changes or the host restarts. Nor does such a pass ever stumble over a   *)
(* document it failed to clear away (AddOrUpdateAppClient and               *)
(* ThrowIfStaticClient together).                                           *)
AsConfigured(a) ==
    /\ a.name = Entry[a.id].name
    /\ a.type = Entry[a.id].type
    /\ a.secret = (Entry[a.id].type = "confidential")

Served(id) ==
    \E a \in apps :
        /\ a.id = id
        /\ AsConfigured(a)
        /\ \A b \in apps : b.id = id => b = a

StaticClientsServed ==
    \A p \in Pass :
        pass[p].calm =>
            /\ pass[p].result = "ok" => \A id \in pass[p].cfg : Served(id)
            /\ pass[p].result # "exists"

(* A client whose deletion was answered is gone for good, its document and  *)
(* the tokens stored while it existed, even when a pass or another request  *)
(* deleted or re-created a document of the same client id meanwhile         *)
(* (AppClientDeleteRequestHandler and the store's DeleteAsync).             *)
DeletedStaysDeleted ==
    \A r \in Request :
        req[r].op = "delete" /\ req[r].result = "ok" =>
            ~Exists(req[r].doc) /\ req[r].doc \notin tokens

(* No step of an admin request creates, changes or removes a document whose *)
(* client id was static when the request began.                             *)
StaticClientsProtected ==
    [][\A r \in Request :
         req'[r] # req[r] =>
           \A a \in (apps \ apps') \cup (apps' \ apps) : a.id \notin req[r].statics]_vars

(* The registry keeps the promise of a catalogue against all its writers     *)
(* together: an identity is given once, ids are unique once the index is      *)
(* built, and no client loses its tokens while its document stands (the       *)
(* manager's three deletes, the passes and the index initializer).            *)
Clients == INSTANCE Catalogue WITH
    ObjectId <- Nat,
    documents <- {[oid |-> a.oid, id |-> a.id] : a \in apps},
    issued <- 1 .. (nextOid - 1),
    unique <- indexed

ImplementsCatalogue == Clients!Spec

-----------------------------------------------------------------------------
(* Liveness.                                                                *)

(* However the start-up pass ends, ExecuteAsync goes on to watch the        *)
(* configuration: TryAddOrUpdateAppClient lets no exception through.        *)
WatchesConfiguration == []<>subscribed

(* Once saves and restarts stop, the passes come to an end; and if the last *)
(* one had its clients to itself, no database call failed it and nobody     *)
(* deleted a duplicate it was about to delete, every static client is       *)
(* served from then on, whatever documents an earlier run or an             *)
(* administrator had left behind (ApplicationClientInitializer).            *)
StaticClientsSettle ==
    <>[]\A p \in Pass :
          /\ pass[p].pc = "off"
          /\ pass[p].calm /\ pass[p].result \notin {"failed", "gone"} => \A id \in config : Served(id)

(* A reliable database, and nobody at the admin API. *)
QuietNext ==
    \/ \E p \in Pass : PassStep(p)
    \/ Subscribe
    \/ Configuration
    \/ IndexStep
    \/ IssueToken

QuietSpec == Init /\ [][QuietNext]_vars /\ Fairness

(* A configuration change is applied: a client it lists is registered some  *)
(* time later, unless it is taken out again (the OnChange callback).        *)
ConfigurationTakesEffect ==
    \A id \in ClientId : id \in config ~> (id \notin config \/ WithId(id) # {})

-----------------------------------------------------------------------------
(* What the repository says of the registry and the code does not keep.     *)

(* "Static client Id '...' cannot be deleted": no admin request removes a   *)
(* document whose client id the configuration lists at that moment.         *)
StaticClientsUndeletable ==
    [][\A r \in Request :
         req[r].pc = "remove" /\ req'[r] # req[r] =>
           \A a \in apps \ apps' : a.id \notin config]_vars

(* Clients of the client-credentials flow can be registered: the manager    *)
(* does not turn a valid form with a free id and a free name away.          *)
MachineClientsRegister ==
    \A r \in Request :
        req[r].op = "add" /\ req[r].form.flow = "credentials" =>
            req[r].result # "rejected"
=============================================================================
