------------------------------- MODULE Startup -------------------------------
(***************************************************************************)
(* How clients come up (lib.rs: TradingInfrastructure::new,                 *)
(* TradingClient::new, from_infrastructure_with_wsol_setup), with the rent  *)
(* cache and its updater (common/seed.rs), the choice of SWQOS clients      *)
(* (swqos/mod.rs) and the account setup of WsolSetup.  A "new" client builds*)
(* its own infrastructure and waits for the account; a "shared" one takes an*)
(* existing infrastructure and leaves the account to a background task.     *)
(***************************************************************************)
EXTENDS WsolSetup, Integers, SequencesExt

CONSTANTS
    Configs,         \* swqos_configs: [type, url] with url = "" for None
    SWQOS_BLACKLIST,
    Connecting,      \* types whose client connects when it is created
    Plans,           \* functions from Clients to [kind, create_wsol_ata]
    NoClient,
    MaxRent          \* bound on the rent the cluster asks for

ASSUME MaxRentAssumption == MaxRent \in Nat
ASSUME ConfigsAssumption == Configs \in Seq([type : STRING, url : STRING])
ASSUME PlansAssumption == Plans \subseteq [Clients -> [kind : {"new", "shared"}, create_wsol_ata : BOOLEAN]]

Programs == {"spl", "2022"}          \* SPL_TOKEN_RENT, SPL_TOKEN_2022_RENT
U64MAX == -1                         \* not initialized

VARIABLES
    plan,           \* how each client is started
    phase,                           \* where its constructor is
    swqos_clients,
    minimum,                         \* the rent the cluster asks for
    rents,                           \* the two atomics
    updater, fetched,                \* update_rents: its place, the answer of the RPC
    instance                         \* INSTANCE

rentVars == <<minimum, rents, updater, fetched>>
startVars == <<plan, phase, swqos_clients, instance>>
allVars == <<setupVars, rentVars, startVars>>

StartInit ==
    /\ SetupInit
    /\ plan \in Plans
    /\ phase = [c \in Clients |-> "begin"]
    /\ swqos_clients = [c \in Clients |-> << >>]
    /\ minimum = 0
    /\ rents = [p \in Programs |-> U64MAX]
    /\ updater = [c \in Clients |-> "off"]
    /\ fetched = [c \in Clients |-> U64MAX]
    /\ instance = NoClient

Enter(c, place) == phase' = [phase EXCEPT ![c] = place]
Update(c, place) == updater' = [updater EXCEPT ![c] = place]

-----------------------------------------------------------------------------
(* TradingInfrastructure::new begins with update_rents(..).unwrap().         *)
BeginNew(c) ==
    /\ phase[c] = "begin" /\ plan[c].kind = "new"
    /\ Enter(c, "rents") /\ Update(c, "fetch1")
    /\ UNCHANGED <<setupVars, minimum, rents, fetched, plan, swqos_clients, instance>>

(* A shared infrastructure is one that some other client has completed.      *)
BeginShared(c) ==
    /\ phase[c] = "begin" /\ plan[c].kind = "shared"
    /\ \E d \in Clients :
          /\ plan[d].kind = "new" /\ phase[d] \in {"fast_init", "wsol", "ready"}
          /\ swqos_clients' = [swqos_clients EXCEPT ![c] = swqos_clients[d]]
    /\ Enter(c, "fast_init")
    /\ UNCHANGED <<setupVars, rentVars, plan, instance>>

(* update_rents: two queries, each followed by its store.                    *)
FetchOk(c) ==
    /\ updater[c] \in {"fetch1", "fetch2"}
    /\ fetched' = [fetched EXCEPT ![c] = minimum]
    /\ Update(c, IF updater[c] = "fetch1" THEN "store1" ELSE "store2")
    /\ UNCHANGED <<setupVars, minimum, rents, startVars>>

(* Fault: the constructor goes on when its first update fails.               *)
FetchFailsIgnored(c) ==
    /\ updater[c] \in {"fetch1", "fetch2"}
    /\ IF phase[c] = "rents" THEN Enter(c, "clients") ELSE UNCHANGED phase
    /\ Update(c, "fetch1")
    /\ UNCHANGED <<setupVars, minimum, rents, fetched, plan, swqos_clients, instance>>

(* The first update must succeed; the updater ignores an error and begins    *)
(* again an hour later.                                                      *)
FetchFails(c) ==
    /\ updater[c] \in {"fetch1", "fetch2"}
    /\ IF phase[c] = "rents"
       THEN Enter(c, "panicked") /\ Update(c, "off")
       ELSE Update(c, "fetch1") /\ UNCHANGED phase
    /\ UNCHANGED <<setupVars, minimum, rents, fetched, plan, swqos_clients, instance>>

StoreFirst(c) ==
    /\ updater[c] = "store1"
    /\ rents' = [rents EXCEPT !["spl"] = fetched[c]]
    /\ fetched' = [fetched EXCEPT ![c] = U64MAX]
    /\ Update(c, "fetch2")
    /\ UNCHANGED <<setupVars, minimum, startVars>>

(* Fault: the updater ends with its first round.                             *)
StoreSecondOnce(c) ==
    /\ updater[c] = "store2"
    /\ rents' = [rents EXCEPT !["2022"] = fetched[c]]
    /\ fetched' = [fetched EXCEPT ![c] = U64MAX]
    /\ IF phase[c] = "rents" THEN Enter(c, "clients") ELSE UNCHANGED phase
    /\ Update(c, "off")
    /\ UNCHANGED <<setupVars, minimum, plan, swqos_clients, instance>>

(* start_rent_updater follows the first update; later ones are hourly.       *)
StoreSecond(c) ==
    /\ updater[c] = "store2"
    /\ rents' = [rents EXCEPT !["2022"] = fetched[c]]
    /\ fetched' = [fetched EXCEPT ![c] = U64MAX]
    /\ IF phase[c] = "rents" THEN Enter(c, "clients") ELSE UNCHANGED phase
    /\ Update(c, "fetch1")
    /\ UNCHANGED <<setupVars, minimum, plan, swqos_clients, instance>>

RentChanges ==
    /\ minimum < MaxRent
    /\ minimum' = minimum + 1
    /\ UNCHANGED <<setupVars, rents, updater, fetched, startVars>>

-----------------------------------------------------------------------------
is_blacklisted(config) == config.type \in SWQOS_BLACKLIST

(* A custom URL, or the provider's for the region; some have none.           *)
get_endpoint(config) ==
    CASE config.url # "" -> config.url
      [] config.url = "" /\ config.type \in {"Lightspeed", "Default"} -> ""
      [] OTHER -> config.type

NewClient(config) == [type |-> config.type, endpoint |-> get_endpoint(config)]

(* Fault: the first service that cannot be reached ends the list.            *)
CreatedUntilError(failed) ==
    LET clients[i \in 0..Len(Configs)] ==
            IF i = 0 THEN << >>
            ELSE IF is_blacklisted(Configs[i]) \/ failed \cap (1..i) # {} THEN clients[i - 1]
            ELSE Append(clients[i - 1], NewClient(Configs[i]))
    IN  clients[Len(Configs)]

(* The loop over the configurations: blacklisted services and those whose    *)
(* client could not be created are left out.                                 *)
Created(failed) ==
    LET clients[i \in 0..Len(Configs)] ==
            IF i = 0 THEN << >>
            ELSE IF is_blacklisted(Configs[i]) \/ i \in failed THEN clients[i - 1]
            ELSE Append(clients[i - 1], NewClient(Configs[i]))
    IN  clients[Len(Configs)]

CreateClients(c) ==
    /\ phase[c] = "clients"
    /\ \E failed \in SUBSET {i \in DOMAIN Configs : Configs[i].type \in Connecting} :
          swqos_clients' = [swqos_clients EXCEPT ![c] = Created(failed)]
    /\ Enter(c, "fast_init")
    /\ UNCHANGED <<setupVars, rentVars, plan, instance>>

-----------------------------------------------------------------------------
fast_init(c) ==
    /\ phase[c] = "fast_init"
    /\ Enter(c, IF plan[c].kind = "new" THEN "wsol" ELSE "ready")
    /\ UNCHANGED <<setupVars, rentVars, plan, swqos_clients, instance>>

(* ensure_wsol_ata: awaited by new, spawned for a shared infrastructure.     *)
SetsUp(c) == plan[c].create_wsol_ata /\ (phase[c] = "wsol" \/ (plan[c].kind = "shared" /\ phase[c] = "ready"))

EnsureWsolAta(c) ==
    /\ SetsUp(c)
    /\ Client(c)
    /\ UNCHANGED <<rentVars, startVars>>

(* Fault: the client is published before its account is there.               *)
PublishedEarly(c) == phase[c] = "wsol"

SetupDone(c) == phase[c] = "wsol" /\ (plan[c].create_wsol_ata => client[c] = "returned")

FinishNew(c) ==
    /\ SetupDone(c)
    /\ Enter(c, "ready")
    /\ instance' = c
    /\ UNCHANGED <<setupVars, rentVars, plan, swqos_clients>>

SetupPanics(c) ==
    /\ phase[c] = "wsol" /\ plan[c].create_wsol_ata /\ client[c] = "panicked"
    /\ Enter(c, "panicked")
    /\ UNCHANGED <<setupVars, rentVars, plan, swqos_clients, instance>>

-----------------------------------------------------------------------------
UpdateRents(c) == FetchOk(c) \/ FetchFails(c) \/ StoreFirst(c) \/ StoreSecond(c)

Construct(c) ==
    \/ BeginNew(c) \/ BeginShared(c)
    \/ CreateClients(c) \/ fast_init(c)
    \/ FinishNew(c) \/ SetupPanics(c)

ClusterStep == Cluster /\ UNCHANGED <<rentVars, startVars>>

StartNext ==
    \/ \E c \in Clients : Construct(c) \/ UpdateRents(c) \/ EnsureWsolAta(c)
    \/ ClusterStep
    \/ RentChanges

(* Tasks run and RPC calls return; one that is repeated forever succeeds     *)
(* now and then.                                                             *)
StartSpec ==
    /\ StartInit /\ [][StartNext]_allVars
    /\ \A c \in Clients :
          /\ WF_allVars(Construct(c) \/ EnsureWsolAta(c)) /\ WF_allVars(UpdateRents(c))
          /\ SF_allVars(FetchOk(c) /\ updater[c] = "fetch1") /\ SF_allVars(FetchOk(c) /\ updater[c] = "fetch2")

-----------------------------------------------------------------------------
(* Types, and that a client is only set up once its constructor got there.   *)
StartTypeOK ==
    /\ SetupTypeOK
    /\ phase \in [Clients -> {"begin", "rents", "clients", "fast_init", "wsol", "ready", "panicked"}]
    /\ updater \in [Clients -> {"off", "fetch1", "store1", "fetch2", "store2"}]
    /\ rents \in [Programs -> 0..MaxRent \cup {U64MAX}]
    /\ instance \in Clients \cup {NoClient}
    /\ \A c \in Clients : client[c] # "start" => plan[c].create_wsol_ata /\ phase[c] \in {"wsol", "ready", "panicked"}

(* No client trades before both rents are known: the creation of an account  *)
(* never meets the uninitialized value, which would panic.                   *)
RentsAreInitialized ==
    \A c \in Clients : phase[c] \in {"clients", "fast_init", "wsol", "ready"} =>
        \A p \in Programs : rents[p] # U64MAX

(* The services of a client are the configured ones in their order: none of  *)
(* the blacklist, and every one that needs no connection, even if another    *)
(* could not be created.                                                     *)
Lists(clients, used) ==
    /\ Len(clients) = Cardinality(used)
    /\ \A i \in used : clients[Cardinality(used \cap (1..i))] = NewClient(Configs[i])
Follows(clients) ==
    \E used \in SUBSET DOMAIN Configs :
        /\ Lists(clients, used)
        /\ \A i \in used : Configs[i].type \notin SWQOS_BLACKLIST
        /\ \A i \in DOMAIN Configs \ used : Configs[i].type \in SWQOS_BLACKLIST \cup Connecting
ClientsFollowConfig ==
    \A c \in Clients : phase[c] \in {"fast_init", "wsol", "ready"} => Follows(swqos_clients[c])

(* get_instance returns a client that is complete: its account exists if it  *)
(* asked for one.                                                            *)
InstanceIsComplete ==
    instance # NoClient => phase[instance] = "ready" /\ (plan[instance].create_wsol_ata => account)

(* Whatever fails, a constructor that was called returns or panics, and so   *)
(* does a setup in the background; a shared client waits for an              *)
(* infrastructure.                                                           *)
Ended(c) ==
    /\ phase[c] \in {"ready", "panicked"}
    /\ plan[c].create_wsol_ata /\ phase[c] = "ready" => client[c] \in {"returned", "panicked"}
StartupEnds == \A c \in Clients : <>[](phase[c] = "begin" \/ Ended(c))

(* With two updaters a rent may be stored after a newer one; while there is  *)
(* a client, the cache comes back again and again to what the cluster asks   *)
(* for.                                                                      *)
RentsCatchUp ==
    []<>((\E c \in Clients : phase[c] \in {"clients", "fast_init", "wsol", "ready"})
         => (\A p \in Programs : rents[p] = minimum))

(* Whatever failed on the way, what a client relies on is there when it is   *)
(* started: both rents, the account it waited for, and for get_instance a    *)
(* client that is complete.                                                  *)
ClientsAreComplete ==
    StartTypeOK /\ RentsAreInitialized /\ ReadyMeansAccountExists /\ InstanceIsComplete
==============================================================================
