---------------------------- MODULE ReloadConfig -----------------------------
(***************************************************************************)
(* DataConcentrator::ReloadConfig (Code/opendatacon/DataConcentrator.cpp): *)
(* the objects whose configuration differs are destroyed and built again   *)
(* while every thread is parked, and the raw pointers between ports and    *)
(* connectors are put right by hand.                                       *)
(*                                                                         *)
(* A configuration gives every object <<content, inherited, ancestor>>:    *)
(* its own file, the files that one inherits, and the files these inherit  *)
(* in their turn.  The content of a connector is its set of connections,   *)
(* {port1, port2}; a port whose content is "invalid" lacks a mandatory     *)
(* member and is not built.  An object is identified by its name and by    *)
(* the reload that built it.  Interfaces are left out.                     *)
(***************************************************************************)
EXTENDS Integers

CONSTANTS Ports, Connectors,
          Configs,       \* the configurations: [entry |-> ..., log |-> ...]
          FirstConfig,
          MaxReloads     \* bound on the reloads

ASSUME NamesAssumption == Ports \cap Connectors = {}

Names  == Ports \cup Connectors
None   == -1
Absent == <<>>

VARIABLES
    conf,     \* the configuration in the parser's cache
    log,      \* the configuration the log sinks were set up from
    reg,      \* reg[n]: IOHandlers[n], the reload that built it
    built,    \* built[n]: the entry it was built from
    subs,     \* subs[p][c]: the object port p's Subscribers has for c
    links,    \* links[c]: SenderConnections, <<sender, receiver, its object>>
    demand,   \* demand[p]: connectors through which port p is in demand
    gen,      \* the reloads so far
    failed    \* ReloadConfig threw: the process goes down

objects == <<reg, built, subs, links, demand>>
vars == <<conf, log, objects, gen, failed>>

Registered(r) == {n \in Names : r[n] # None}
Present(c)    == {n \in Names : c.entry[n] # Absent}
NoSubs        == [c \in Connectors |-> None]

\* ProcessPorts builds the valid ports, ProcessConnectors every connector.
Built(c, names) == {n \in names : n \in Ports => c.entry[n][1] # "invalid"}

\* DataConnector::ProcessElements: a connection is made, in both directions, if
\* both its ports are registered.
Made(connections, r) == {x \in connections : x \subseteq Registered(r)}
Joined(connections, r) ==
    {x \in Ports \X Ports : x[1] # x[2] /\ {x[1], x[2]} \in Made(connections, r)}
LinksOf(connections, r) == {<<x[1], x[2], r[x[2]]>> : x \in Joined(connections, r)}

Init ==
    /\ conf = FirstConfig /\ log = conf.log
    /\ reg = [n \in Names |-> IF n \in Built(conf, Present(conf)) THEN 0 ELSE None]
    /\ built = [n \in Names |-> IF reg[n] # None THEN conf.entry[n] ELSE Absent]
    /\ links = [c \in Connectors |-> IF reg[c] # None
                                     THEN LinksOf(conf.entry[c][1], reg) ELSE {}]
    /\ subs = [p \in Ports |-> [c \in Connectors |->
                  IF \E l \in links[c] : l[1] = p THEN 0 ELSE None]]
    /\ demand = [p \in Ports |-> {}]
    /\ gen = 0
    /\ failed = FALSE

\* A connector tells a port that it is wanted, or no longer wanted.
ChangeDemand(p, c) ==
    /\ ~failed
    /\ subs[p][c] # None
    /\ demand' = [demand EXCEPT ![p] = IF c \in @ THEN @ \ {c} ELSE @ \cup {c}]
    /\ UNCHANGED <<conf, log, reg, built, subs, links, gen, failed>>

-----------------------------------------------------------------------------
(***************************************************************************)
(* FindChangedConfs, and the check that what is to go was really built.    *)
(***************************************************************************)
DiffersInContent(a, b) == a[1] # b[1]
Differs(a, b) == a[1] # b[1] \/ a[2] # b[2]

Different(new) == {n \in Present(conf) \cap Present(new) :
                       Differs(conf.entry[n], new.entry[n])}

deletedIOHs(new) == (Present(conf) \ Present(new)) \cap Registered(reg)
changedIOHs(new) == Different(new) \cap Registered(reg)
createdIOHs(new) == (Present(new) \ Present(conf)) \cup (Different(new) \ Registered(reg))
delete_or_changeIOHs(new) == deletedIOHs(new) \cup changedIOHs(new)
created_or_changeIOHs(new) == createdIOHs(new) \cup changedIOHs(new)

Unchanged(new) == delete_or_changeIOHs(new) \cup createdIOHs(new) = {}

\* Connections that would be left dangling by deleted ports.
NeverDangling(new) == FALSE
WouldDangle(new) == \E p \in deletedIOHs(new) \cap Ports :
                      \E c \in Connectors \ delete_or_changeIOHs(new) : subs[p][c] # None

-----------------------------------------------------------------------------
(***************************************************************************)
(* The four ways a call ends.                                              *)
(***************************************************************************)

\* "No objects found".
RefuseEmpty(new) ==
    /\ Present(new) = {}
    /\ UNCHANGED <<conf, log, objects, failed>>

\* No more than the log sinks can have changed; they are set up first.
NothingChanged(new) ==
    /\ Present(new) # {} /\ Unchanged(new)
    /\ log' = new.log
    /\ conf' = new
    /\ UNCHANGED <<objects, failed>>

RefuseDangling(new) ==
    /\ Present(new) # {} /\ ~Unchanged(new) /\ WouldDangle(new)
    /\ log' = new.log
    /\ UNCHANGED <<conf, objects, failed>>

\* The subscribers of each port once the connectors to go have unsubscribed.
LeaveSubscribed(new) == subs
Unsubscribed(new) ==
    [p \in Ports |-> [c \in Connectors |->
        IF c \in delete_or_changeIOHs(new) /\ \E l \in links[c] : l[2] = p
        THEN None ELSE subs[p][c]]]

NewReg(new) ==
    [n \in Names |-> IF n \in Built(new, created_or_changeIOHs(new)) THEN gen + 1
                     ELSE IF n \in delete_or_changeIOHs(new) THEN None ELSE reg[n]]

\* A port that is built again takes over the subscribers of the old one.
OldSubs(new) ==
    [p \in Ports |-> IF reg[p] # None /\ reg'[p] # None THEN Unsubscribed(new)[p]
                     ELSE NoSubs]

\* A connector that is built subscribes to the ports it connects.
NewLinks(new, c) == LinksOf(new.entry[c][1], reg')

NewSubs(new) ==
    [p \in Ports |-> [c \in Connectors |->
        IF c \in created_or_changeIOHs(new) /\ \E l \in links'[c] : l[1] = p
        THEN gen + 1 ELSE OldSubs(new)[p][c]]]

\* needs_new_addr: connectors that stay and are subscribed to a changed port.
NeedsNewAddr(new, p) ==
    {c \in Connectors \ delete_or_changeIOHs(new) : subs[p][c] # None}

\* ReplaceAddress, for the ports that could be built again.
KeepAddress(new, c) == links[c]
ReplaceAddress(new, c) ==
    {IF l[2] \in changedIOHs(new) /\ reg'[l[2]] # None /\ c \in NeedsNewAddr(new, l[2])
     THEN <<l[1], l[2], reg'[l[2]]>> ELSE l : l \in links[c]}

\* The demand for a port that is built again is put back.
OldDemand(new, p) == demand[p]

Apply(new) ==
    /\ Present(new) # {} /\ ~Unchanged(new) /\ ~WouldDangle(new)
    /\ log' = new.log
    /\ conf' = new
    /\ reg' = NewReg(new)
    /\ built' = [n \in Names |-> IF reg'[n] = None THEN Absent
                                 ELSE IF reg'[n] = gen + 1 THEN new.entry[n] ELSE built[n]]
    /\ links' = [c \in Connectors |-> IF c \in created_or_changeIOHs(new) THEN NewLinks(new, c)
                                      ELSE IF reg'[c] = None THEN {}
                                      ELSE ReplaceAddress(new, c)]
    /\ subs' = NewSubs(new)
    /\ demand' = [p \in Ports |-> IF reg[p] # None /\ reg'[p] # None THEN OldDemand(new, p)
                                  ELSE {}]
    /\ failed' = \E p \in changedIOHs(new) \cap Ports :
                    reg'[p] = None /\ NeedsNewAddr(new, p) # {}

Reload(new) ==
    /\ ~failed /\ gen < MaxReloads
    /\ gen' = gen + 1
    /\ \/ RefuseEmpty(new) \/ NothingChanged(new)
       \/ RefuseDangling(new) \/ Apply(new)

Next == \/ \E new \in Configs : Reload(new)
        \/ \E p \in Ports, c \in Connectors : ChangeDemand(p, c)

Spec == Init /\ [][Next]_vars

-----------------------------------------------------------------------------
\* The type invariant: pointers and addresses are those of objects built so far.
TypeOK ==
    /\ conf \in Configs
    /\ reg \in [Names -> None .. gen]
    /\ subs \in [Ports -> [Connectors -> None .. gen]]
    /\ \A c \in Connectors : links[c] \subseteq Ports \X Ports \X (0 .. gen)
    /\ demand \in [Ports -> SUBSET Connectors]
    /\ failed \in BOOLEAN

(***************************************************************************)
(* No object keeps a pointer to a destroyed one, whatever is changed,      *)
(* deleted and created, and in what order (unless ReloadConfig gave up:    *)
(* "connectors with dangling pointer").                                    *)
(***************************************************************************)
NoDangling ==
    ~failed =>
        /\ \A c \in Connectors : \A l \in links[c] : l[3] = reg[l[2]]
        /\ \A p \in Ports, c \in Connectors : subs[p][c] # None => subs[p][c] = reg[c]

(***************************************************************************)
(* A port's subscribers are exactly the connectors that forward its        *)
(* events: no event is sent to a connector that has no connection for it,  *)
(* none is withheld from one that has.                                     *)
(***************************************************************************)
SubscribedAsConnected ==
    ~failed => \A p \in Ports, c \in Connectors :
                  subs[p][c] # None <=> \E l \in links[c] : l[1] = p

(***************************************************************************)
(* Every object runs with the file the configuration names for it and with *)
(* the files that one inherits, after any reloads, carried through, found  *)
(* to change nothing or refused (FindChangedConfs compares these two).     *)
(***************************************************************************)
RunsTheConfig ==
    \A n \in Names : reg[n] # None => /\ built[n][1] = conf.entry[n][1]
                                     /\ built[n][2] = conf.entry[n][2]

(***************************************************************************)
(* "Detects changed or new Ports, Connectors": the same of all that an     *)
(* object is built from.  AddInherits follows inherited files to any       *)
(* depth, FindChangedConfs does not.                                       *)
(***************************************************************************)
RunsAllInherited ==
    \A n \in Names : reg[n] # None => built[n] = conf.entry[n]

\* ... and connectors make all the connections between the ports there are.
ConnectedAsConfigured ==
    ~failed => \A c \in Connectors :
                 reg[c] # None => links[c] = LinksOf(conf.entry[c][1], reg)

(***************************************************************************)
(* "go through and replace subscriptions and inDemand states": a port is   *)
(* in demand only through connectors that are still subscribed to it.      *)
(***************************************************************************)
DemandFromSubscribed ==
    ~failed => \A p \in Ports, c \in Connectors : c \in demand[p] => subs[p][c] # None

(***************************************************************************)
(* "check for connections that would be left dangling by deleted ports     *)
(* before we do anything": a reload that is refused changes nothing.       *)
(***************************************************************************)
RefusedChangesNothing ==
    [][gen' # gen /\ conf' = conf => log' = log]_vars
=============================================================================
