------------------------------ MODULE RecordsMC ------------------------------
(***************************************************************************)
(* Every kind of record and every class of message, the configurations     *)
(* assembled from the records and the rules that follow from them.  A      *)
(* behaviour follows one record, one message, one configuration or the     *)
(* rules of one device, so that the four add up.                           *)
(***************************************************************************)
EXTENDS Records, Messages, APConfig, DeviceRules

MCKindNames == DOMAIN Kinds

\* Two entities, one below the other, a venue of the lower one, and a venue below that,
\* which for the rules is in the same entity and for the configurations in none.
MCRuleEntityOf == [v1 |-> "e1", v2 |-> "e1"]
MCEntityOf == [v1 |-> "e1", v2 |-> ""]
MCParentOf == [e0 |-> "", e1 |-> "e0", v1 |-> "", v2 |-> "v1"]
MCSections == <<"s1", "s2">>
MCListings == {<<>>, <<"c1">>, <<"c2", "c1">>}
MCElementLists ==
    {<<[weight |-> 0, body |-> [s1 |-> "plain"]]>>,
     <<[weight |-> 1, body |-> [s1 |-> "plain", s2 |-> "block"]]>>,
     <<[weight |-> 1, body |-> [s2 |-> "plain"]], [weight |-> 2, body |-> [s1 |-> "plain"]]>>,
     <<[weight |-> 2, body |-> [s1 |-> "scalar"]], [weight |-> 2, body |-> [s1 |-> "plain"]]>>,
     <<[weight |-> 1, body |-> [s1 |-> "endpoint gone"]]>>}

\* One kind of configuration that does not count is enough, the place of a subscriber
\* device, a block nobody uses and what is listed below the device do not matter, and two
\* places that list something show which comes first.
Unlisted == {p \in Places : lists[p] = <<>>}

AssemblyOnly ==
    /\ AssemblyInit
    /\ \A c \in ConfigIds : stored[c].exists \/ stored[c].matches
    /\ \A c \in ConfigIds : \/ stored[c].exists /\ stored[c].matches
                            \/ stored[c].elements = <<[weight |-> 0, body |-> [s1 |-> "plain"]]>>
    /\ blocks = "good" \/ \E c \in ConfigIds : stored[c].elements[1].body = [s1 |-> "plain", s2 |-> "block"]
    /\ device.subscriber => device.place = ""
    /\ Places \ Line(NextPlace, Start) \subseteq Unlisted
    /\ \E p, q \in Places : Places \ {p, q} \subseteq Unlisted

NoAssembly ==
    /\ stored = <<>> /\ lists = <<>> /\ device = <<>> /\ blocks = "good"
    /\ phase = "new" /\ walk = <<>> /\ Config_ = <<>> /\ expand = 1 /\ names = {} /\ sections = <<>>

NoRules ==
    /\ sets = <<>> /\ placed = "" /\ start = "" /\ at = "" /\ evaluated = Unevaluated
    /\ changed = {} /\ rulePuts = 0

VARIABLE follows
mcvars == <<vars, mvars, assemblyVars, rulesVars, follows>>

MCInit ==
    /\ follows \in {"record", "message", "configuration", "rules"}
    /\ IF follows = "record" THEN Init /\ kind # NoKind
       ELSE kind = NoKind /\ columns = {} /\ upgrade = 0 /\ row = NoRow /\ known = <<>> /\ puts = 0
    /\ MessageInit /\ (follows = "message" <=> class # NoClass)
    /\ IF follows = "configuration" THEN AssemblyOnly ELSE NoAssembly
    /\ IF follows = "rules" THEN RulesInit ELSE NoRules

MCNext ==
    /\ UNCHANGED follows
    /\ \/ follows = "record" /\ Next /\ UNCHANGED <<mvars, assemblyVars, rulesVars>>
       \/ follows = "message" /\ MessageNext /\ UNCHANGED <<vars, assemblyVars, rulesVars>>
       \/ follows = "configuration" /\ AssemblyNext /\ UNCHANGED <<vars, mvars, rulesVars>>
       \/ follows = "rules" /\ RulesNext /\ UNCHANGED <<vars, mvars, assemblyVars>>

MCSpec == MCInit /\ [][MCNext]_mcvars
=============================================================================
