----------------------------- MODULE Hierarchy -----------------------------
(***************************************************************************)
(* The provisioning hierarchy of owprov: entities, venues, inventory tags  *)
(* and device configurations, with the handlers of the REST API that       *)
(* create, change and delete them, device discovery, and the consistency   *)
(* check the service runs when it starts.                                  *)
(*                                                                         *)
(* Every relation is stored twice: a tag names its venue and the venue     *)
(* lists its devices, a venue names its entity and its parent venue and    *)
(* both list it, an entity names its parent and the parent lists it, a     *)
(* holder names a configuration and the configuration's inUse lists the    *)
(* holder.  The deletion guards of the handlers look only at the lists, so *)
(* that the references never dangle rests on the two copies agreeing.      *)
(*                                                                         *)
(* Here every request runs to completion before the next one starts; what  *)
(* concurrent requests and crashes do is the subject of HandlerSteps.      *)
(* Management policies and roles are the subject of AccessControl.         *)
(***************************************************************************)
EXTENDS Relations, FiniteSets

CONSTANTS EntityIds, VenueIds, TagIds, ConfigIds, Subscribers,
          Root,             \* EntityDB::RootUUID(), "0000-0000-0000"
          OperatorEntities, \* the entities that operators were created with
          SubscriberOnly,   \* configurations whose subscriberOnly flag is set
          Keep              \* an optional field absent from a PUT's body

ASSUME HierarchyAssumption ==
    /\ Root \in EntityIds
    /\ OperatorEntities \subseteq EntityIds \ {Root}
    /\ SubscriberOnly \subseteq ConfigIds
    /\ \A x \in {NoId, Keep} :
          x \notin EntityIds \union VenueIds \union TagIds \union ConfigIds
                     \union Subscribers
    /\ NoId # Keep
    /\ EntityIds \intersect VenueIds = {}
    /\ EntityIds \intersect TagIds = {}
    /\ EntityIds \intersect ConfigIds = {}
    /\ VenueIds \intersect TagIds = {}
    /\ VenueIds \intersect ConfigIds = {}
    /\ TagIds \intersect ConfigIds = {}

VARIABLES
    entities, eParent, eChildren, eVenues, eDevices, eConfigurations,
    venues, vEntity, vParent, vChildren, vDevices, vConfigurations,
    vDeviceConfiguration,
    vSubscriber,      \* of a venue that was deleted it is kept, to tell whose it was
    tags, tEntity, tVenue, tConfiguration, tSubscriber,
    configs, cInUse, cEntity, cVenue,
    issued,           \* every UUID ever handed out; none is handed out twice
    deviceConfigs     \* a history: the configurations subscriber devices, or the
                      \* tags deleted with one, have named

entityVars == <<entities, eParent, eChildren>>
venueVars  == <<venues, vEntity, vParent, vChildren, vDeviceConfiguration,
                vSubscriber, eVenues>>
deviceVars == <<eDevices, vDevices>>
tagVars    == <<tags, tEntity, tVenue, tConfiguration, tSubscriber>>
ownerVars  == <<eConfigurations, vConfigurations>>
configVars == <<configs, cInUse, cEntity, cVenue>>

vars == <<entityVars, venueVars, deviceVars, tagVars, ownerVars, configVars,
          issued, deviceConfigs>>

\* The venues created for a subscriber, deleted ones included.
subscriberVenues == {v \in VenueIds : vSubscriber[v] # NoId}

Ids == EntityIds \union VenueIds \union TagIds \union ConfigIds

TypeOK ==
    /\ entities \in SUBSET EntityIds
    /\ eParent \in [EntityIds -> EntityIds \union {NoId}]
    /\ eChildren \in [EntityIds -> SUBSET EntityIds]
    /\ eVenues \in [EntityIds -> SUBSET VenueIds]
    /\ eDevices \in [EntityIds -> SUBSET TagIds]
    /\ eConfigurations \in [EntityIds -> SUBSET ConfigIds]
    /\ venues \in SUBSET VenueIds
    /\ vEntity \in [VenueIds -> EntityIds \union {NoId}]
    /\ vParent \in [VenueIds -> VenueIds \union {NoId}]
    /\ vChildren \in [VenueIds -> SUBSET VenueIds]
    /\ vDevices \in [VenueIds -> SUBSET TagIds]
    /\ vConfigurations \in [VenueIds -> SUBSET ConfigIds]
    /\ vDeviceConfiguration \in [VenueIds -> SUBSET ConfigIds]
    /\ vSubscriber \in [VenueIds -> Subscribers \union {NoId}]
    /\ tags \in SUBSET TagIds
    /\ tEntity \in [TagIds -> EntityIds \union {NoId}]
    /\ tVenue \in [TagIds -> VenueIds \union {NoId}]
    /\ tConfiguration \in [TagIds -> ConfigIds \union {NoId}]
    /\ tSubscriber \in [TagIds -> Subscribers \union {NoId}]
    /\ configs \in SUBSET ConfigIds
    /\ cInUse \in [ConfigIds -> SUBSET (VenueIds \union TagIds)]
    /\ cEntity \in [ConfigIds -> EntityIds \union {NoId}]
    /\ cVenue \in [ConfigIds -> VenueIds \union {NoId}]
    /\ issued \in SUBSET Ids
    /\ deviceConfigs \in SUBSET ConfigIds

(***************************************************************************)
(* InitializeSystemDBs creates the root entity; the operator handler has   *)
(* put one entity per operator below it.                                   *)
(***************************************************************************)
Init ==
    /\ entities = {Root} \union OperatorEntities
    /\ eParent = [e \in EntityIds |->
                    IF e \in OperatorEntities THEN Root ELSE NoId]
    /\ eChildren = [e \in EntityIds |->
                    IF e = Root THEN OperatorEntities ELSE {}]
    /\ eVenues = [e \in EntityIds |-> {}]
    /\ eDevices = [e \in EntityIds |-> {}]
    /\ eConfigurations = [e \in EntityIds |-> {}]
    /\ venues = {}
    /\ vEntity = [v \in VenueIds |-> NoId]
    /\ vParent = [v \in VenueIds |-> NoId]
    /\ vChildren = [v \in VenueIds |-> {}]
    /\ vDevices = [v \in VenueIds |-> {}]
    /\ vConfigurations = [v \in VenueIds |-> {}]
    /\ vDeviceConfiguration = [v \in VenueIds |-> {}]
    /\ vSubscriber = [v \in VenueIds |-> NoId]
    /\ tags = {}
    /\ tEntity = [t \in TagIds |-> NoId]
    /\ tVenue = [t \in TagIds |-> NoId]
    /\ tConfiguration = [t \in TagIds |-> NoId]
    /\ tSubscriber = [t \in TagIds |-> NoId]
    /\ configs = {}
    /\ cInUse = [c \in ConfigIds |-> {}]
    /\ cEntity = [c \in ConfigIds |-> NoId]
    /\ cVenue = [c \in ConfigIds |-> NoId]
    /\ issued = {Root} \union OperatorEntities
    /\ deviceConfigs = {}

Fresh(id) == id \notin issued

\* The value of an optional field after a PUT.
Assigned(old, new) == IF new = Keep THEN old ELSE new

\* CreateMove: an absent field moves nothing, a present one must be empty or exist.
MoveAllowed(new, rows) == new \in rows \union {NoId, Keep}
From(old, new) == IF new = Keep THEN NoId ELSE old
To(new)        == IF new = Keep THEN NoId ELSE new

(***************************************************************************)
(* Entities.                                                               *)
(***************************************************************************)
\* The body's devices and configurations are not cleared.  When the creator's
\* role cannot be stored the row is deleted again, its parent's list keeps it.
EntityPost(e, parent, devices, configurations, roleStored) ==
    /\ Fresh(e)
    /\ parent \in entities
    /\ parent = Root \/ parent \in OperatorEntities
    /\ issued' = issued \union {e}
    /\ eChildren' = AddMembership(eChildren, entities, parent, e)
    /\ IF roleStored
       THEN /\ entities' = entities \union {e}
            /\ eParent' = [eParent EXCEPT ![e] = parent]
            /\ eDevices' = [eDevices EXCEPT ![e] = devices]
            /\ eConfigurations' = [eConfigurations EXCEPT ![e] = configurations]
       ELSE UNCHANGED <<entities, eParent, eDevices, eConfigurations>>
    /\ UNCHANGED <<venueVars, vDevices, tagVars, vConfigurations, configVars>>

EntityDelete(e) ==
    /\ e \in entities
    /\ e # Root
    /\ e \notin OperatorEntities
    /\ eChildren[e] = {}
    /\ eDevices[e] = {}
    /\ eVenues[e] = {}
    /\ eConfigurations[e] = {}
    /\ entities' = entities \ {e}
    /\ eParent' = [eParent EXCEPT ![e] = NoId]
    /\ eChildren' = RemoveMembership(eChildren, entities \ {e}, eParent[e], e)
    /\ UNCHANGED <<venueVars, deviceVars, tagVars, ownerVars, configVars, issued>>

(***************************************************************************)
(* Venues.                                                                 *)
(***************************************************************************)
VenuePost(v, parent, entity, devices, configurations, subscriber, roleStored) ==
    LET owner == IF parent = NoId THEN entity ELSE vEntity[parent]
    IN
    /\ Fresh(v)
    /\ (parent = NoId) # (entity = NoId)
    /\ parent \in venues \union {NoId}
    /\ owner # Root
    /\ owner \in entities \union {NoId}
    /\ configurations \subseteq configs
    /\ issued' = issued \union {v}
    /\ cInUse' = MoveUsage(cInUse, configs, {}, configurations, v)
    /\ eVenues' = AddMembership(eVenues, entities, owner, v)
    /\ IF roleStored
       THEN /\ venues' = venues \union {v}
            /\ vEntity' = [vEntity EXCEPT ![v] = owner]
            /\ vParent' = [vParent EXCEPT ![v] = parent]
            /\ vDevices' = [vDevices EXCEPT ![v] = devices]
            /\ vDeviceConfiguration' =
                 [vDeviceConfiguration EXCEPT ![v] = configurations]
            /\ vSubscriber' = [vSubscriber EXCEPT ![v] = subscriber]
       ELSE UNCHANGED <<venues, vEntity, vParent, vDevices,
                        vDeviceConfiguration, vSubscriber>>
    /\ vChildren' = AddMembership(vChildren, venues, parent, v)
    /\ UNCHANGED <<entityVars, eDevices, tagVars, ownerVars,
                   configs, cEntity, cVenue>>

\* The regular update of a venue.  Neither a move below itself nor a move below
\* one of its own descendants is refused, and entity and parent move independently.
VenuePut(v, entity, parent, configurations) ==
    LET oldConfigurations == vDeviceConfiguration[v]
        newConfigurations == IF configurations = Keep THEN oldConfigurations
                             ELSE configurations
    IN
    /\ v \in venues
    /\ entity \in entities \union {Keep}
    /\ parent \in venues \union {Keep}
    /\ newConfigurations \subseteq configs \/ configurations = Keep
    /\ vEntity' = [vEntity EXCEPT ![v] = Assigned(@, entity)]
    /\ vParent' = [vParent EXCEPT ![v] = Assigned(@, parent)]
    /\ vDeviceConfiguration' =
         [vDeviceConfiguration EXCEPT ![v] = newConfigurations]
    /\ eVenues' = ManageMembership(eVenues, entities,
                                   From(vEntity[v], entity), To(entity), v)
    /\ vChildren' = ManageMembership(vChildren, venues,
                                     From(vParent[v], parent), To(parent), v)
    /\ cInUse' = MoveUsage(cInUse, configs,
                           oldConfigurations, newConfigurations, v)
    /\ UNCHANGED <<entityVars, venues, vSubscriber, deviceVars, tagVars,
                   ownerVars, configs, cEntity, cVenue, issued>>

\* A mutation: the venue's devices are not looked at.
VenueDeleteWithDevices(v) ==
    /\ v \in venues
    /\ vChildren[v] = {}
    /\ v \notin subscriberVenues
    /\ venues' = venues \ {v}
    /\ vChildren' = RemoveMembership(vChildren, venues, vParent[v], v)
    /\ eVenues' = RemoveMembership(eVenues, entities, vEntity[v], v)
    /\ UNCHANGED <<entityVars, vEntity, vParent, vDeviceConfiguration,
                   vSubscriber, deviceVars, tagVars, ownerVars, configVars,
                   issued>>

VenueDelete(v) ==
    /\ v \in venues
    /\ vChildren[v] = {}
    /\ vDevices[v] = {}
    /\ v \notin subscriberVenues
    /\ cInUse' = MoveUsage(cInUse, configs, vDeviceConfiguration[v], {}, v)
    /\ vChildren' = RemoveMembership(vChildren, venues, vParent[v], v)
    /\ eVenues' = RemoveMembership(eVenues, entities, vEntity[v], v)
    /\ venues' = venues \ {v}
    /\ vEntity' = [vEntity EXCEPT ![v] = NoId]
    /\ vParent' = [vParent EXCEPT ![v] = NoId]
    /\ vDeviceConfiguration' = [vDeviceConfiguration EXCEPT ![v] = {}]
    /\ vConfigurations' = [vConfigurations EXCEPT ![v] = {}]
    /\ UNCHANGED <<entityVars, vSubscriber, deviceVars, tagVars,
                   eConfigurations, configs, cEntity, cVenue, issued>>

\* DELETE of a subscriber, once none of its tags is left.  A venue goes when it lists no
\* device; its children, its parent's list and its configurations' inUse are not
\* looked at.  The first venue with a device ends the request: those before it
\* are gone.
SubscriberDelete(s, gone) ==
    LET own == {v \in venues : vSubscriber[v] = s}
    IN
    /\ \A t \in tags : tSubscriber[t] # s
    /\ gone \subseteq own
    /\ \A v \in gone : vDevices[v] = {}
    /\ gone = own \/ \E v \in own : vDevices[v] # {}
    /\ eVenues' = [e \in EntityIds |->
                     IF e \in entities THEN eVenues[e] \ {v \in gone : vEntity[v] = e}
                     ELSE eVenues[e]]
    /\ venues' = venues \ gone
    /\ vEntity' = [v \in VenueIds |-> IF v \in gone THEN NoId ELSE vEntity[v]]
    /\ vParent' = [v \in VenueIds |-> IF v \in gone THEN NoId ELSE vParent[v]]
    /\ vChildren' = [v \in VenueIds |-> IF v \in gone THEN {} ELSE vChildren[v]]
    /\ vDeviceConfiguration' = [v \in VenueIds |->
                     IF v \in gone THEN {} ELSE vDeviceConfiguration[v]]
    /\ vConfigurations' = [v \in VenueIds |->
                     IF v \in gone THEN {} ELSE vConfigurations[v]]
    /\ UNCHANGED <<entityVars, vSubscriber, deviceVars, tagVars, eConfigurations,
                   configVars, issued>>

(***************************************************************************)
(* Inventory tags.                                                         *)
(***************************************************************************)
\* CreateObjects: the configuration is an existing one, or one created inline
\* just before the tag's own row.  The owners an inline configuration names are
\* neither checked nor told.
Inline(configuration) == configuration \in ConfigIds /\ Fresh(configuration)

CreateObjects(configuration, ownerEntity, ownerVenue) ==
    IF Inline(configuration)
    THEN /\ configs' = configs \union {configuration}
         /\ cEntity' = [cEntity EXCEPT ![configuration] = ownerEntity]
         /\ cVenue' = [cVenue EXCEPT ![configuration] = ownerVenue]
    ELSE UNCHANGED <<configs, cEntity, cVenue>>

\* What creating the row, its memberships and its configuration's inUse entry
\* writes; shared by the POST handler and by discovery.
NewTag(t, entity, venue, configuration, subscriber) ==
    /\ issued' = issued \union ({t} \union RefSet(configuration))
    /\ tags' = tags \union {t}
    /\ tEntity' = [tEntity EXCEPT ![t] = entity]
    /\ tVenue' = [tVenue EXCEPT ![t] = venue]
    /\ tConfiguration' = [tConfiguration EXCEPT ![t] = configuration]
    /\ tSubscriber' = [tSubscriber EXCEPT ![t] = subscriber]
    /\ eDevices' = AddMembership(eDevices, entities, entity, t)
    /\ vDevices' = AddMembership(vDevices, venues, venue, t)
    /\ cInUse' = MoveUsage(cInUse, configs', {}, RefSet(configuration), t)
    /\ UNCHANGED <<entityVars, venueVars, ownerVars>>

InventoryPost(t, entity, venue, configuration, ownerEntity, ownerVenue, subscriber) ==
    /\ Fresh(t)
    /\ entity \in (entities \ {Root}) \union {NoId}
    /\ venue \in (venues \ subscriberVenues) \union {NoId}
    /\ entity = NoId \/ venue = NoId
    /\ configuration \in configs \union {NoId} \/ Inline(configuration)
    /\ CreateObjects(configuration, ownerEntity, ownerVenue)
    /\ NewTag(t, entity, venue, configuration, subscriber)

\* CreateFromConnection for a serial number that has no tag yet: the venue whose
\* sourceIP matches, else the entity; neither the root nor a subscriber's venue
\* is excluded.
DeviceDiscovered(t, entity, venue) ==
    /\ Fresh(t)
    /\ venue \in venues \union {NoId}
    /\ entity \in entities \union {NoId}
    /\ venue # NoId => entity = NoId
    /\ UNCHANGED <<configs, cEntity, cVenue>>
    /\ NewTag(t, entity, venue, NoId, NoId)

\* What rewriting the row, its memberships and its configuration's inUse entry
\* writes; shared by the PUT handler and by subscriber devices.
WriteTag(t, entity, venue, configuration, subscriber) ==
    /\ t \in tags
    /\ tEntity' = [tEntity EXCEPT ![t] = Assigned(@, entity)]
    /\ tVenue' = [tVenue EXCEPT ![t] = Assigned(@, venue)]
    /\ tConfiguration' = [tConfiguration EXCEPT ![t] = Assigned(@, configuration)]
    /\ tSubscriber' = [tSubscriber EXCEPT ![t] = Assigned(@, subscriber)]
    /\ issued' = issued \union configs'
    /\ cInUse' = MoveUsage(cInUse, configs',
                           RefSet(From(tConfiguration[t], configuration)),
                           RefSet(To(configuration)), t)
    /\ eDevices' = ManageMembership(eDevices, entities,
                                    From(tEntity[t], entity), To(entity), t)
    /\ vDevices' = ManageMembership(vDevices, venues,
                                    From(tVenue[t], venue), To(venue), t)
    /\ UNCHANGED <<tags, entityVars, venueVars, ownerVars>>

\* The regular update.  None of the POST's checks on the root entity, on a
\* subscriber's venue or on "not both" is repeated.
InventoryPut(t, entity, venue, configuration, ownerEntity, ownerVenue, subscriber) ==
    /\ MoveAllowed(entity, entities)
    /\ MoveAllowed(venue, venues)
    /\ MoveAllowed(configuration, configs) \/ Inline(configuration)
    /\ CreateObjects(configuration, ownerEntity, ownerVenue)
    /\ WriteTag(t, entity, venue, configuration, subscriber)

\* PUT with removeSubscriber.  A subscriberOnly configuration is deleted, any
\* other one is only forgotten: its inUse entry stays.
InventoryRemoveSubscriber(t) ==
    LET c == tConfiguration[t]
    IN
    /\ t \in tags
    /\ tSubscriber[t] # NoId
    /\ configs' = configs \ (RefSet(c) \intersect SubscriberOnly)
    /\ tConfiguration' = [tConfiguration EXCEPT
                            ![t] = IF c \in configs THEN NoId ELSE @]
    /\ tSubscriber' = [tSubscriber EXCEPT ![t] = NoId]
    /\ UNCHANGED <<entityVars, venueVars, deviceVars, tags, tEntity, tVenue,
                   ownerVars, cInUse, cEntity, cVenue, issued>>

InventoryDelete(t) ==
    LET c == tConfiguration[t]
    IN
    /\ t \in tags
    /\ tSubscriber[t] = NoId
    /\ configs' = configs \ (RefSet(c) \intersect SubscriberOnly)
    /\ cInUse' = MoveUsage(cInUse, configs', RefSet(c), {}, t)
    /\ eDevices' = RemoveMembership(eDevices, entities, tEntity[t], t)
    /\ vDevices' = RemoveMembership(vDevices, venues, tVenue[t], t)
    /\ tags' = tags \ {t}
    /\ tEntity' = [tEntity EXCEPT ![t] = NoId]
    /\ tVenue' = [tVenue EXCEPT ![t] = NoId]
    /\ tConfiguration' = [tConfiguration EXCEPT ![t] = NoId]
    /\ UNCHANGED <<entityVars, venueVars, tSubscriber, ownerVars,
                   cEntity, cVenue, issued>>

(***************************************************************************)
(* Subscriber devices, as far as they write tags and configurations; their *)
(* own rows are kept in Subscribers.  Any row that names one of            *)
(* deviceConfigs, or none, may exist here.                                 *)
(***************************************************************************)
\* The venue found for a subscriber.  The empty subscriber finds any venue that
\* has none.
Resolved(subscriber, venue) ==
    IF venue = NoId THEN \A v \in venues : vSubscriber[v] # subscriber
    ELSE venue \in venues /\ vSubscriber[venue] = subscriber

\* The device's tag is created, or rewritten with the venue that was found.
CreateInventoryRecord(t, configuration, subscriber, venue) ==
    /\ Resolved(subscriber, venue)
    /\ \/ /\ Fresh(t)
          /\ NewTag(t, NoId, venue, configuration, subscriber)
       \/ WriteTag(t, Keep, IF venue = NoId THEN Keep ELSE venue,
                   configuration, subscriber)

\* POST and PUT.  A configuration in the body becomes a row without owners; a
\* PUT that names none writes the device's own back, which may be gone by now.
DeviceStore(t, configuration, subscriber, venue) ==
    /\ configuration \in configs \union deviceConfigs \union {NoId}
          \/ Inline(configuration)
    /\ CreateObjects(configuration, NoId, NoId)
    /\ deviceConfigs' = deviceConfigs \union RefSet(configuration)
    /\ CreateInventoryRecord(t, configuration, subscriber, venue)

\* PUT with an empty "configuration": the device's old one is deleted whoever
\* else uses it.
DeviceClear(t, old, subscriber, venue) ==
    /\ old \in deviceConfigs
    /\ configs' = configs \ {old}
    /\ cEntity' = [cEntity EXCEPT ![old] = NoId]
    /\ cVenue' = [cVenue EXCEPT ![old] = NoId]
    /\ UNCHANGED deviceConfigs
    /\ CreateInventoryRecord(t, NoId, subscriber, venue)

\* CleanupSubscriberConfigurationRecord for each configuration of the device and
\* of its tag: only the tag leaves the inUse, then the row is deleted, whoever
\* else uses it; its owners' lists keep it.
CleanupConfigurations(gone, t) ==
    /\ configs' = configs \ gone
    /\ cInUse' = MoveUsage(cInUse, configs, gone, {}, t)
    /\ cEntity' = [c \in ConfigIds |-> IF c \in gone THEN NoId ELSE cEntity[c]]
    /\ cVenue' = [c \in ConfigIds |-> IF c \in gone THEN NoId ELSE cVenue[c]]
    /\ deviceConfigs' = deviceConfigs \union gone

\* DELETE: the tag with the device's serial number goes with it.
DeviceDelete(t, configuration) ==
    /\ t \in tags
    /\ configuration \in deviceConfigs \union {NoId}
    /\ CleanupConfigurations(RefSet(configuration) \union RefSet(tConfiguration[t]), t)
    /\ eDevices' = ManageMembership(eDevices, entities, tEntity[t], NoId, t)
    /\ vDevices' = ManageMembership(vDevices, venues, tVenue[t], NoId, t)
    /\ tags' = tags \ {t}
    /\ tEntity' = [tEntity EXCEPT ![t] = NoId]
    /\ tVenue' = [tVenue EXCEPT ![t] = NoId]
    /\ tConfiguration' = [tConfiguration EXCEPT ![t] = NoId]
    /\ tSubscriber' = [tSubscriber EXCEPT ![t] = NoId]
    /\ UNCHANGED <<entityVars, venueVars, ownerVars, issued>>

\* DELETE of a device whose serial number has no tag.
DeviceDeleteAlone(configuration) ==
    /\ configuration \in deviceConfigs
    /\ CleanupConfigurations({configuration}, NoId)
    /\ UNCHANGED <<entityVars, venueVars, deviceVars, tagVars, ownerVars, issued>>

(***************************************************************************)
(* Device configurations.  entity and venue are the configuration's        *)
(* owners; only the owning entity's list guards a deletion.                *)
(***************************************************************************)
ConfigurationPost(c, entity, venue) ==
    /\ Fresh(c)
    /\ entity \in entities \union {NoId}
    /\ venue \in venues \union {NoId}
    /\ issued' = issued \union {c}
    /\ configs' = configs \union {c}
    /\ cEntity' = [cEntity EXCEPT ![c] = entity]
    /\ cVenue' = [cVenue EXCEPT ![c] = venue]
    /\ eConfigurations' = AddMembership(eConfigurations, entities, entity, c)
    /\ vConfigurations' = AddMembership(vConfigurations, venues, venue, c)
    /\ UNCHANGED <<entityVars, venueVars, deviceVars, tagVars, cInUse>>

ConfigurationPut(c, entity, venue) ==
    /\ c \in configs
    /\ MoveAllowed(entity, entities)
    /\ MoveAllowed(venue, venues)
    /\ cEntity' = [cEntity EXCEPT ![c] = Assigned(@, entity)]
    /\ cVenue' = [cVenue EXCEPT ![c] = Assigned(@, venue)]
    /\ eConfigurations' = ManageMembership(eConfigurations, entities,
                                    From(cEntity[c], entity), To(entity), c)
    /\ vConfigurations' = ManageMembership(vConfigurations, venues,
                                    From(cVenue[c], venue), To(venue), c)
    /\ UNCHANGED <<entityVars, venueVars, deviceVars, tagVars, configs, cInUse,
                   issued>>

\* A mutation: inUse is not looked at.
ConfigurationDeleteInUse(c) ==
    /\ c \in configs
    /\ configs' = configs \ {c}
    /\ eConfigurations' = RemoveMembership(eConfigurations, entities, cEntity[c], c)
    /\ vConfigurations' = RemoveMembership(vConfigurations, venues, cVenue[c], c)
    /\ cEntity' = [cEntity EXCEPT ![c] = NoId]
    /\ cVenue' = [cVenue EXCEPT ![c] = NoId]
    /\ UNCHANGED <<entityVars, venueVars, deviceVars, tagVars, cInUse, issued>>

ConfigurationDelete(c) ==
    /\ c \in configs
    /\ cInUse[c] = {}
    /\ configs' = configs \ {c}
    /\ eConfigurations' = RemoveMembership(eConfigurations, entities, cEntity[c], c)
    /\ vConfigurations' = RemoveMembership(vConfigurations, venues, cVenue[c], c)
    /\ cEntity' = [cEntity EXCEPT ![c] = NoId]
    /\ cVenue' = [cVenue EXCEPT ![c] = NoId]
    /\ UNCHANGED <<entityVars, venueVars, deviceVars, tagVars, cInUse, issued>>

(***************************************************************************)
(* Storage::ConsistencyCheck, run by Storage::Start before the REST        *)
(* servers accept requests: venues, then entities, then inventory.  It     *)
(* does not look at the children lists nor at inUse.                       *)
(***************************************************************************)
FixVenueDevices ==
    vDevices' = [v \in VenueIds |->
                   IF v \in venues THEN vDevices[v] \intersect tags ELSE vDevices[v]]

\* A mutation: the venue lists are not checked.
FixEntityDevicesOnly ==
    /\ eDevices' = [e \in EntityIds |->
                      IF e \in entities THEN eDevices[e] \intersect tags
                      ELSE eDevices[e]]
    /\ eVenues' = eVenues

FixEntity ==
    /\ eDevices' = [e \in EntityIds |->
                      IF e \in entities THEN eDevices[e] \intersect tags
                      ELSE eDevices[e]]
    /\ eVenues' = [e \in EntityIds |->
                     IF e \in entities THEN eVenues[e] \intersect venues
                     ELSE eVenues[e]]

FixInventory ==
    /\ tVenue' = [t \in TagIds |-> IF tVenue[t] \in venues THEN tVenue[t] ELSE NoId]
    /\ tEntity' = [t \in TagIds |->
                     IF tEntity[t] \in entities THEN tEntity[t] ELSE NoId]

Restart ==
    /\ FixVenueDevices
    /\ FixEntity
    /\ FixInventory
    /\ UNCHANGED <<entityVars, venues, vEntity, vParent, vChildren,
                   vDeviceConfiguration, vSubscriber, tags, tConfiguration,
                   tSubscriber, ownerVars, configVars, issued>>


(***************************************************************************)
(* Requests arrive in any order with any admissible body.  The lists a     *)
(* client may put in a POST body hold at most one identifier here.         *)
(***************************************************************************)
AtMostOne(S) == {{}} \union {{x} : x \in S}

EntityStep ==
    \/ \E e \in EntityIds, parent \in entities, ds \in AtMostOne(tags),
          cs \in AtMostOne(configs), ok \in BOOLEAN :
         EntityPost(e, parent, ds, cs, ok)
    \/ \E e \in entities : EntityDelete(e)

VenueStep ==
    \/ \E v \in VenueIds, parent \in venues \union {NoId},
          entity \in entities \union {NoId}, ds \in AtMostOne(tags),
          cs \in AtMostOne(configs), s \in Subscribers \union {NoId}, ok \in BOOLEAN :
         VenuePost(v, parent, entity, ds, cs, s, ok)
    \/ \E v \in venues, entity \in entities \union {Keep},
          parent \in venues \union {Keep}, cs \in AtMostOne(configs) \union {Keep} :
         VenuePut(v, entity, parent, cs)
    \/ \E v \in venues : VenueDelete(v)
    \/ \E s \in Subscribers, gone \in SUBSET venues : SubscriberDelete(s, gone)

\* The owners an inline configuration may name: any identifier, none otherwise.
Owners(configuration, ids) ==
    IF Inline(configuration) THEN ids \union {NoId} ELSE {NoId}

InventoryStep ==
    \/ \E t \in TagIds, entity \in entities \union {NoId},
          venue \in venues \union {NoId}, c \in ConfigIds \union {NoId},
          s \in Subscribers \union {NoId} :
         \E oe \in Owners(c, EntityIds), ov \in Owners(c, VenueIds) :
            InventoryPost(t, entity, venue, c, oe, ov, s)
    \/ \E t \in TagIds, entity \in entities \union {NoId},
          venue \in venues \union {NoId} :
         DeviceDiscovered(t, entity, venue)
    \/ \E t \in tags, entity \in entities \union {NoId, Keep},
          venue \in venues \union {NoId, Keep},
          c \in ConfigIds \union {NoId, Keep},
          s \in Subscribers \union {NoId, Keep} :
         \E oe \in Owners(c, EntityIds), ov \in Owners(c, VenueIds) :
            InventoryPut(t, entity, venue, c, oe, ov, s)
    \/ \E t \in tags : InventoryRemoveSubscriber(t)
    \/ \E t \in tags : InventoryDelete(t)

ConfigurationStep ==
    \/ \E c \in ConfigIds, entity \in entities \union {NoId},
          venue \in venues \union {NoId} :
         ConfigurationPost(c, entity, venue)
    \/ \E c \in configs, entity \in entities \union {NoId, Keep},
          venue \in venues \union {NoId, Keep} :
         ConfigurationPut(c, entity, venue)
    \/ \E c \in configs : ConfigurationDelete(c)

DeviceStep ==
    \/ \E t \in TagIds, c \in ConfigIds \union {NoId},
          s \in Subscribers \union {NoId}, venue \in venues \union {NoId} :
         DeviceStore(t, c, s, venue)
    \/ \E t \in TagIds, old \in deviceConfigs, s \in Subscribers \union {NoId},
          venue \in venues \union {NoId} :
         DeviceClear(t, old, s, venue)
    \/ \E t \in tags, c \in deviceConfigs \union {NoId} : DeviceDelete(t, c)
    \/ \E c \in deviceConfigs : DeviceDeleteAlone(c)

Next ==
    \/ /\ EntityStep \/ VenueStep \/ InventoryStep \/ ConfigurationStep \/ Restart
       /\ UNCHANGED deviceConfigs
    \/ DeviceStep

Spec == Init /\ [][Next]_vars

-----------------------------------------------------------------------------
(***************************************************************************)
(* A tag's venue and entity exist and list the tag, whatever sequence of   *)
(* moves, discoveries, removals, failed creations and restarts came        *)
(* before: this is what makes the emptiness test of the DELETE handlers    *)
(* sufficient.                                                             *)
(***************************************************************************)
TagsPlaced ==
    \A t \in tags :
       /\ tVenue[t] # NoId => tVenue[t] \in venues /\ t \in vDevices[tVenue[t]]
       /\ tEntity[t] # NoId => tEntity[t] \in entities /\ t \in eDevices[tEntity[t]]

(***************************************************************************)
(* A venue's entity exists and lists the venue, and so does its parent     *)
(* venue, through every PUT that moves the two independently.  The one     *)
(* exception: a parent that was a subscriber's venue may be gone, since a  *)
(* subscriber's DELETE does not look at the venue's children.              *)
(***************************************************************************)
VenuesPlaced ==
    \A v \in venues :
       /\ vEntity[v] # NoId => vEntity[v] \in entities /\ v \in eVenues[vEntity[v]]
       /\ vParent[v] # NoId =>
            IF vParent[v] \in venues THEN v \in vChildren[vParent[v]]
            ELSE vParent[v] \in subscriberVenues

(***************************************************************************)
(* The entities form a tree of depth at most two below the root: the       *)
(* root and the operators' entities stay, every other entity hangs from    *)
(* one of them, and the parent lists it.                                   *)
(***************************************************************************)
EntitiesPlaced ==
    /\ {Root} \union OperatorEntities \subseteq entities
    /\ eParent[Root] = NoId
    /\ \A e \in entities \ {Root} :
         /\ eParent[e] \in {Root} \union OperatorEntities
         /\ e \in OperatorEntities => eParent[e] = Root
         /\ e \in eChildren[eParent[e]]

(***************************************************************************)
(* A configuration's inUse names every tag and venue that refers to it.    *)
(* One that is gone while a tag or a venue still refers to it is either    *)
(* subscriberOnly or one that a subscriber device, or a tag deleted with   *)
(* one, has named: only those are deleted, or written into a tag, without  *)
(* a look at inUse or at the row.                                          *)
(***************************************************************************)
Held(holder, c) ==
    IF c \in configs THEN holder \in cInUse[c]
    ELSE c \in SubscriberOnly \union deviceConfigs

ConfigurationsHeld ==
    /\ \A t \in tags : tConfiguration[t] # NoId => Held(t, tConfiguration[t])
    /\ \A v \in venues : \A c \in vDeviceConfiguration[v] : Held(v, c)

\* Every live row's identifier has been handed out, so a fresh one is nowhere.
LiveRowsIssued == entities \union venues \union tags \union configs \subseteq issued

\* So has one that only a name is left of, which is therefore not handed out again.
NamesIssued ==
    /\ subscriberVenues \union deviceConfigs \subseteq issued
    /\ \A t \in tags : RefSet(tConfiguration[t]) \subseteq issued
    /\ \A v \in venues : vDeviceConfiguration[v] \subseteq issued

\* The inductive invariant behind the four above.
Consistent ==
    /\ TypeOK
    /\ LiveRowsIssued
    /\ NamesIssued
    /\ TagsPlaced
    /\ VenuesPlaced
    /\ EntitiesPlaced
    /\ ConfigurationsHeld

(***************************************************************************)
(* No request takes away an entity, a venue or a shared configuration that *)
(* a row still refers to, before or after the request, with two            *)
(* exceptions in the code: a subscriber's venue goes although venues hang  *)
(* below it, and a subscriber device takes its configurations along,       *)
(* whoever else uses them.  A tag's venue does not go even then.           *)
(***************************************************************************)
OrphansNothing ==
    /\ \A v \in venues \ venues' :
          /\ \A t \in tags : tVenue[t] # v /\ tVenue'[t] # v
          /\ v \notin subscriberVenues => \A w \in venues : vParent[w] # v
    /\ \A e \in entities \ entities' :
          /\ \A t \in tags : tEntity[t] # e
          /\ \A v \in venues : vEntity[v] # e
          /\ \A f \in entities : eParent[f] # e
    /\ \A c \in (configs \ configs') \ SubscriberOnly :
          \/ /\ \A t \in tags : tConfiguration[t] # c
             /\ \A v \in venues : c \notin vDeviceConfiguration[v]
          \/ DeviceStep

NothingOrphaned == [][OrphansNothing]_vars

(***************************************************************************)
(* The consistency check only drops list entries whose row is gone: it     *)
(* moves no tag, and afterwards the device and venue lists name live rows  *)
(* only.                                                                   *)
(***************************************************************************)
RepairsListsOnly ==
    Restart =>
       /\ tVenue' = tVenue /\ tEntity' = tEntity
       /\ \A v \in venues : vDevices'[v] \subseteq tags
       /\ \A e \in entities : eDevices'[e] \subseteq tags /\ eVenues'[e] \subseteq venues
       /\ \A t \in tags : tVenue[t] # NoId => t \in vDevices'[tVenue[t]]

RestartRepairs == [][RepairsListsOnly]_vars

=============================================================================
