# A TLA+ model of provider-growthbook

provider-growthbook is a Crossplane provider. It watches Kubernetes resources
of four kinds (`Project`, `Environment`, `Feature`, `SDKConnection`) and keeps
the corresponding objects of a GrowthBook organization in line with them, over
GrowthBook's REST API. This directory holds TLA+ models of its controllers, the
TLC runs that check them on small instances, and TLAPS proofs of most of what
those runs check, for every value of the constants.

Paths are relative to the repository; `project.go`, `environment.go` and
`feature.go` without a directory are the controllers.

## 1. Inventory

| Component | State it keeps | Operations | Where |
|---|---|---|---|
| Project controller | none of its own: the spec and two annotations of the resource (external name, creation outcome) and the finalizer | Connect, Observe, Create, Update, Delete | `internal/controller/project` |
| Environment controller | same; the external name is the resource's name | same | `internal/controller/environment` |
| Feature controller | same | same; Delete is up to three calls | `internal/controller/feature` |
| Feature rules | none: conversion and drift check of an ordered list | `rulesRequest`, `rulesUpToDate` | `rules_convert.go`, `rules_drift.go` |
| SDKConnection controller | same as Project, and a connection secret | same as Project | `internal/controller/sdkconnection` |
| HTTP client | base URL and key | `do`, `decodeResponse`, `IsNotFound`, `IsArchiveRequired` | `internal/clients/growthbook/client.go` |
| Credentials | none | `ParseCredentials`, `New`, `NewFromSecret` | same file |
| ProviderConfig controllers | a config's finalizer and number of users; the usages that Connect records | count usages, hold a config while there are some, let it go afterwards | `internal/controller/config`, `Connect` of each kind |
| Startup | the gate: which kinds wait for their CRD | `canWatchCRD`, `Setup`, `SetupGated` | `cmd/provider/main.go`, `internal/controller/growthbook.go` |
| managed reconciler (crossplane-runtime) | informer cache, in-memory copy, rate limiter | Reconcile | external |
| GrowthBook | projects, environments, features, SDK connections of an organization | GET, POST, PUT, DELETE | external |

How they interact. The managed reconciler takes a resource from its informer
cache, calls Connect (which reads the ProviderConfig and its secret) and then
Observe, and depending on the answer Create, Update or Delete; between those
calls it writes the resource back: finalizer, the announcement of a creation,
late-initialized fields, the outcome of a creation. Each of those writes sends
the *whole* object it holds in memory, Observe's changes to it included. The
controllers keep nothing between two reconciles: everything a retry can go by
is what reached the Kubernetes API or GrowthBook.

A resource and its config know each other only through a `ProviderConfigUsage`:
Connect writes it before it reads the config, the config controllers count the
ones their informer has, and the garbage collector removes it after the
resource. None of these controllers starts before the process has found out
whether it may watch CRDs; if so, those of the four kinds start when their CRD
is there.

What is hard, and which properties it is about:

* **Server-given ids** (Project, SDKConnection). The only trace of a new
  project is the answer to the POST. If it is lost, or the process dies before
  the id is patched into the annotation, the project is an orphan. *No project
  is leaked except through these accounted losses, and never are there two
  live ones whose ids were in hand.*
* **Stale reads.** The informer lags; a reconcile may start from a copy without
  the id, without the finalizer or without the late-initialized fields. What
  prevents a second POST is optimistic concurrency on the announcement.
* **Absence.** 404, or 400 with a message, means absent; anything else must
  not. *The finalizer is removed only when the object is gone.*
* **Lost and late calls.** A call that timed out may have been served, not be
  served, or be served later, in any order.
* **initProvider.** Values that are create-only must not slip into forProvider
  through late initialization and a later full write; unset fields belong to
  GrowthBook.
* **Convergence.** An update must leave what the next drift check asks for:
  pointer, empty and zero values, decimals as strings and as floats, lists
  compared as sets, lists compared in order.
* **Archive, then delete** (Feature): three calls, each of which may fail, with
  people changing the feature in between.
* **Empty values.** `omitempty` drops them, both from requests and from the
  stored spec.
* **Usages.** They are written by one controller and counted by two others,
  through an informer that lags, while references move between configs of two
  kinds that may have the same name. *A config in use stays, so that a resource
  can connect for its own deletion; one no longer used goes, although nothing
  but the last usage's event wakes its controller up.*
* **Start.** CRDs and permissions arrive in any order, and the question whether
  there is the permission is asked once, in three parts. *A process only goes
  down when it must, and every kind that is installed is served in the end.*
* **Two processes.** Leader election is off by default. *Two of them, each with
  an informer of its own, never make two objects for one resource.*

`PROJECT.json` lists all of this line by line under "hazards".

## 2. Modules

```
ExternalResource          the abstract specification: a resource and what it answers for
                          (instantiated by AssignedRemote and NamedRemote)
GrowthBookClient          answers, IsNotFound, IsArchiveRequired, decodeResponse
  ManagedReconciler       the reconciler around a controller (external)
    AssignedRemote        GrowthBook for objects whose id it chooses
      AssignedProofs        lemmas for both kinds below
      Project               + ProjectConvert
        MCProject             constants for TLC
        ProjectProofs         theorems TypeCorrect, Invariant, NeverLeaksSilently,
                              NeverDuplicates, CreationsJustified, FinalizerHolds,
                              ImplementsResource, WritesSettle, InitOnlyStaysOut,
                              UnsetStaysUnset
        TwoProcesses          two instances of Project on one resource  MCTwoProcesses
          TwoProcessesProofs    theorems TwoInvariant, TwoCreationsJustified, TwoNeverLeak,
                                TwoImplementResource, TwoInitOnlyStaysOut,
                                TwoUnsetStaysUnset
      SDKConnection         + SDKConnectionConvert      MCSDKConnection
        SDKConnectionProofs   theorems TypeCorrect, Invariant, KeyIsOfNamed,
                              NeverLeaksSilently, NeverDuplicates, CreationsJustified,
                              FinalizerHolds, ImplementsResource, UnsetStaysUnset
    NamedRemote           GrowthBook for objects whose id is the resource's name
      NamedProofs           lemmas for both kinds below
      Environment         + EnvironmentConvert          MCEnvironment
        EnvironmentProofs     theorems EnvironmentTypes, InitOnlyStaysOut, CreateOnlyStays,
                              WritesSettle, ImplementsResource
      Feature             + FeatureConvert              MCFeature
        FeatureProofs         theorems FeatureTypes, UndeclaredStays, ImplementsResource;
                              of RuleDrift: NoDriftUnseen, ExactDrift
  StringLists             sameSet, omitempty (used by the four below)
    EnvironmentConvert
    SDKConnectionConvert
    FeatureRules          rules: conversion and drift check
      FeatureConvert
      RuleDrift           the drift check against what rules mean     MCRuleDrift
Credentials               from a secret's payload to a client
  ProviderConfig          resources, usages, configs                  MCProviderConfig
Startup                   access review, gate, controllers            MCStartup
  ProviderProofs          of ProviderConfig: theorems ConfigTypes, ConfigInUseStays;
                          of Startup: theorems StartupTypes, ProcessStaysUp
```

### How the code maps to the models

**State.** `mr` is the object in the API server, `cache` the informer's copy,
`cr` the copy the running reconcile has in memory. A resource version is only
ever compared with the latest one, so it is a flag beside each copy
(`cacheFresh`, `crFresh`): a full write needs `crFresh`, any foreign write
clears it. An object is its forProvider, initProvider, external name, creation
annotation (`none`, `pending`, `succeeded`, `failed`), finalizer and deletion
mark. `pc` is the next step of the reconcile. `remote` is what GrowthBook
holds, `inFlight` the requests the client gave up and GrowthBook may still
serve. `owned`, `lost`, `made` and `hidden` are history variables: fields users
have ever set in forProvider, projects whose id never reached the API server,
whether the provider made the present object, and whether it appeared (or was
denied) after Observe had said otherwise. No guard of the system reads one.
`SDKConnection` adds `details`, the connection details in memory, and `secret`,
the data of the connection secret.

**Actions.** One action per call of the controller and per write of the
reconciler: `Connect`, `Observe`, `Create`, `Update`, `Delete` (for Feature
also `Archive` and `DeleteArchived`, the second and third call inside its
Delete), `StartReconcile`, `Initialize`, `AddFinalizer`, `MarkPending`,
`SaveLateInit`, `RemoveFinalizer`, `RecordCreation`, and `Publish` for the
connection details of an SDK connection. Everything else can happen
between two of them. A controller action contains its HTTP exchange: the
conversion of the spec, the answer (any fault, or what a healthy GrowthBook
says), the effect on GrowthBook that this answer allows (`MayHaveApplied`: a
2xx was carried out, a 4xx was not, no answer and a 500 may or may not have
been), and what the handler does with the answer.

**Data.** A spec or an API object is a record with the Go field names; nil is
`Nil`. Free texts and ids are small sets; a threshold is a string and
`ParseFloat` says which number it stands for, so that "0.95" and "0.950" are
two strings and one number. `"bad"` and `"half"` do not parse: the CRD's
pattern (`project_types.go:40`, `feature_rules_types.go:96`) keeps them out of
new objects, and the code guards against objects stored without it
(`rules_convert.go:48-51` says so); these values exercise that path.
`MarshalParameters` is what is left of a spec after Go serialised it (its empty
lists go), `MarshalRequest` the same for a request.

An SDK connection has 24 fields of five kinds; its model has one of each kind
(a required string, the language that is reported as a set, a list, an optional
string, a toggle that is always and one that may not be reported), and the
header of `SDKConnectionConvert` says which others are treated alike. Its keys
are known by its id.

**The connection secret.** The reconciler publishes what Observe returns before
it goes on (unless the resource is being deleted), what Create returns after
the id is recorded, and what Update returns. Publishing adds and replaces keys
and takes none away, so that a proxy host that is cleared stays in the secret.
The secret is owned by the resource and goes with it.

**GrowthBook** (external) is modelled by what the client and the controllers
rely on: POST creates under a new id (or under the name that is given, refused
when taken), PUT changes the members that are sent, DELETE removes, GET shows.
A faulty answer neither shows nor denies an object (`FaultsAssumption`); the
one misleading answer the code can meet, a 2xx without a body, is among the
faults.

**ProviderConfig.** `mrs`, `configs` and `usages` are in the API server,
`seenUsages` is the informer's copy of the usages, with `freshUsages` telling
which of them are the latest (an outdated one cannot be updated). A reconcile of
a resource is cut down to its two calls that others can get between: Track, and
the reading of the config and its secret, which goes on to what a client is for
(the finalizer, or the external deletion). A reconcile of a config starts with a
count of the usages, and ends with one write; the reconciler's finalizer and its
status are two writes in a row, merged here. Configs and secrets are read from
the API server: a read that lags is an earlier read. `protected` is a history
variable: the resources whose usage was known when the deletion of the config
was asked for. `setupNamespacedProviderConfig` and `setupClusterProviderConfig`
stand for what the code decides: which config is reconciled, whose usages count,
whose events wake the controller up. The resync of informers
(`--sync`) is not relied on.

**Startup.** `granted` and `established` are the cluster's: what the service
account may do with CRDs, which CRDs are established (those of the kinds, and
that of the usages, which both config controllers watch besides their own:
`Watched`, `config.go:56` and `81`). A controller is
`registered` (waits at the gate), `starting` (its informer has not synced) or
`serving`; one that cannot sync ends the process, and the kubelet starts it
again. What the gate does with a kind is one step (`Release`): set it up and
start it. CRDs are never taken away.

**TwoProcesses.** The variables of `Project` are one process and everything the
two share; the other is `B == INSTANCE Project` with a worker and an informer of
its own. What one writes makes the copies of the other outdated. Users and
GrowthBook are in the first one's `Next`.

**ExternalResource** says what every kind promises: a resource answers for at
most one object, makes or takes over one only when it answers for none, and
goes, if it may delete, only when there is none left. `Implements` is the
refinement, of each kind and of two processes. The mapping is about the API
server and GrowthBook alone. A live object is

* with given ids (`AssignedRemote`): *held* when it was made by the provider and
  its id was not lost, whether or not the resource names it; an imported one,
  when the resource names and holds it; else *loose*. So an id that is still in
  memory is held already, and a step that drops it is a `Lose`, which the model
  only takes where the code accounts for the loss.
* with a name (`NamedRemote`): *held* when the provider made it, and it neither
  came up nor was denied behind Observe's back (`hidden`). A provider that is told
  not to delete answers for the object only while it holds it by the finalizer: it
  lets go of an object that stays.

An update, a poll, a conflict, a retry, a crash without loss: all stutter.

### Mutated forms

Operators whose comment begins with "Mutated:" are not part of the models.
Each is a definition with a plausible bug in it; substituting it for the
definition that follows makes TLC find the property named beside it in
`PROJECT.json` ("mutants") violated. They document what each property is
sensitive to.

## 3. Runs

A configuration is named after its run. Every run that passes states what it
checks:

| Run | Checks | Shows |
|---|---|---|
| `ProjectLifecycle` | `TypeOK`, `NoSilentLeak`, `NoDuplicate`, `InitOnlyNeverAdopted`, `Implements`, `UnsetLeftAlone`, `FinalizerGuards` | safety of a project's whole life, an imported project beside it, under every fault |
| `ProjectConverges` | `RequestsSettle`, `Converges`, `DeletionCompletes` | liveness, including a spec that never becomes a request; one update suffices, for settings in forProvider, in initProvider and in both, against settings GrowthBook may hold |
| `SDKConnection` | `TypeOK`, `KeyOfNamed`, `Implements`, `UnsetLeftAlone`, `Converges`, `DeletionCompletes` | the whole life of a connection, imported or not, and of its secret |
| `Environment` | `TypeOK`, `InitOnlyNeverAdopted`, `Implements`, `CreateOnlyNeverSent`, `RequestsSettle`, `Converges`, `DeletionCompletes` | an object that is found again by name, lost POST answers included; create-only fields |
| `Feature` | `TypeOK`, `Implements`, `UndeclaredKept`, `Converges`, `DeletionCompletes` | a feature with rules, tags and toggles beside what people do; archive-then-delete |
| `RuleDrift` | `DriftExact` | the drift check against `Meaning`, written from what rules are for |
| `ProviderConfig` | `TypeOK`, `InUseStays`, `ConfigDeletionCompletes`, `DeletionCompletes`, `Accounted` | a config in use stays, one no longer used goes, a resource can connect for its own deletion, users are counted right |
| `Startup` | `StaysUp`, `EverybodyServed` | no crash loop but for what is missing; every installed kind is served, whatever the order of CRDs and permissions |
| `TwoProcesses` | `BothJustified`, `NoLeakBetween`, `Implements`, `BothLeaveUnset` | no second project, none leaked and no slug changed that is left to GrowthBook, although two processes reconcile one resource from their own copies while people change the project |

Three properties that are proved have no run of their own. `CreateJustified` is
the half of `BothJustified` that is about one process; `InitOnlyNeverAdopted` for
two processes is what `ProjectLifecycle` checks for one; and `StartupTypeOK` is
what the invariant of `Startup` begins with.

The runs that find a violation show three places where the code does not do what
it, or a field's documentation, says (`PROJECT.json`, "findings"):

| Run | Property | Statement | What happens |
|---|---|---|---|
| `FeatureEmptyRules` | `EmptyRulesAuthoritative` | `feature_types.go:91-94` "a non-nil list, including an empty one, is authoritative" | the empty list is lost when the reconciler writes the resource |
| `SDKEncryptionKey` | `EncryptionKeyPublished` | README.md:92-93 "to receive the client `key`, and when present the `encryptionKey`" | the encryption key is never published |
| `RuleDescription` | `ChangedDescriptionDrifts` | `rules_drift.go:28-30` "a changed field on any rule counts as drift" | the description is not compared |

The first two run under fairness, with no fault but a 500, and their
counterexamples are fair. The other values that `omitempty` drops, an empty list
of projects (`environment_types.go:45`, `sdkconnection_types.go:48`) and an empty
default value, have no run of their own: they are exceptions of `Converges`, and
listed under "hazards".

**Properties that hold only with a restriction**, and why:

* `NoSilentLeak` of a project excepts `lost`: projects whose POST was answered
  by nothing, by something that does not decode or by an empty body, that was
  served after the client gave up, or whose id was still in memory when the
  process died. Each is set in the action where it happens; the property says
  that there is no other way.
* `Implements` of an environment or feature counts a `hidden` object as loose:
  it was created, or denied by an empty list, after Observe had decided that
  there is none.
* `InUseStays` speaks of resources whose usage both the API server and the
  informer had when the deletion was asked for; one whose usage is still on its
  way can lose its config. `DeletionCompletes` of `ProviderConfig` needs the
  config to be there and the secret to have a key: nothing holds the secret.
* `EverybodyServed` excepts a CRD of the configs or of their usages that is
  missing (those controllers never wait at the gate), a missing CRD without the permission to watch CRDs, and a
  process that has lost that permission (`Degraded`: it is not asked for again).
* `UnsetLeftAlone` and `UndeclaredKept` need LateInitialize among the policies.
  Without it the copy in memory still carries the slug, or the texts, that
  Observe read, and an update of the same reconcile sends them, over a change
  made in between.
* `UndeclaredKept` is about the PUT of a reconcile. One that was given up may be
  served when another resource of that name has the feature, and carries what
  the earlier one declared. A field that users had set before, and an entry for
  an environment that they have taken out, may still be in a copy that is out of
  date, and its PUT sends it once more: what such a copy has entries for is
  excepted (`Toggled`), and so are the fields in `owned`.
* `UnsetLeftAlone` needs Delete among them as well. A project that the provider
  does not delete outlives its resource, and so does a PUT that was given up: it
  may arrive after another resource of the same name has taken the project over,
  with fields that this one never set.
* `Converges` excepts a resource whose creation was announced and never
  concluded (`Stuck`; the reconciler refuses to go on until a human decides,
  its deletion included), specs that do not become a request (`Unbuildable`),
  an empty project list, and a feature `OutOfReach` (another value type, an
  empty default value or tag list).

### Bounds

* `MaxChaos` bounds disturbances: user edits, deletions and re-creations,
  out-of-band changes, crashes, failed Connects and faulty answers together. 3
  in `ProjectLifecycle`, `Environment` and `Feature`: enough for a lost answer, a
  deletion and a crash, or a late request, an edit and an out-of-band change. 2
  in `ProjectConverges` and `SDKConnection`, where the graph of states is
  larger (a lost answer and a crash, or a failed GET and a late request), and in
  `TwoProcesses`, where every interleaving of two reconciles is a state of its
  own. In `ProviderConfig` (2) it bounds changes of references, deletions,
  creations, changes of the secret and crashes: a reference that moves away from
  a config and its deletion, or a reference that moves and moves back. In
  `Startup` (`MaxDisruptions`, 3) it bounds crashes and withdrawn permissions; CRDs and
  permissions that come are not bounded. Reconciles, cache lags, polls and late
  deliveries never are.
* `ProviderConfig`: two resources in two namespaces, a `ProviderConfig` in one
  of them and a `ClusterProviderConfig` of the same name, each resource with
  another one at first (the cluster one was reconciled before, the other is new,
  so that both ways are covered); a JSON payload, a bare key, and JSON without a key. Two
  names that differ never meet in the code.
* `Startup`: three of the four kinds, which are set up alike, both kinds of
  configs and their usages, from every set of permissions and of CRDs.
* `TwoProcesses`: a new project whose spec has a name and a description, and no
  slug. People may choose another slug, which both processes are to leave alone
  (each adopts the one it reads), or take the description away, which makes a
  process send a PUT: with both, a process sends what it read before the slug
  changed.
* `Feature`: users may drop the toggles, so that a reconcile runs on with the
  entries its copy still has, or declare an empty list of rules.
* `Ids`: an id is used up by each POST that is served; one imported, and three
  to give, allow two leaks and a success. They are symmetric in `ProjectLifecycle`
  and `TwoProcesses` (where none is imported and two are to give: a project and
  its double); the runs with liveness use no symmetry. When no id is left a POST is not served.
* Texts: two or three values per field, always including `""`; lists: empty,
  one and two elements, in both orders, and with a repetition (environments).
* `RuleDrift`: lists of up to two declared rules out of four drafts (one per
  rule type, with some fields set and others left out), up to three observed
  rules, two edits: a reorder is one edit, a field change and an undoing two.
  Repeated ids are outside the instance, and outside `NoRepeats`, a
  hypothesis of `ExactDrift`.
  The API does not exclude them, but where GrowthBook keeps one of two copies
  the check reports drift for good, and a declared variation that is repeated
  hides one that is not declared.
* The management policies of the runs are Create, Update, Delete and
  LateInitialize; the proofs are about every set that includes Create and
  Update.

`CHECK_DEADLOCK FALSE`: a system whose resource is gone and whose disturbances
are used up has nothing more to do, nor has `RuleDrift` once in sync with its
edits used up.

### Fairness

`WF(Worker)`: a resource is reconciled again after every error (the rate
limiter's retry), after every change of its spec (the `DesiredStateChanged`
event filter) and at the latest after the poll interval (`WithPollInterval`,
`--poll`, one minute by default), and a reconcile that started runs on. The
informer catches up (`WF(CacheSync)`) and the creation grace period passes
(`WF(GraceEnds)`). No fairness is assumed for users, faults, crashes or for the
delivery of requests that were given up.

In `ProviderConfig` resources are polled as above; a config is reconciled when it
or a usage changes (`For` and `Watches` in `config.go`) or when the last reconcile
failed, and never because time passes. Usages reach the informer and the garbage
collector works. In `Startup` the kubelet restarts a process that ended, informers
sync when they can and time out when they cannot, and events of CRDs arrive as
long as they may be watched. Nothing is assumed of the cluster: a CRD or a
permission may never come.

## 4. Proofs

The theorems hold for every value of the constants that satisfies the named
assumptions: any ids, resources, kinds and configs, any number of disturbances,
any specs, edits and out-of-band changes of the right type, any set of faults
that neither shows nor denies an object, any management policies that include
Create and Update. TLC evaluates the assumptions in every run. What they say
beyond types: the bounds are naturals, a payload is not one of the marks (`Nil`,
`NoObject`, `Absent`), `""` is among the texts, no kind is both managed and a
config kind.

Every proof has one lemma per action or per group of actions that do the same
to the invariant; the last lines of a module put them together. The invariants
were found in this order: state, ask TLC, try to prove, and strengthen where a
step was left open.

**Project and SDKConnection** (`AssignedProofs`, `ProjectProofs`,
`SDKConnectionProofs`). Both kinds get their ids from GrowthBook, and what keeps
an object from being leaked or made twice is the same for both. It is proved
once, in `AssignedProofs`, for any parameters `P`, `IP` (the two halves of a
spec), objects `O` and request bodies `R`. `AssignedStep(P, O, R)` is all that a
step may be there: one of the reconciler's own (`Between`), a Connect, an
observation that goes on to a step that it justifies (`GoesOn`), a POST that ends
in an id learned or lost (`Creates`), a PUT or DELETE (`Calls`), a crash, users
and the informer (`Around`), or GrowthBook moving by itself (`Outside`). Each
component shows that its `Next` takes no other step (`NextForms`); the types, the
safety invariant and the refinement follow from that.

The types are inductive with `OnTheWay` below. The safety properties are not by
themselves, because whether an object is made twice depends on what each *copy*
of the resource may still write. `Safe` is

* `CopiesAgree`: a copy with the latest version has the finalizer, the deletion
  mark, the creation annotation and (until an id comes in) the name that the API
  server has;
* `NamesWereGiven`: a name in any copy, however old, is an id GrowthBook has
  given, so that a stale one can only point at the resource's own object or at
  one that is gone for good;
* `Protocol`: on the way from MarkPending to RecordCreation the copy has the
  finalizer; from Create on the announcement is stored and the stored name is
  free (none, or of an object that is gone); so is the name in memory wherever
  the reconciler has concluded that nothing exists (`OnTheWay`);
* `NoSilentLeak` itself.

`NeverLeaksSilently` and `CreationsJustified` are in it; `NeverDuplicates`
follows, because two live ids that are not lost would both have to be the name
of the resource, or one the name and one just learned, which `Protocol`
excludes. `FinalizerHolds`: a resource that goes with its finalizer goes by
RemoveFinalizer, where `Protocol` says that the name in memory is free and
`CopiesAgree` that it is the stored one; an object seen absent stays absent,
since ids are not reused. What GrowthBook does to `remote` is abstracted once
(`OnlyMoves`: an id goes from unborn to live to gone and never back).

`ImplementsResource` is the refinement: with the invariant, every step is a step
of `ExternalResource` or a stutter. Only one object changes its standing in a
step (`OthersStand`), so that a step is one of five: it makes, holds, loses or
ends one object, or is not seen.

For **Project**, `InitOnlyStaysOut` and `UnsetStaysUnset` add what the copies
carry (`Known`): the latest ones have nothing in forProvider that users set in
initProvider only, and Observe only adds to what they have (`CopiesClean`); a
field that users never set and that some PUT may still carry - one in flight, the
next one of this reconcile, or one that starts from the informer's copy, however
stale - is set in the stored resource, or the project that the PUT names is gone
(`PutsBacked`). `WritesSettle` rests on lemmas about the conversion: what
`request` sends, laid over any project, is what `isUpToDate` accepts; the request
of a spec with `initProvider` merged in settles that merged spec.

For **SDKConnection** `IInv` follows the connection details from the call that
returns them to the secret:

* `FoundNamed`: a reconcile that has found a connection knows it by name, so that
  Update and Delete never call GrowthBook without one;
* `DetailsNamed`: details in memory are of the connection that the copy in memory
  names, until they are published;
* `NamesFollow`: a stale copy that has another name than the stored resource
  names nothing, or a connection that is gone. What is published under the name
  of a stale copy is of the named connection, or of none that lives;
* `KeyNamed`: the key in the secret is the stored name, or of a connection that
  is gone. This is `KeyOfNamed` made inductive: *gone* cannot be taken back, *not
  live* can (an id not given yet);
* `FieldsOwned`: no copy, and no PUT in flight, carries a field that users never
  set. SDKConnection adopts nothing, so that this needs no restriction on the
  policies, as Project's does.

**Two processes** (`TwoProcessesProofs`). The lemmas of `ProjectProofs` are used
twice: by `EXTENDS` for the first process, and by `PB == INSTANCE ProjectProofs`
with the worker and the informer of the second. A few lemmas (`SameKinds` and the
like) say that what the two share means the same in both. The joint invariant
`TwoInv` is

* `FirstInv` and `SecondInv`: what each process keeps when it is alone, but for
  one part: a project is not leaked if it is what the *other* process has just
  learned (`SafeBut`, `NoLeakBut` of `AssignedProofs`, whose allowance is empty
  for one process);
* that at most one of them is creating, which means between MarkPending and
  RecordCreation.

Neither holds without the other. A reconcile that is not creating works on a copy
without an announced creation (`Ready`: the reconciler refuses to go on from one
that has it), while the one that creates has its announcement stored
(`Announced`). So the copy that the other works on is not the latest one, and all
that it can do is to make way (`StandsBack`): none of its writes is accepted, the
announcement and the finalizer stay, and it does not begin to create. The one that
does not move sees its copies become outdated and the shared state change as
GrowthBook and users may change it anyhow (`LooksOn`). `TwoCreationsJustified`,
`TwoNeverLeak` and `TwoImplementResource` follow. `TwoKnown` adds what the copies
of both carry, for `TwoInitOnlyStaysOut` and `TwoUnsetStaysUnset`: what any PUT
of either may carry is set in the stored resource or meant for a project that is
gone (`BackedKept`), and what users own only grows.

**Environment and Feature** (`NamedProofs`, `EnvironmentProofs`, `FeatureProofs`).
`NamedProofs` has the steps they share, for any parameters `P`. A name is known
before the object is, so no annotation is needed; instead the argument is that
the resource keeps its finalizer while it answers for an object:

* `CopiesFollow`: a copy, fresh or not, with a finalizer and without a deletion
  mark is of a resource that has its finalizer still. A worker that acts on a
  stale copy acts for somebody;
* `CopiesAgree`: as above;
* `Protocol`: on the way to a POST or PUT the copy is such a copy; at
  RemoveFinalizer the object is none that the resource answers for;
* `HeldIsHeld`: while the resource answers for an object it is there, with its
  finalizer;
* `CopiesClean`: in the stored resource, in the latest copy and in every copy that
  GrowthBook may be written from, forProvider has no field that users set in
  initProvider only, and none of those that Observe never adopts (`never`);
* `CopiesBacked` (Feature): what a copy has that users never set, the stored
  resource has too, with the policy to save what Observe adopts;
* `EntriesAgree` (Feature): the latest copy has entries for the environments
  that the stored resource has entries for, since serialising loses no entry;
* `InFlightOK`: a delayed request is one that a controller sends, so that
  whenever it is served it leaves an object of the right type.

`UndeclaredStays`, `CreateOnlyStays` and `WritesSettle` follow from what the
conversions send (`UpdateRequestTyped`, `Serialised` and the lemmas around them),
for any rules and tags.

**Rules** (the last part of `FeatureProofs`, about `RuleDrift`). No state matters
here but the types of the two lists; the work is about the comparisons, for lists
of any length. `NoDriftUnseen`: rules that pass mean the same. Lists whose sorted
copies are equal have the same elements, repeats or not, because matching up the
occurrences of each element maps one list into the other, and two lists of one
length then onto it (`SameSetSound`); as many variation ids as are declared, all
found among as many entries, leave no entry out, so that the value read from the
map is the only one (`VariationsSound`). The converse needs `NoRepeats`
(`SameSetComplete`, `VariationsComplete`). `ExactDrift` is `[]DriftExact`
for inputs with `RuleInputs` - its hypothesis, and not an assumption of the
module, so that the theorems about Feature do not rest on it; `MCRuleDrift`
assumes it, and TLC evaluates it there.

**ProviderConfig** (`ProviderProofs`). `InUseStays` is about a config and resources that meet only in
usages. `CInv` relates them: a resource that is there and has a finalizer, or a
usage that the informer shows, or a worker that is past the tracker with the
latest copy, has a usage (`UsagesStay`); those that a config waits for have a
usage of it, in the API server and in the informer, and a reconcile of the config
that is about to take the finalizer off with the latest copy has nobody to wait
for (`ConfigsWait`). That a count of zero means nobody is the library's lemmas
about cardinalities.

**Startup** (`ProviderProofs`). `SInv`: what was reviewed is granted unless a permission has been
withdrawn since; the gate's controller comes with safe start only, and a managed
kind is set up under it when its CRD is there.

Three properties turned out to be false in general when their proofs were tried,
and say now when they hold: `UnsetLeftAlone` and `UndeclaredKept` (section 3,
restrictions), and `Implements` of the kinds with names, whose *held* did not
look at the policy to delete.

Every safety property that a passing run checks is proved. Only model-checked,
because they are beyond the prover: `Converges`, `DeletionCompletes`, `ConfigDeletionCompletes`,
`Accounted` and `EverybodyServed` (liveness needs ENABLED and fairness).

## 5. Not modelled, and why

* A connection secret that belongs to somebody else (publishing fails, which is
  one of the failures), and an SDK connection that is deleted and declared
  again while its secret is still being collected.
* `observation()` and conditions: status that nothing reads back.
* URL building and JSON encoding beyond `omitempty`: pure, and their errors end a
  call like any other error. The slashes that are trimmed off an API URL.
* A namespace that is being deleted: no usage can be written in it any more, so a
  resource whose usage the collector took first cannot connect. The order in
  which the namespace controller deletes is not the provider's.
* CRDs that are removed, and the gate closing again: the registered functions run
  once, and the repository has no code for it.
* Flags for logging, metrics, rates, the secret cache and change logs, and the
  lease of leader election when it is on: configuration of libraries.
* Two processes on an environment, a feature or a connection: the protocol of
  announcing a creation is the reconciler's, and the same as for a project.
* In the four controllers `Connect` only succeeds or ends the reconcile, for the
  reasons that `ProviderConfig` models.
* Generated code, scheme registration, packaging and end-to-end tests: no
  behaviour of their own.
* A resource that carries the external-name annotation of a user is covered
  for projects and SDK connections (`Imported`); for environments and features the name is the
  default one.
* GrowthBook's plan limits (402) are one more error status.

## 6. Plan

Done: the client, the reconciler, the four kinds, ProviderConfig and Startup with
their proofs; the rules and Credentials; two processes; the abstract
`ExternalResource` and its refinement by the four kinds and by two processes,
proved.

Nothing is left that the prover can reach. Liveness stays with TLC.

## 7. Running

```
tlc -workers 2 -config ProjectLifecycle.cfg MCProject
tlapm ProjectProofs.tla
```
