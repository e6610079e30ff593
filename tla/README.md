# picoshift in TLA+

picoshift makes a kind cluster look like OpenShift. Its core is **ocp-sim**
(`src/simulator/src`), one Rust process on tokio that runs about a dozen
controllers and servers against the Kubernetes API server; a Go CLI
(`src/cli`) creates the cluster and manages users. This directory holds TLA+
models of ocp-sim, TLC configurations that check them on small instances, and
TLAPS proofs of what matters most. `PROJECT.json` lists every component, run,
mutant, theorem and hazard, and maps each definition to the lines it models.

    tlc -workers 2 -config MCOAuthExchange.cfg MCOAuthExchange     # one run
    tlapm Ingress_proofs.tla                                       # one proof module

## 1. Inventory

### The parts, their state and their operations

| part | source | state | operations |
|---|---|---|---|
| OAuth server | `oauth/handlers.rs`, `types.rs`, `k8s.rs`, `mod.rs` | maps `codes` and `tokens` and the `user_store`, each under a tokio `RwLock`; User and Identity objects in the cluster | authorize (GET, POST), token, userinfo, eviction every 300 s |
| htpasswd watcher | `oauth/watcher.rs` | none; writes `user_store` | reload at every event of the Secret |
| external provider | `oauth/byoidc.rs` | cache of discovery and keys, loaded at start in up to five attempts | redirect, exchange, userinfo, keys, proxy |
| set-up | `oauth/infra.rs` | Service, Endpoints, Route, Corefile, Endpoints `kubernetes` | one sequence of API calls per start |
| LoadBalancer | `loadbalancer.rs` | an `AtomicU8`; status of Services | assign an address |
| Route admission | `route.rs` | controller cache; status of Routes | admit |
| reverse proxy | `proxy.rs` | table host -> backend, written by two tasks; connections and tunnels | follow Routes, follow HTTPRoutes, look up, forward, tunnel |
| Gateway API | `gateway.rs` | caches of four controllers; Envoy ConfigMaps, Deployment, Service | accept classes and Gateways, write xDS |
| JobSet | `jobset.rs` | controller cache; child Jobs | create children, count, end |
| Service CA | `service_ca.rs`, `main.rs` | a CA per process; Secrets, ConfigMaps, webhook configurations | sign, inject |
| Project | `project.rs` | two caches; Namespaces, Projects | mirror, back |
| ImageStream | `imagestream.rs` | controller cache; status of ImageStreams | import the tags of the spec |
| SCC webhook | `pod_mutate.rs`, `util.rs` | a certificate per process; the webhook registration, annotations of Namespaces | register, patch Pods, annotate |
| CLI users | `cmd/user.go`, `internal/cluster.go` | htpasswd Secret, users of the provider, ClusterRoleBindings | `user add`, `user delete` |

### How they interact

They share no memory except inside the OAuth server (the locks) and the proxy
(the table). Everything else goes through the API server: a write of one
controller is a watch event for another. `route.rs` writes the host that
`proxy.rs` reads; `gateway.rs` makes the Service of a Gateway, which `proxy.rs`
finds once somebody has labelled it (`deploy/seed/maas-post-deploy.sh`);
`cmd/user.go` writes the Secret that `oauth/watcher.rs` follows; the
set-up of the OAuth server creates a Route that `route.rs` admits. `main` waits
on all tasks with `select!`, so the end of any task is the end of the process.

### What is hard

* **Interleavings**: every request and every reconcile is a task, and each
  `.await` is a point where all others run. Locks are held across API calls in
  two places (`handlers.rs:94`, `byoidc.rs:220`).
* **Stale state**: controllers decide on cached objects; watches deliver late,
  skip versions, and list again after an error, dropping what was queued.
  `applied_objects()` hides deletions.
* **Partial failure**: a reconcile is several API calls and fails between any
  two of them; `error_policy` starts it over after 10 s. Some failures are only
  logged.
* **Restart**: memory is lost, the cluster is not; the CA is a new one.
* **Peers**: the provider, the backends and the clients answer late, in part,
  with something else, or not at all, and most waits have no timeout.
* **Read, change, write back**: two `picoshift user` commands overlap, and each
  writes the whole Secret.
* **Edges**: a `u8` counter that wraps, TTL comparisons with `<` and `>`, zero
  replicas, empty hostnames.

### What makes each part correct

* OAuth: a code is worth one token, to its client and for its user; expired
  entries go; a login that holds the store's guard ends
  under the store it was checked against; nobody waits for ever; an Identity
  names a uid its User really had.
* Set-up: repeating it repairs what failed and interrupts nothing.
* LoadBalancer: addresses are unique while the pool lasts, and are handed out.
* Routes: an admitted Route's host leads to the backend it names now.
* Gateway: accepted means complete; first match is longest match, to a cluster
  that is defined; the rules of an HTTPRoute arrive, and stay.
* JobSet: Completed is true; every JobSet ends.
* Service CA: Secrets settle with the current CA, and then stay.
* Project: a Project comes to match its Namespace unless somebody else owns a
  label of it; a Project gets a Namespace.
* External provider: no User without a valid token the provider signed; the
  server comes up and answers, unless the provider keeps silent to it.
* Webhook: a Pod that needs a group gets that of its Namespace, across restarts
  with a new CA and a new address; every Namespace is annotated.
* ImageStream: the status comes to list the tags of the spec, and the
  controller's own patches end.
* CLI: the latest password is the one that works; what a delete took away does
  not come back.
* Connections: a tunnel passes everything on, in order and to the end; the proxy
  itself leaves nothing hanging.

## 2. Plan

Done in this order, the most important first: `OAuthServer` with
`CodeLifecycle` as its abstract specification; `LoadBalancer`; `RouteProxy`
(admission and proxy composed, because the status is their interface);
`Gateway`; `JobSet`; `ServiceCA`; `Project`; `OAuthInfra`; then `Byoidc`, `UserCli`
(the commands composed with the watcher and the store it replaces), `PodMutate`,
`ImageStream` and `ProxyConnection`; and proofs of every invariant, every action
property and the refinement that a run checks.

Next:

1. A composition of `Gateway` and `RouteProxy`: from Gateway and HTTPRoute to a
   host that the proxy serves. The two together are too large for TLC unless
   the Envoy objects are one step.
2. Safety of `Project` and `ImageStream`, of which only liveness is stated.

## 3. Modules

An action is what the code does between two await points, or one API call. The
names are those of the Rust functions; where a function has several await
points the later pieces have the function's name and a suffix, or the name of
the API call. Operators with a suffix such as `_Peeks` or `_Forgets`, directly
above the definition they vary, are plausible slips; each makes the property
it is listed with in `PROJECT.json` fail.

**Controllers** (`RouteProxy`, `Gateway`, `JobSet`, `ServiceCA`, `Project`,
`ImageStream`, `PodMutate`) follow
kube-rs: `unseen` are the objects that changed since the controller's watch
last looked, `Observe` brings `cache` up to date and queues a reconcile, a
reconcile starts from the cached object (one at a time per object), and
`error_policy` queues it again. Versions between two looks are skipped.
Tasks that read a watch stream themselves (`LoadBalancer`, the proxy, the
htpasswd watcher) have queues of versions instead, which a re-list replaces.

* `OAuthServer` - `req[r]` is the await point of a request and the locals it needs
  afterwards; `codes`, `tokens`, `userStore` are the maps; `writer` is the store
  the watcher waits to write (tokio's lock lets no reader pass a waiting writer,
  `CanRead`); `Guards` are the read guards kept across calls. Ages are in ticks.
  Passwords, verifiers, secrets and URIs are chosen where a handler first looks
  at them. The three modes are one constant. `redeemed` is a history variable.
* `CodeLifecycle` - abstract: gone, issued, presented; paid at most once.
  `OAuthServer!Lifecycle` is the refinement mapping.
* `OAuthInfra` - `Calls` is the sequence of `setup_infrastructure`; `Warned` passes
  a failure over, `Abandoned` ends the sequence, and the server listens anyway.
* `LoadBalancer` - an address is its last octet; `nth` remembers which allocation
  of the process a Service carries, `missed` which failed patches have not been
  followed by an event.
* `RouteProxy` - `patching` is a reconcile between its decision and its patch;
  `task` is where `build_gateway_route_table` is in its loop over parentRefs;
  `writers` remembers who wrote an entry. The Service of a Gateway is made by
  `gateway.rs`, without the label the proxy asks for, which the deployment
  script adds, or by Istio, with it.
* `Gateway` - `job[o]` is a reconcile in `get`/`create` (the Envoy objects, in
  order), `gateway`, `routes`, `rules`, `patch` (`sync_httproute_config`), `accept`.
  Prefixes are nested, so a prefix is its length. `current` in the configuration is
  history: whether it was written from the HTTPRoutes as they were. `generate_rds_yaml` sorts the rules:
  `Nth` says which rule a stable sort puts at a place, the one with as many rules
  before it as there are places.
* `JobSet` - `work` is the running reconcile with its three counters.
* `ServiceCA` - a certificate is the number of the CA that signed it.
* `Project` - labels are functions, `applied` and `theirs` say who owns which; the
  server-side apply replaces the labels it owns and is refused if somebody else owns
  one with another value (`Contested`).
* `Byoidc` - the cache, the attempts at start and the five handlers. A token has the
  key it names, the user it names if it names one, and whether the signature is
  genuine and RS256 and the token has not expired. The provider answers, fails,
  refuses, sends some other document, or keeps silent.
  Which requests come here and which are local is in `OAuthServer`.
* `UserCli` - `cmd[c]` is a command between two kubectl calls, with the lines it has
  read. `wanted`, `lost` and `removed` remember what commands did: the password they
  gave last, whose line was written back by a command that had not read the
  Secret it replaced, and who was deleted without a hitch. A ClusterRoleBinding is
  the user's own or the `ocp-sim-admin` that the installation leaves behind.
* `PodMutate` - `proc` is the process (its CA, its address, whether it registered and
  listens), `mwc` the registration in the cluster, which outlives it. The hash of a
  Namespace's name is the constant function `Hash`; the range is computed from it.
* `ImageStream` - a spec is a sequence of tags; `status_needs_update` compares what the
  code compares, and the controller's own patch is an event for it.
* `ProxyConnection` - one request from the lookup to the answer. On an upgraded
  connection `wire` is what a side sent and the proxy has not read, `resp_buf` what
  was read with the head, `buf` what a copy holds, `got` what a side was sent;
  `Swallowed` are the pieces that came with the head and are not passed on.

`Setup` (`OAuthInfra` and `UserCli`), `Ingress` (`LoadBalancer` and `ProxyConnection`),
`Certificates` (`ServiceCA` and `PodMutate`) and `MCControllers` (`Project` and
`ImageStream`) each put two parts that share no state side by side: `part` is chosen in
the initial state and never changes, each behaviour is one of the part, and the other
rests in its initial state. The first three are modules of their own because the
proofs extend them too; their theorems are about the specification of the one part
or of the other. The `MC` modules give the constants their values.

## 4. Runs

All runs pass; deadlock is checked except in `controllers` and `certificates`, where
the bounds on writes, restarts and incarnations let everything come to rest.

| run | instance | shows |
|---|---|---|
| `oauth_exchange` | 2 requests, 2 codes, 2 tokens, 2 clients, PKCE right and wrong, oidc | single use, retention, and the refinement of `CodeLifecycle` |
| `oauth_reload` | 2 requests, 2 stores, 2 queued events, byoidc | logins against reloads, User deletion against Identity |
| `oauth_live` | 2 requests, legacy | no starvation of the watcher, no request waits for ever |
| `byoidc` | 2 requests, a provider that changes its keys, fails and answers nonsense | Users only for signed tokens; a failed attempt undoes nothing; the server answers where the provider does |
| `setup_and_users` | set-up: legacy and byoidc, 2 node addresses; users: 2 commands at once, 3 in all, 2 modes | a clean start repairs, repeating interrupts nothing; the latest password, deletes last |
| `ingress` | 2 Services, pool of 3, 5 allocations; a connection with 2 pieces each way | addresses unique until the counter wraps; tunnels faithful, nothing hangs |
| `routes` | a Route, or an HTTPRoute with its Gateway; 2 hosts, 2 backends, failing calls | the host leads to the backend; admission, serving, Gateway hosts |
| `gateway_routes` | 2 HTTPRoutes, a DestinationRule, nested prefixes | every configuration that is ever written resolves |
| `gateway_live` | 2 Gateways sharing ConfigMaps, a Gateway with an HTTPRoute whose rule changes, or a class | acceptance is honest and happens; routes arrive and stay |
| `jobset` | up to 2 children, 2 incarnations | Completed is true; every JobSet ends |
| `certificates` | CA: 3 processes; one Service, two that share a Secret, or a ConfigMap and 2 webhooks; webhook: 2 Namespaces, one skipped, 2 addresses | Secrets settle and stay, webhooks trust; Pods get their group, Namespaces their range |
| `controllers` | Project: 1 name, 1 label with 2 values, 4 writes; ImageStream: 7 specs | Projects match unless a label is contested; tags are imported |

Every component's module states a `TypeOK`; a run checks the one of `OAuthServer`, and all
but those of `Project` and `ImageStream` are proved.

### Bounds

Two of everything that competes (requests for a code, Services for an address
or a Secret, Gateways for a ConfigMap, HTTPRoutes for the order of routes) are
enough for every pairwise interleaving, and every step of the code touches the
entry of one of them. Objects that share nothing need not be there together:
`Populations` gives the sets of objects that are looked at at the same time, and
`names` is the one chosen in a behaviour. The pool of 3 wraps twice
in 5 allocations. A code's TTL of 1 with a sweep period of 1 has ages below, at
and above the limit. Three CAs let a Secret be two restarts old. Three commands
are two that overlap and one that comes after; with two lines in the Secret one
can bring back what another removed. Two pieces and a copy that holds one let
a tunnel end with a piece on the wire, in the copy and unread by its receiver.
The specs of an ImageStream have no tag, one, two in either order, one twice and
one without an image. Symmetry over
requests, codes and tokens is used in safety runs only. `ImplementsLifecycle` is one of
those: `CodeLifecycle` has no fairness.

### Fairness

Weak fairness says that tokio polls every task, that watches deliver, that
queued reconciles start and API calls return. Strong fairness is used where
something is tried again for ever and may fail each time (the admission patch),
and where one task takes events of several objects, which a watch hands over in
order (`LoadBalancer`, the proxy's HTTPRoute events). Nothing is assumed of
users, of failing calls or of restarts. Properties that need them to end
say so: `Calm` is "from some time on every step is `Undisturbed`": the process stays
up and no call fails but those that the API server must refuse (404, 409, 422),
which go on. What else has to end is a hypothesis of the property at hand:
`FirstWebhookTrusted` needs the operator to stop shortening the list of webhooks.
In `Byoidc` and `ProxyConnection` nothing is assumed of the provider, the backends and
the clients, as most of the code's waits have no timeout: `Responsive` promises an
answer to a request that the provider is not silent to, however many others hang,
and `NothingHangs` excepts the waits that only a peer can end.
In `JobSet` the Job controller of Kubernetes brings Jobs to an end and the garbage
collector works; `ServiceCA` and `Project` assume the latter too. In `Certificates` the
fairness of the webhook's start names its part, since it alone of the resting part
could go on.

## 5. Proofs

Every invariant and every action property that a run checks, and the refinement of
`CodeLifecycle`, is also a theorem: it holds for every set of objects, users and
requests and for every value of the bounds, as long as the constants satisfy the
named assumptions of the modules. These say that bounds are numbers, that inputs
have their types, that kinds of objects do not overlap, that a hash or a map is a
function on what it is used for, and that `None` is not a value it stands beside
(`EntryAssumption`, `TokenAssumption`, `ConfigAssumption`). TLC evaluates them in every
run. A theorem says `Spec => []P` of a component's own specification; fairness is
not used.

Hardly any property is inductive. Each section of a proof module starts with its
inductive invariant, then says what each action does to it, then derives the
properties.

* `OAuthServer_proofs`
  * `TypeCorrect`: which locals a request has depends on the await point it has reached
    (`Formed`), and uids stay in bounds because only a deleted User is created anew
    (`RoomForUid`).
  * `IdentitiesReal`, `GuardedLoginsCurrent`, `StoreFollows`: `LoginInv`. A request between
    the two applies has a uid its User had (`UidKnown`); a login with Basic
    credentials holds its guard at the await points from the check to the code and
    at no others (`GuardedPath`), where the watcher cannot write the store; the last
    event, or else the store the watcher waits to write, or else the store in force
    is the content of the Secret (`SecretOnItsWay`).
  * `CodesInOnePlace`, `CodesSingleUse`: what is in the map or with an exchange is not
    paid out yet, and never with two exchanges. The lemmas say which steps leave
    a code where it is.
  * `RetentionBounded`: an age has a bound that grows with the time since the sweep and
    falls when the sweep has passed its map (`AgesBounded`).
  * `LifecycleImplemented`: a step of the server leaves a code as it is, issues, presents,
    drops or pays it; all but one code stay, except when a sweep or a restart
    drops several.
* `Byoidc_proofs` - `KeysHaveEndpoints`, `UsersAreVouchedFor`, `ExchangesEnsureUser`. No request
  is handled and no key known while the server starts (`BootInv`); keys loaded since
  the provider changed its own are those it publishes (`KeysInv`); of each request,
  which tokens it can hold (`RequestInv`).
* `Ingress_proofs`
  * `AddressesUnique` (`UniqueWithinPool`): two Services have different addresses because
    they carry different allocations. `Counted` says that counter, patch on its way
    and Services agree on the octet of each allocation and that no allocation is
    carried twice; `GoneCarriesNothing` that a deleted Service carries none. Failing
    patches are included.
  * `TunnelsFaithful`: `StreamInv` splits what a side sent into what came with the head,
    what was handed over, what a copy holds and what is on the wire, without a gap;
    `HeadInv` says what the head took, `TunnelInv` that nothing is copied before the
    upgrade and that the side whose end ended the tunnel has nothing left in it.
* `Setup_proofs`
  * `StartsComplete`, `RepeatsSafely`: what each call of the sequence finds done by those
    before it, if none of them failed (`Behind`, `Removed`), and that the address is
    read before it is written anywhere (`ProcInv`).
  * `LatestPasswords`, `DeletesLast`: what the Secret holds of a user whom some command
    wrote (`LinesInv`); a command without a hitch is alone with its user
    (`Undisturbed`); nobody adds a user who counts as deleted (`RemovedInv`).
* `RouteProxy_proofs` - `BackendsRight` (`RoutesToBackend`): the last queued event of a Route
  that exists is the Route as it is, and when none is left the table agrees with
  it (`QueueInv`, `Settled`); the table's other writer has an HTTPRoute at hand
  (`TaskInv`).
* `Gateway_proofs`
  * `AcceptedServed`: the step that accepts a Gateway looks at nothing; `EnsuredInv` says
    which objects exist by then.
  * `RoutesRight` (`RoutesResolve`): the configuration was generated as a whole (`XdsInv`).
    The number of rules before a rule grows along the order, so each of
    `0 .. n - 1` is the number of exactly one (`NthExists`), every rule has a route,
    and the routes are sorted (`RoutesSorted`). What holds of rule lists of every
    length is shown with a least counterexample.
* `JobSet_proofs` - `CompletedRight` (`CompletedMeansSucceeded`). The
  reconcile never looks twice at a child it has counted, so `Tallied` ties the
  counters to the children they came from, and `SucceededStays` says that those
  only gain pods. `Belongs` ties the cached object, the running reconcile and the
  children to the first JobSet of the name: the garbage collector then leaves
  them alone, and the number of children counted is the number it asked for.
* `Certificates_proofs`
  * `CertificatesStay` (`CertifiedStays`): a reconcile deletes a Secret some time after it
    read it. `DeleteInv`: if that Secret is of the present CA by then, another
    Service's reconcile made it; `OfInv` and `NamesInv` say whose reconciles there are.
  * `PodsGrouped`: from the registration on it carries the process's own address and CA
    (`RegisteredInv`), over the bind and until the process ends.

Each module but `OAuthServer_proofs`, where the invariants are separate, has one
inductive invariant per part (`IInv`, `CliInv`, `PxInv`, `PodInv`) with the part's `TypeOK` in it.

Only model-checked are the 16 liveness properties: fairness and `ENABLED` are out of
the prover's reach. `Project` and `ImageStream` have only such properties, and no proof
module.

## 6. What the models do that a document says otherwise

The models follow the code. Where a document or a log message
says something else, no property claims it.

* `docs/byoidc.md:32`: CLI logins "bypass the external provider entirely". The login
  does; the exchange of its code is sent to the provider (`oauth/mod.rs:96`).
* `docs/reviews/review-2026-05-20.md:34` lists `needs_ip` among the checks that make
  reconcilers idempotent. It looks at the event: two queued events give a Service one
  address and then another (`loadbalancer.rs:52`).
* `docs/plan-initial.md:119`: the status carries the Route's hostname. After an edit
  of `spec.host` it keeps the old one (`route.rs:63`).
* `docs/loadbalancer-plan.md:66`: requests for a Gateway hostname are forwarded. Not if
  the HTTPRoute's event was handled before the Gateway's Service existed
  (`proxy.rs:303`), nor if that Service has no `gateway-name` label: the one that
  `gateway.rs:772` makes has none until `deploy/seed/maas-post-deploy.sh:21` sets it.
* `docs/gateway-feature.md:42`: HTTPRoutes become Envoy routes. Of two reconciles the
  one that listed first may patch last (`gateway.rs:858`), and the old rules stay until
  the next change of some object (`EventuallyRouted` excepts this); a deletion
  triggers no reconcile (`gateway.rs:967`).
* `docs/tasks/jobset.md:22,24`: terminal when all Jobs finish, and skipped then. One pod
  decides for its Job (`jobset.rs:91`), and a reconcile on an old object may change
  Failed to Completed (`jobset.rs:36`).
* `README.md:157` (Service CA): a ConfigMap keeps the CA of an earlier process
  (`service_ca.rs:161`), and a Service created anew may lose its predecessor's Secret
  with nothing to make another (`service_ca.rs:48`).
* `README.md:156` (Project): a deleted Namespace comes back from its Project
  (`project.rs:64`). The apply is not forced (`project.rs:46`): if a label of the Project
  is somebody else's, as all are of a Project made by hand, and the Namespace gets
  another value for it, every apply is answered 409 and the Project follows the
  Namespace no more, in nothing (`EventuallyMirrored` excepts this).
* `README.md:163`: the proxy tunnels WebSocket upgrades. Frames that arrive in one chunk
  with the 101 of the backend are not passed on (`proxy.rs:432`); `TunnelFaithful`
  excepts them. Of an ordinary answer whose body breaks off the client gets an
  empty body under the backend's status (`proxy.rs:687`).
* `docs/byoidc.md:29`, tokens are validated with the provider's keys: these are
  loaded at start only. Once the provider has changed them, exchanges go on but make no User until the next restart
  (`byoidc.rs:128`). A valid token without the user claim makes, or is answered as,
  the user "unknown" (`byoidc.rs:249`, `295`). No call to the provider has a timeout
  (`byoidc.rs:65`, `215`, `330`, `380`): one that accepts a connection and keeps silent
  holds up the start, or the request.
* `cmd/user.go:165`, "secret doesn't exist yet": any failure of kubectl is taken for that,
  and the next add writes a Secret with one user (`LatestPasswordOnly` excepts the
  others). A delete interrupted after the Secret was written cannot be repeated
  (`user.go:257`), and its ClusterRoleBinding stays. No delete removes a user from
  `ocp-sim-admin`, which `scripts/setup-admin-rbac.py:33` makes (`user.go:124`); and in
  byoidc mode it leaves the server's own store alone, with which `oc login` works
  all the same (`oauth/mod.rs:62`, `92`).
* `imagestream.rs:36`: a tag without an image is left out of the status, so the numbers
  of tags never agree and the controller patches for ever; `EventuallyImported` is
  stated for specs without such a tag.
* `oauth/mod.rs:135`: the set-up "will retry on next restart". If only the restart of the
  DNS pods was missing, the next start returns early (`infra.rs:287`). The same check
  leaves a Corefile alone that has the entry with another mode's host or an old
  address; `CompleteStart` claims that an entry is there and no more.
* `oauth/handlers.rs:210` accepts a code that is exactly as old as its TTL, and
  `oauth/mod.rs:160` evicts it: which of the two it meets is a matter of chance.
* `service_ca.rs:261`: a patch of a list of webhooks that was shortened since is refused as
  a whole. While an operator goes on alternating between a longer and a shorter
  list, no webhook need ever carry the CA; `FirstWebhookTrusted` assumes that it stops.

## 7. Not modelled, and why

* The bytes of requests and answers in the proxy and the headers it adds; which port
  of a Service a backend's port name means.
* Text of YAML, HTML and JSON, the fields of Deployments and Services, DER parsing:
  data no property tells apart. In `Gateway` the listener and the bootstrap file are
  constants.
* Cryptography: a signature is the number of its CA, a hash a relation.
* Argument parsing of ocp-sim, the CLI other than `user`, and the scripts: sequential programs around kind, docker,
  helm and kubectl.
* User names with `:` or `#`, and names and passwords with white space around them: a line
  of the htpasswd file does not carry them unchanged.
* JobSets whose child names clash, edits of `replicatedJobs`, Gateways in other
  namespaces, webhooks behind the first: left out, as the modules say.
* The API server, kube-rs, tokio and the garbage collector are modelled from how
  ocp-sim uses them and are marked external in the map.
