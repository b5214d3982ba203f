# A verification of libgovirt

libgovirt is a GObject client library for the REST API of oVirt and RHEV. A client makes an `OvirtProxy`,
fetches the `OvirtApi` and collections of resources (VMs, hosts, clusters, data centers, storage domains,
VM pools, CD-ROMs), starts and stops VMs, asks for tickets, and connects to the display a VM tells it of.
This directory has TLA+ models of the library (`govirt/*.c`), TLC runs over small instances of them, and
TLAPS proofs of theorems that hold for instances of every size. `PROJECT.json` maps each definition to the
lines it stands for; line numbers in comments are those of files under `govirt/`.

## 1. The system

| part | state | operations | what is hard about it |
|---|---|---|---|
| CA certificates (`ovirt-proxy.c`) | `ssl-ca-file` (in librest), `tmp_ca_file`, `setting_ca_file`, `display_ca`, the temporary file, `ca-cert` of every display | set `ca-cert`, set `ssl-ca-file`, fetch the CA, refresh VMs, replace the api, finalize | notifications are queued, merged and nested; a boolean tells the proxy's own changes from the client's; the CA and the VMs arrive in any order; a write can fail |
| asynchronous calls (`ovirt-proxy.c`, `ovirt-collection.c`, `ovirt-resource.c`) | the data of each call, its `GTask`, reference counts | start, dispatch of a reply, `_finish`, cancel | replies in any order, cancellation at any moment, objects the client has dropped, synchronous calls in between |
| results and errors (`ovirt-resource.c`, `ovirt-collection.c`, `ovirt-vm.c`, `ovirt-cdrom.c`) | the local objects, the boolean and the `GError` | fetch, refresh, update, delete, action, ticket, each in two forms | many ways to fail, each reported by another layer; results written before they are checked |
| headers and cookies (`ovirt-proxy.c`, `ovirt-rest-call.c`) | `additional_headers`, `sso_token`, `jsessionid`, the cookie jar | add a header, set token, session, admin; make a call | headers are copied when a call is constructed, cookies when its request starts |
| resource tree (`ovirt-resource.c`, `ovirt-vm.c`, `ovirt-host.c`, `ovirt-cluster.c`, `ovirt-storage-domain.c`, `ovirt-api.c`) | id and href of the owner, links, sub-collections | refresh, get the owner, get a sub-collection, search | what is derived or made once outlives what it was derived from |
| tables of the collections (`ovirt-collection.c`) | `resources`: a counted table of counted resources, by name | read a document into a new table, replace the table, look up, get and set `resources` | nodes without a name or an identifier, two of one name; tables and resources that a client keeps while they are replaced |
| CD-ROMs (`ovirt-cdrom.c`, `ovirt-resource-rest-call.c`) | `file` | set the file, send it (update), read it back (refresh) | the file and the drive change while calls are under way; the engine has two views of a drive, and a parameter in the address chooses one |
| values from XML (`ovirt-utils.c` and the classes) | properties of the resources | parse and store numbers, enumerations, lists | widths of integers, `errno`, values that are left as they were |
| deprecated listing of VMs (`ovirt-proxy-deprecated.c`) | the api of the proxy | `ovirt_proxy_fetch_vms` and `_async` | two requests in a chain, an api that is replaced between them |
| bodies of actions, options, enumerations, errors | - | formatting, copying, declarations | not modelled, see section 7 |

The client calls all of them in one thread. Calls reach the engine through librest; replies come back in
dispatches of the main loop, are parsed by the code of the resource or collection the call was made on, and
may notify properties (`resources`, `display`, `ssl-ca-file`, `ca-cert`) whose handlers belong to the proxy
and to the client.

Properties that make each part correct:

* CA: no file of the client is touched, no temporary file outlives its use, `ca-cert` reads back what was
  asked for, every display gets a CA whichever order things arrive in.
* Calls: an object is alive while a call on it is pending and not kept afterwards; what the client is told
  is fresh and agrees with what was stored; every call ends.
* Requests: a call carries what was last asked for, and the session id of now and no other.
* Tree: what is handed out is one resource of the engine, searches reach the search.
* Tables: a collection lists the first resource of each name of a document, all at once; nothing is freed or
  changed under a client that keeps it, and nothing is left behind.
* CD-ROMs: after a call that ended well the file is the image in the drive, until one of them changes.
* Values: what is stored is exactly what the last document said, or what was there before, never a part.

## 2. Modules

| module | models | state and actions |
|---|---|---|
| `CaCertificate` | CA certificates | `files` is the file system, `tmpCaFile`, `settingCaFile`, `displayCa` the fields of that name; `g_object_set` is `Freeze`, `SetCaCert` or `SetSslCaFile`, `Thaw`; an emission is a frame (`depth`, `emitting`) in which `NotifySslCaFile` (the proxy's handler) and `NotifyCaCert` run, handlers of the client may call in (`ClientRuns`), and which `Notified` returns from |
| `CallResults` | results and errors | one call after the other; a reply is a transport result and the root of a body; `Report` keeps what the client got and what is stored, with the age of each datum |
| `AsyncCall` | asynchronous calls | `call` is the `OvirtProxyCallAsyncData` and `GTask` of each, `refs` the reference counts, `Start`, `Serve`/`Fail` (the engine, libsoup), `Dispatch` (`call_async_cb`), `Finish`, `Return`, with `Cancel`, `FetchSync`, `Ref`, `Unref` of the client in between |
| `CallPromise` | - | abstract specification: what a call promises its client. `AsyncCall` implements it (`KeepsPromise`) |
| `Requests` | headers and cookies | `headers`, `jar`, `cookie` as in the proxy; `Make` constructs a call, `StartRequest` is libsoup starting it |
| `ResourceTree` | resource tree | one resource of each class that has an owner, or the api, and the XML the engine has for it now; `Refresh`, `ReadOwnerHref`, `GetOwner`, `GetSubCollection`, `Search`; an XML without the identifiers, or that of a VM without a display, ends a refresh half-way (`OwnersRead`, `LinksRead`) |
| `CollectionTable` | tables of the collections | `heap` has the counts and contents of tables and resources; `Arrive`, one of `SkipNode`, `DropNode`, `InsertNode` for each node, and `Publish` are `ovirt_collection_refresh_from_xml`; `SetProperty`, `GetProperty`, `Lookup`, `Unref`, `DropTable` are the client |
| `Listing` | - | abstract specification: what a collection lists, without tables, objects and counts. `CollectionTable` implements it (`KeepsListing`) |
| `Cdrom` | CD-ROMs | several `OvirtCdrom` of one drive, calls in flight; `UpdateAsync`, `RefreshAsync`, `UpdateSync`, `RefreshSync`, `SetFile`, the engine's `ServeUpdate`, `ServeRefresh`, `EngineChanges`, and the callbacks |
| `XmlValues` | values from XML | a pool, a storage domain, a VM, refreshed with any document; `errno` |
| `FetchVms` | deprecated listing | each call goes from the api to its VMs; `ApiArrives`, `VmsArrive`, and the client's own fetches, which replace the api (`FetchVmsSync`, `FetchApi`) or the table of its VMs (`FetchCollection`); `table` is that of the proxy's api, `got` what the reply of a call lists, `GetVms` the list made of the table: NULL for one that was not fetched as for one without VMs |

`MC*` modules give the constants of a module their values; `*Proofs` modules have the theorems.
A definition named after another and preceded by a comment `fault:` is a plausible bug of that definition.
It is not part of any specification: with it in the place of the original, TLC must find the property that is
meant to catch it violated.

## 3. Runs

| run | instance | shows |
|---|---|---|
| `ca_certificate` | 2 certificates, 1 from XML, 2 files of the client, 3 names of temporary files, 2 VMs, 1 load in flight, no handler that calls back | the temporary file, the boolean and the displays, in every order of calls |
| `call_results` | every reply, every call, both forms | results and errors agree with what is stored |
| `async_call` | 2 calls on 1 object, 3 versions of the engine | lifetimes, freshness, refinement of `CallPromise`, every call ends |
| `fetch_vms` | 3 calls, 2 lists of VMs and the empty one, apis with and without a link to VMs | a client is told what its own reply lists, unless the api was replaced under the call; every caller is told, unless the api has no link |
| `resource_tree` | 2 owners, every class, every sequence of documents | id and href agree, searches reach the search link |
| `xml_values` | ports up to 1, guint up to 2, 64 bits up to 4, and one number beyond | what is stored is what was said |
| `requests` | 1 token, 2 sessions, 2 servers, 3 headers the client sets | what a call carries |
| `collection_table` | documents of up to 2 nodes, 2 names, 3 tables, 4 resources, ordinary collections and those of CD-ROMs | counts are exact; the table implements `Listing` |
| `cdrom` | 2 images of which one has a name that breaks XML, 2 CD-ROMs, 2 calls in flight | the file agrees with the drive after a call that ended well |
| `fetch_error` | as `call_results` | *violated*: a fetch that fails leaves the error unset |
| `search_hosts` | the api, searched through the link of the collection as well | *violated*: the query of a search of hosts does not reach the search link |
| `xml_data_centers` | a storage domain of 2 data centers | *violated*: one is listed |

### The bounds

* Certificates, sessions, owners, data centers: two, so that an old one can be told from a new one. A third
  would only be another old one.
* Names of temporary files: three, since a file that failed to be written stays; the same holds of the
  versions of the engine, of which two fetches can see two and an object a third.
* Calls: two on one object is where replies overtake; three of the deprecated ones, so that the api is
  replaced twice under one. Two lists of VMs, so that the one of an earlier reply differs from the one of the
  call's own, beside a reply without VMs.
* Integers: the limits of the types are constants. The run makes them small, with numbers on each side of
  each limit (`PoolTexts` for pools); the proofs leave them open.
* `MaxDepth` bounds the emissions inside one another. 1 says that handlers do not call back; the theorems
  that do not need that hold at every depth. `CaCertReadBack` and `NamedFileKept` do need it.
* Tables: one being filled, one of the collection, one a client kept; resources: two of a document being read
  beside two that are kept. With two nodes a name is missing, taken, or given by the class, and a node has no
  identifiers, before or after a good one.
* CD-ROMs and calls: two of each, so that an update of one drive overtakes another one or a refresh. The
  engine leaves out the `<file>` of an empty drive or does not, one or the other in a behaviour.
* `CHECK_DEADLOCK FALSE` where the system may stop: the proxy is finalized, or the client has dropped all.

### Fairness

Two specifications have fairness, for `EveryCallEnds` and `ToldUnlessUnlinked`.

* `WF(Serve \/ Fail)`, `WF(ApiArrives \/ ApiFails)`, `WF(VmsArrive \/ VmsFail)`: the session of libsoup ends
  every request, with a reply, an error, a timeout or the cancellation. Which one is left open.
* `SF(Dispatch)`: a reply that is ready is dispatched, although a callback that runs for another call disables
  the dispatch again and again: one iteration of the main loop dispatches all ready sources of a priority.
* `WF(Return)`: callbacks of the client return.

Nothing is assumed of the client: it need not call `_finish`, cancel or drop anything.

## 4. Proofs

Everything is proved for any values of the constants (that satisfy the named assumptions of the module).
Each proof module begins with type correctness (`Typing`), one lemma for each group of actions.

* `CaCertificateProofs`. `NoOrphan` and `UserFilesIntact` follow from what each action does to `files`:
  every write draws a fresh name and unlinks the remembered file in the same step. `FlagDrained` is not
  inductive: the flag may be up as long as a notification of `ssl-ca-file` is due. `FlagWaits` says this: if
  the flag is up then `ssl-ca-file` is queued or is in one of the frames. It is proved at any depth.
  `CaCertReadBack` and `NamedFileKept` need the converse, that a notification due for the proxy's own file
  finds the flag up, which holds without re-entrance only: these two theorems assume `MaxDepth = 1`.
  `DisplaysHaveCa` needs that a display without a CA has been refreshed since, unless a fetch is still to
  fill it.
* `AsyncCallProofs`. Two invariants. `InFlight` relates each call to the engine: a reply is of a version
  between the start of the call and now, and a call that is to succeed has been applied. `FreshWhenTold`,
  `BackOnlyWhenOverlapped` and the refinement of `CallPromise` (`KeepsPromiseSafe`, initial states and one
  step for each action) follow from it. Reference counts are exact: the count of an object is the number of
  its owners, the client and the references of pending calls, a finite set (`CountExact`). `AliveWhilePending`
  is one direction of that, `NothingLeaked` the other.
* `ReportProofs` is about `CallResults`, then about `FetchVms` (names of `FetchVms` begin with `Vms` where
  both modules have one). A report is a function of the call, the reply and what was stored, so the properties
  are proved of what each finisher returns: what the parser of the ticket leaves is told apart by one lemma
  (`ActionTold`: without an error the action is complete, and the ticket and its expiry are there if the body
  has a display), a fault is never the body of an action, hence both forms of an action agree. The inductive
  invariant is the six properties and `Fresh`: before a call is made the table is not of that call, without which
  `FetchContract` could take an old table for the one of the fetch. For `FetchVms`: a call that fetches the VMs
  of the proxy's own api (`mine`) does so of an api that links to them, so that the table is the one of its
  reply when it is told; `ToldItsReply` follows. Calls that were told keep what they were told when the api is
  replaced later.
* `RequestsProofs`. `SessionInv`: the jar has the cookie of the session id and of the url of back then, and
  the remembered cookie is that one. `SessionSentSafe` assumes servers named with https and without a port;
  `StaysHomeSafe`, that a session id reaches no other server, assumes nothing of them.
  `HeadersAsAsked` relates the headers to the last requests for each name; `CarriesAsked` follows.
* `ResourceTreeProofs`. `HandedCoherentSafe` assumes an engine that never gives an id without its href,
  `SearchReachesSafe` a search through a search link (which is never `plain` then).
* `CollectionTableProofs`. The counts are exact at each step of the loop as well. `HeapInv` says so of the
  resources, and with it that a resource is in one row of one table (`ListedOnce`), that a live one has a guid
  and a free table is empty: without those the table a client keeps could be changed through another one.
  `TablesCounted` says so of the tables. `BuiltSoFar` relates the table being filled to the nodes read so far;
  at the last node it is the listing of the document, which the refinement of `Listing` (`KeepsListingSafe`)
  publishes. Every other step changes no row that the collection or the client has. Two consequences are stated
  beside what the run checks: a document has one listing (`OneListing`), hence `FetchDeterminedSafe`, that a
  fetch leaves what its document says and nothing of before; and `KeptStaysSafe`, that what a client has a
  reference to is not freed or changed.
* `CdromProofs`. `SettledAgrees` alone says nothing of the calls. `Answers` does: as long as neither the file
  nor the drive changed, the answer that is waiting, of an update or a refresh, tells what is in the drive and
  for an update what the file is (`Tells`).
  That a call is always about the drive of now, which `Tells` says as well, gives `StoredKeptSafe`: no call
  changes what is stored, the update that is to do so included.
* `XmlValuesProofs`. `GuintTaken` says when `ovirt_utils_guint_from_string` takes a number, and
  `PoolRefreshed` carries it through the three counts of a refresh. `GoodCountsTakenSafe` assumes that
  nothing leaves `EINVAL` in errno. `OneIdListedSafe` is what remains of `AllIdsListed`, which a run refutes:
  one data center of the last XML is listed, and none of an earlier one.

Only model-checked: the two liveness properties, `EveryCallEnds` and `ToldUnlessUnlinked`. Liveness under
fairness is out of the prover's reach. Every invariant and action property of a passing run is a theorem.

## 5. Where the code and what is said of it part

Three runs end in a counterexample, each described under `findings` in `PROJECT.json`:

* `ovirt_collection_fetch` and `ovirt_proxy_fetch_api_finish` fail without setting the error
  (`ovirt-collection.c:397`, `ovirt-proxy.c:1201`).
* `ovirt_api_search_hosts` searches through the link `hosts` (`ovirt-api.c:287`).
* One data center of a storage domain is listed (`ovirt-utils.c:116`).

More that is visible in the models, and that no run states:

* A handler of `notify::ca-cert` that sets `ca-cert` again takes the boolean of the outer notification, and
  the new temporary file is unlinked (`ovirt-proxy.c:438-446`, `919-929`): with `MaxDepth = 2`
  `ca_certificate` shows it.
* `parse_ticket_status` looks for the value of the ticket in the display, where an earlier ticket may be
  (`ovirt-vm.c:409-415`): a response without a value then succeeds.
* `ovirt_cdrom_update` is about the drive of now whatever its argument `current` says, since the class adds
  that parameter to each request (`ovirt-cdrom.c:255`); a listing of CD-ROMs, whose address has no parameters,
  is about the stored one.
* A refresh of a CD-ROM whose XML has no `<file>` keeps the name of the image that was ejected, and the next
  update puts it back (`ovirt-cdrom.c:115`); names of images go into the XML unescaped (`ovirt-cdrom.c:146`).
* A resource that a refresh renames is found under its old name (`ovirt-collection.c:497`), and each
  asynchronous update that is answered logs a warning (`ovirt-resource.c:550`).
* `ovirt_resource_delete` takes an answer without a body for a failure (`ovirt-resource.c:976`);
  `ovirt_resource_action` returns TRUE with an error set (`ovirt-resource.c:667`).
* A deprecated listing whose api is replaced between its two requests is told of the VMs of the new api, or
  NULL, as for an engine without VMs (`ovirt-proxy-deprecated.c:138`); a client cannot tell the three apart.
* An api without a link to VMs ends the deprecated chain without calling back
  (`ovirt-proxy-deprecated.c:74`); that is the exception in `ToldUnlessUnlinked`.
* Once the engine gives the id of an owner alone, a derived href goes stale (`ovirt-vm.c:79`), and the one of
  a cluster's data center has another path than that of a storage domain's (`ovirt-cluster.c:47`,
  `ovirt-storage-domain.c:75`); an owner that the XML no longer names stays (`ovirt-vm.c:219`).
* A 0 is refused when another call has left `EINVAL` in errno (`ovirt-utils.c:314`); a VM without a status is
  DOWN, not the default UNKNOWN (`ovirt-vm.c:243`); a port of 2^32 and more wraps (`ovirt-utils.c:156`).
* With an http URI, or one with a port, the session cookie is never sent (`ovirt-proxy.c:724`); an
  asynchronous refresh replaces the client's `All-Content` (`ovirt-resource.c:896`); unsetting `sso-token`
  sends `Bearer (null)` (`ovirt-proxy.c:754`).
* Setting `ca-cert` to NULL leaves `ssl-ca-file` as it was (`ovirt-proxy.c:437`); displays filled by one fetch
  keep that CA at the next (`ovirt-proxy.c:537`).

## 6. What the models abstract from

* One resource or collection stands for all of its kind; texts are values, hrefs a path and an id.
* A reply is applied as a whole: the parser of librest is not modelled, only which nodes are found.
* `AsyncCall` has fetches and deletions; refreshes, updates and actions take the references of a fetch.
* GObject, GTask, libsoup and librest are modelled as the code uses them (`external` in the map).
* The client holds no reference to a cancellable or cookie, and sets `ssl-ca-file` to files of its own.
* `CollectionTable` has one collection. The loop over a document runs in one dispatch, so that the client does
  nothing between two nodes. `Publish` is the end of it with the handlers of `notify::resources` after it:
  what they see is the state after `Publish`, in which the loop has yet to give back its own reference.
* The engine of `Cdrom` refuses a body that is not XML, and carries out an update before it answers.

## 7. Not modelled

The body of an action (`ovirt-action-rest-call.c`: one constant parameter), the links of actions, command
line options (`ovirt-options.c`: globals copied once, the effect of which is `SetSslCaFile`), enumerations and
errors (generated or declarations), cookies the engine sets, cancellables, the lifetime of a collection beyond
that of its proxy, strings, booleans and disks among the values (types of those modelled, stored as they are),
tests, examples, translations and build files.

Seen while reading, in parts that are not modelled: an action the XML of a resource does not list fails without
an error, and its asynchronous form never calls back (`ovirt-resource.c:623`, `818`); `ovirt_proxy_new` cuts
"api" off any address that ends in it, a host name as well (`ovirt-proxy.c:978`); updating a resource whose
class has no XML of its own measures a NULL body (`ovirt-resource-rest-call.c:132`).

## 8. Plan

Done, in this order: `CaCertificate`, `CallResults`, `AsyncCall` with `CallPromise`, `FetchVms`,
`ResourceTree`, `Requests`, `XmlValues`, `CollectionTable` with `Listing`, `Cdrom`, and the theorems above.

Next:

1. Lifetimes in `CaCertificate` and `FetchVms`: a collection or a cancellable that outlives the proxy.
2. The notification queue of `CaCertificate` shown to implement an abstract "the CA asked for last".
3. The cookies that the engine sets, beside the session cookie of the proxy.
