--------------------------- MODULE PackageStorage ---------------------------
(***************************************************************************)
(* package-artifacts.ts over the storage providers: devices and the release *)
(* tool ask the web application for signed requests on objects of one shared *)
(* bucket, and anyone may list the packages.  Of the providers only the one    *)
(* that makes its own bucket (MINIO) has a state: each process checks the       *)
(* bucket once and keeps the promise of that check for all its requests.         *)
(***************************************************************************)
EXTENDS Naturals, Sequences, FiniteSets, SequencesExt

CONSTANTS PsServers,      \* processes of the web application
          Slots,          \* requests they serve at a time: pairs of a process and a number
          PsProviders,    \* values of STORAGE_PROVIDER
          PsDevices,      \* ids of device rows
          ActiveDevices,  \* of them, the active ones
          ReleaseToken,   \* TRAKRAI_PACKAGE_RELEASE_TOKEN is set
          DevicePaths,    \* paths a device asks for, as the segments between slashes
          PackagePaths,   \* paths the release tool and the devices ask for
          ServiceNames,   \* what a listing is narrowed to, <<>> for all
          EarlierObjects, \* sets of keys the bucket may hold at the start
          Semver,         \* of a segment that is a version: its three numbers
          Alphabet,       \* the names that localeCompare orders, in that order
          ListLimit,      \* DEFAULT_LIST_LIMIT
          MaxPsRequests,  \* bound: requests of a behaviour
          MaxPsFaults,    \* bound: calls of the storage that fail
          NoAsk, NoListing

ASSUME PsAssumption ==
    /\ \A c \in Slots : c[1] \in PsServers
    /\ MaxPsFaults \in Nat /\ MaxPsRequests \in Nat

VARIABLES provider,       \* STORAGE_PROVIDER
          bucket,         \* the bucket exists
          objects,        \* keys of the objects in it
          check,          \* of each process: ensureBucketExistsPromise
          asks,           \* of each caller: its request, how far it is, the faults when it began
          signed,         \* signed requests that were handed out
          listing,        \* the last answer of listAvailable, with the objects of its moment
          asked, psFaults

psVars == <<provider, bucket, objects, check, asks, signed, listing, asked, psFaults>>

Idle == [ask |-> NoAsk, step |-> "idle", begun |-> 0]

\* Only MINIO is configured with ensureBucketExists; the other buckets are there.
ensureBucketExistsEnabled == provider = "MINIO"

PsInit ==
    /\ provider \in PsProviders
    /\ bucket \in IF provider = "MINIO" THEN BOOLEAN ELSE {TRUE}
    /\ objects \in IF bucket THEN EarlierObjects ELSE {{}}
    /\ signed = {} /\ listing = NoListing /\ asked = 0 /\ psFaults = 0
    /\ check = [p \in PsServers |-> "null"]
    /\ asks = [c \in Slots |-> Idle]

-----------------------------------------------------------------------------
(* Keys. *)

BadPath == <<"bad">>

\* Mutant: segments are taken as they come.
TakesSegments(value) == value

\* The slashes at the ends go; what is left has no empty segment and no dots.
normalizeSegments(value) ==
    LET named == {i \in DOMAIN value : value[i] # ""}
        inner == IF named = {} THEN <<>>
                 ELSE SubSeq(value, CHOOSE i \in named : \A j \in named : i <= j,
                                    CHOOSE i \in named : \A j \in named : j <= i)
    IN IF inner = <<>> \/ \E i \in DOMAIN inner : inner[i] \in {"", ".", ".."} THEN BadPath ELSE inner

\* path.posix.join resolves dots, beyond the prefix if there are more of them than names.
joinKey(prefix, segments) ==
    LET Walk(key, name) == CASE name \in {"", "."} -> key
                             [] name = ".." -> IF key = <<>> THEN key ELSE Front(key)
                             [] OTHER -> Append(key, name)
    IN FoldLeft(Walk, prefix, segments)

Prefix(r) == IF r.op \in {"deviceUpload", "deviceDownload"} THEN <<"devices", r.device>>
             ELSE <<"device-packages">>
KeyOf(r) == joinKey(Prefix(r), normalizeSegments(r.path))

-----------------------------------------------------------------------------
(* Who may ask. *)

\* A bearer token counts before a session: it must be the token of the device asked about.
deviceProcedure(header, device) == header \in {"session", device} /\ device \in ActiveDevices

\* An unset token lets everyone release.
ensureAuthorized(header) == ReleaseToken => header = "release"

-----------------------------------------------------------------------------
(* The bucket. *)

\* A request waits on the promise under way, or starts the check; a settled one lets it through.
ensureBucketExists(c, r) ==
    LET p == c[1]
        step == CASE ensureBucketExistsEnabled /\ check[p] = "rejected" -> "failed"
                  [] ensureBucketExistsEnabled /\ check[p] # "done" -> "waiting"
                  [] OTHER -> "call"
    IN /\ asks' = [asks EXCEPT ![c] = [ask |-> r, step |-> step, begun |-> psFaults]]
       /\ check' = IF ensureBucketExistsEnabled /\ check[p] = "null"
                   THEN [check EXCEPT ![p] = "head"] ELSE check

Told(p, how) == asks' = [c \in Slots |->
    IF c[1] = p /\ asks[c].step = "waiting" THEN [asks[c] EXCEPT !.step = how] ELSE asks[c]]

Settled(p) == check' = [check EXCEPT ![p] = "done"] /\ Told(p, "call")

\* Mutant: the rejected promise stays.
KeepsRejected(p) == check' = [check EXCEPT ![p] = "rejected"] /\ Told(p, "failed")

\* The catch of everyone who awaited it clears the promise; all of them run before the next request.
Rejected(p) == check' = [check EXCEPT ![p] = "null"] /\ Told(p, "failed")

\* HeadBucket: a bucket that is missing, and one that may not be seen, is created.
HeadBucket(p) ==
    /\ check[p] = "head"
    /\ \/ bucket /\ Settled(p) /\ UNCHANGED psFaults
       \/ ~bucket /\ check' = [check EXCEPT ![p] = "create"] /\ UNCHANGED <<asks, psFaults>>
       \/ /\ psFaults < MaxPsFaults /\ psFaults' = psFaults + 1
          /\ \/ Rejected(p)
             \/ check' = [check EXCEPT ![p] = "create"] /\ UNCHANGED asks
    /\ UNCHANGED <<provider, bucket, objects, signed, listing, asked>>

\* CreateBucket: another process may have been first, which is as good.
CreateBucket(p) ==
    /\ check[p] = "create"
    /\ \/ bucket' = TRUE /\ Settled(p) /\ UNCHANGED psFaults
       \/ /\ psFaults < MaxPsFaults /\ psFaults' = psFaults + 1
          /\ Rejected(p) /\ UNCHANGED bucket
    /\ UNCHANGED <<provider, objects, signed, listing, asked>>

-----------------------------------------------------------------------------
(* Requests.  One that is refused leaves nothing behind. *)

Ask(op, device, path) == [op |-> op, device |-> device, path |-> path]

Free(c) == asks[c].step \in {"idle", "failed"} /\ asked < MaxPsRequests

\* A procedure after its checks, up to its first await on the storage.
Begins(c, r) ==
    /\ Free(c)
    /\ asked' = asked + 1
    /\ ensureBucketExists(c, r)
    /\ UNCHANGED <<provider, bucket, objects, signed, listing, psFaults>>

createDeviceSession(c, header, op, device, path) ==
    /\ deviceProcedure(header, device)
    /\ normalizeSegments(path) # BadPath
    /\ Begins(c, Ask(op, device, path))

createPackageDownloadSession(c, header, device, path) ==
    /\ deviceProcedure(header, device)
    /\ normalizeSegments(path) # BadPath
    /\ Begins(c, Ask("packageDownload", "none", path))

createPackageUploadSession(c, header, path) ==
    /\ ensureAuthorized(header)
    /\ normalizeSegments(path) # BadPath
    /\ Begins(c, Ask("packageUpload", "none", path))

listPackages(c, serviceName) ==
    /\ serviceName = <<>> \/ normalizeSegments(serviceName) # BadPath
    /\ Begins(c, Ask("list", "none", serviceName))

\* resolveClient: the endpoint that is part of the signature; S3 and Azure have one for all.
resolveClient(r) ==
    CASE provider # "MINIO" -> "cloud"
      [] r.op = "packageUpload" -> "public"
      [] OTHER -> "device"

\* The signature is made without the storage.
Signs(c, method) ==
    LET r == asks[c].ask IN
    /\ asks[c].step = "call"
    /\ signed' = signed \cup {[method |-> method, key |-> KeyOf(r), endpoint |-> resolveClient(r), ask |-> r]}
    /\ asks' = [asks EXCEPT ![c] = Idle]
    /\ UNCHANGED <<provider, bucket, objects, check, listing, asked, psFaults>>

getSignedUrlForUpload(c) == asks[c].ask # NoAsk /\ asks[c].ask.op \in {"deviceUpload", "packageUpload"} /\ Signs(c, "PUT")
getSignedUrlForDownload(c) == asks[c].ask # NoAsk /\ asks[c].ask.op \in {"deviceDownload", "packageDownload"} /\ Signs(c, "GET")

\* A key is a package if four segments follow the prefix and the second is a version.
\* (No key ends in an empty segment here: a folder marker of that shape would pass this test and
\* fail the schema of the answer, and with it the whole listing.)
parsePackageArtifact(key) == Len(key) = 5 /\ key[1] = "device-packages" /\ key[3] \in DOMAIN Semver

Rank(name) == CHOOSE i \in DOMAIN Alphabet : Alphabet[i] = name   \* localeCompare

\* Mutant: versions are compared as texts.
ComparesTexts(left, right) == Rank(left) > Rank(right)

\* The first number that differs decides, the greater one first.
compareSemverDesc(left, right) ==
    \E n \in 1..3 : /\ Semver[left][n] > Semver[right][n]
                    /\ \A m \in 1..(n - 1) : Semver[left][m] = Semver[right][m]

\* Service, version from the newest, platform, file name.
SortsBefore(a, b) ==
    LET before(x, y, n) == IF n = 3 THEN compareSemverDesc(x[n], y[n]) ELSE Rank(x[n]) < Rank(y[n])
    IN \E n \in 2..5 : before(a, b, n) /\ \A m \in 2..(n - 1) : ~before(a, b, m) /\ ~before(b, a, m)

\* The storage gives the objects under a prefix, no more of them than it is asked for.
listObjects(prefix) ==
    LET under == {key \in objects : IsPrefix(prefix, key)} IN
    {page \in SUBSET under :
        Cardinality(page) = IF Cardinality(under) < ListLimit THEN Cardinality(under) ELSE ListLimit}

listAvailable(c) ==
    LET r == asks[c].ask
        prefix == IF r.path = <<>> THEN Prefix(r) ELSE KeyOf(r)
    IN /\ asks[c].step = "call" /\ r.op = "list"
       /\ \E page \in listObjects(prefix) :
            listing' = [artifacts |-> SetToSortSeq({key \in page : parsePackageArtifact(key)}, SortsBefore),
                        under |-> prefix, of |-> objects]
       /\ asks' = [asks EXCEPT ![c] = Idle]
       /\ UNCHANGED <<provider, bucket, objects, check, signed, asked, psFaults>>

ListFails(c) ==
    /\ asks[c].step = "call" /\ asks[c].ask.op = "list" /\ psFaults < MaxPsFaults
    /\ psFaults' = psFaults + 1
    /\ asks' = [asks EXCEPT ![c].step = "failed"]
    /\ UNCHANGED <<provider, bucket, objects, check, signed, listing, asked>>

-----------------------------------------------------------------------------
(* Signed requests in the hands of those who asked, who use them or let them expire. *)

PutObject(s) ==
    /\ s.method = "PUT" /\ bucket
    /\ objects' = objects \cup {s.key}
    /\ UNCHANGED <<provider, bucket, check, asks, signed, listing, asked, psFaults>>

Headers == {"none", "release", "session"} \cup PsDevices

PsNext ==
    \/ \E p \in PsServers : HeadBucket(p) \/ CreateBucket(p)
    \/ \E c \in {c \in Slots : Free(c)}, h \in Headers :
         \/ \E d \in PsDevices, op \in {"deviceUpload", "deviceDownload"}, path \in DevicePaths :
              createDeviceSession(c, h, op, d, path)
         \/ \E d \in PsDevices, path \in PackagePaths : createPackageDownloadSession(c, h, d, path)
         \/ \E path \in PackagePaths : createPackageUploadSession(c, h, path)
    \/ \E c \in Slots : \/ \E name \in ServiceNames : listPackages(c, name)
                        \/ getSignedUrlForUpload(c) \/ getSignedUrlForDownload(c)
                        \/ listAvailable(c) \/ ListFails(c)
    \/ \E s \in signed : PutObject(s)

PsSpec == PsInit /\ [][PsNext]_psVars

-----------------------------------------------------------------------------

PsTypeOK ==
    /\ check \in [PsServers -> {"null", "head", "create", "done", "rejected"}]
    /\ \A c \in Slots : asks[c].step \in {"idle", "waiting", "call", "failed"}
    /\ \A s \in signed : s.ask.op # "list"

\* What was signed for different owners (two devices, or a device and the packages) are
\* different objects, and an upload and a download of the same path are the same object; a
\* request is only answered over a bucket that exists, is never left waiting on a check that
\* ended, and fails only for a fault of its own time, whatever failed before it (joinKey,
\* normalizeSegments and ensureBucketExists).
SignedForItsOwner ==
    /\ \A s, t \in signed :
         /\ Prefix(s.ask) # Prefix(t.ask) => s.key # t.key
         /\ Prefix(s.ask) = Prefix(t.ask) /\ s.ask.path = t.ask.path => s.key = t.key
         /\ s.key # <<>>
    /\ signed # {} \/ listing # NoListing => bucket
    /\ \A c \in Slots :
         /\ asks[c].step = "waiting" => check[c[1]] \in {"head", "create"}
         /\ asks[c].step = "failed" => psFaults > asks[c].begun

\* A listing shows packages that were there, each once, no older version of a service before a
\* newer one of it, and all of them as long as the storage holds no more than it was asked for
\* (listAvailable).
ListingIsComplete ==
    listing # NoListing =>
        LET there == {key \in listing.of : IsPrefix(listing.under, key)}
            shown == listing.artifacts
            newness(key) == LET v == Semver[key[3]] IN 10000 * v[1] + 100 * v[2] + v[3]
        IN /\ ToSet(shown) \subseteq there /\ Cardinality(ToSet(shown)) = Len(shown)
           /\ Cardinality(there) <= ListLimit =>
                ToSet(shown) = {key \in there : Len(key) = 5 /\ key[3] \in DOMAIN Semver}
           /\ \A i, j \in DOMAIN shown :
                i < j /\ shown[i][2] = shown[j][2] => newness(shown[i]) >= newness(shown[j])
=============================================================================
