------------------------------ MODULE NlpAssets ------------------------------
(***************************************************************************)
(* The indexer's English tokenizer data.  vendor_nlp.py generates the      *)
(* sources of the nlp package from pinned inputs and provisions the data   *)
(* files from pinned archives; verify_nlp.py checks the package against an *)
(* anchor that only a reviewer moves; and the indexer, when it tokenizes   *)
(* for the first time, checks the data files for itself.                   *)
(*                                                                         *)
(* The pins have a version, which is the version of the tool, and the      *)
(* content of a file is its name with the version it is of: 0 is that of a *)
(* damaged or outdated file, and a file that was only created is empty.    *)
(* A maintainer touches files between the runs of the tool, and a run may  *)
(* be interrupted; nobody else writes to the package during a run.         *)
(***************************************************************************)
EXTENDS Integers, Sequences, SequencesExt, FiniteSetsExt, TLC

CONSTANTS
    Asset,              \* the data files, each in an archive of its own
    MaxTouches, MaxRuns, MaxVersion     \* bounds

VARIABLES
    tree, cache, tool, anchor,          \* the package, the cache, the pins, the verifier's anchor
    mode, phase, todo, found, exit,     \* the run of the tool
    table, walked, loaded,              \* the indexer
    touches, runs

run == <<mode, phase, todo, found, exit>>
indexer == <<table, walked, loaded>>
vars == <<tree, cache, tool, anchor, run, indexer, touches, runs>>

-----------------------------------------------------------------------------
(* Files. *)

Table == "_asset_hashes.py"
Component == "component.json"
Generated == <<"_punkt.py", Table, Component>>      \* in the order they are written
Data == "data"                                      \* the directories of the data
Upstream == "punkt.py"                              \* the input of the sources
Extra == "extra"                                    \* something else in the data directory

Content(name, version) == <<name, version>>
Empty == <<>>
File(content) == [type |-> "file", content |-> content]
Link(content) == [type |-> "link", content |-> content]
Directory == [type |-> "directory", content |-> Empty]

With(files, name, file) == (name :> file) @@ files
Without(files, name) == [n \in DOMAIN files \ {name} |-> files[n]]

Sources(version) == [n \in ToSet(Generated) |-> File(Content(n, version))]
Payloads(version) == [a \in Asset |-> File(Content(a, version))]

-----------------------------------------------------------------------------
(* The verifier. *)

\* verify: everything that is there is inventoried, regular and as pinned, with
\* the tool that made it; only data may be missing, and only when asked for
\* sources alone.
Verifies(sourceOnly) ==
    LET pinned == Data :> Directory @@ Sources(anchor) @@ Payloads(anchor)
        sources == ToSet(Generated)
    IN /\ DOMAIN tree \subseteq DOMAIN pinned
       /\ (IF sourceOnly THEN sources ELSE DOMAIN pinned) \subseteq DOMAIN tree
       /\ \A n \in DOMAIN tree : tree[n] = pinned[n]
       /\ tool = anchor

-----------------------------------------------------------------------------
(* The indexer. *)

\* Only the directories and the files of the table, none missing, no link.
Walks ==
    /\ Data \in DOMAIN tree /\ tree[Data].type = "directory"
    /\ Extra \notin DOMAIN tree
    /\ Asset \subseteq DOMAIN tree /\ \A a \in Asset : tree[a].type = "file"

\* Sizes, digests and rows; a link put there since would be followed.
FaultyReads == Asset \subseteq DOMAIN tree
Reads == Asset \subseteq DOMAIN tree /\ \A a \in Asset : tree[a].content = Content(a, table)

\* The package is imported with the table it has then.
Import ==
    /\ table = 0
    /\ Table \in DOMAIN tree /\ tree[Table].content # Empty /\ tree[Table].content[2] > 0
    /\ table' = tree[Table].content[2]
    /\ UNCHANGED <<tree, cache, tool, anchor, run, walked, loaded, touches, runs>>

Walk ==
    /\ table # 0 /\ loaded = <<>> /\ ~walked
    /\ walked' = Walks
    /\ UNCHANGED <<tree, cache, tool, anchor, run, table, loaded, touches, runs>>

\* _bundle, kept once there is one; what failed is tried again.
Load ==
    /\ walked /\ walked' = FALSE
    /\ loaded' = IF Reads THEN [a \in Asset |-> tree[a].content] ELSE loaded
    /\ UNCHANGED <<tree, cache, tool, anchor, run, table, touches, runs>>

RestartIndexer ==
    /\ table # 0
    /\ table' = 0 /\ walked' = FALSE /\ loaded' = <<>>
    /\ UNCHANGED <<tree, cache, tool, anchor, run, touches, runs>>

-----------------------------------------------------------------------------
(* A run of the tool. *)

Idle == phase = "idle"
Fail == phase' = "idle" /\ exit' = 1 /\ todo' = <<>> /\ UNCHANGED <<mode, found>>
Succeed == phase' = "idle" /\ exit' = 0 /\ todo' = <<>> /\ UNCHANGED <<mode, found>>
Go(next, work) == phase' = next /\ todo' = work /\ UNCHANGED <<mode, found, exit>>

Inputs == IF mode' = "provision" THEN SetToSeq(Asset) ELSE <<Upstream>> \o SetToSeq(Asset)

\* The package must be good, but for its data, before anything is fetched.
Start(m) ==
    /\ Idle /\ runs < MaxRuns /\ runs' = runs + 1
    /\ mode' = m
    /\ found' = [a \in Asset \cap DOMAIN tree |-> tree[a]]
    /\ IF m = "provision" /\ ~Verifies(TRUE)
       THEN phase' = "idle" /\ exit' = 1 /\ todo' = <<>>
       ELSE phase' = "acquire" /\ exit' = -1 /\ todo' = Inputs
    /\ UNCHANGED <<tree, cache, tool, anchor, indexer, touches>>

\* An input that is not in the cache is fetched, if that is allowed; what comes
\* must be what is pinned, and goes into a file that did not exist.
Fetch(fetch, content) ==
    /\ phase = "acquire" /\ todo # <<>> /\ Head(todo) \notin DOMAIN cache
    /\ IF fetch /\ content = Content(Head(todo), tool)
       THEN Go("store", todo) /\ cache' = With(cache, Head(todo), File(Empty))
       ELSE Fail /\ UNCHANGED cache
    /\ UNCHANGED <<tree, tool, anchor, indexer, touches, runs>>

Store ==
    /\ phase = "store"
    /\ cache' = With(cache, Head(todo), File(Content(Head(todo), tool)))
    /\ Go("acquire", todo)
    /\ UNCHANGED <<tree, tool, anchor, indexer, touches, runs>>

\* An input in the cache is read, and must be what is pinned.
Read ==
    /\ phase = "acquire" /\ todo # <<>> /\ Head(todo) \in DOMAIN cache
    /\ IF cache[Head(todo)] = File(Content(Head(todo), tool)) THEN Go("acquire", Tail(todo)) ELSE Fail
    /\ UNCHANGED <<tree, cache, tool, anchor, indexer, touches, runs>>

Acquired == phase = "acquire" /\ todo = <<>>

Stale == {a \in Asset \cap DOMAIN tree : tree[a] # Payloads(tool)[a]}

\* provision_data, up to the first file: the package is verified again, and
\* nothing that is there is overwritten.
Provision ==
    /\ Acquired /\ mode = "provision"
    /\ IF ~Verifies(TRUE) \/ Stale # {} \/ (Data \in DOMAIN tree /\ tree[Data].type # "directory")
       THEN Fail /\ UNCHANGED tree
       ELSE /\ tree' = Data :> Directory @@ tree
            /\ Go("create", SetToSeq(Asset \ DOMAIN tree))
    /\ UNCHANGED <<cache, tool, anchor, indexer, touches, runs>>

\* generate, up to the first file.
Generate ==
    /\ Acquired /\ mode = "write"
    /\ Go("create", Generated)
    /\ UNCHANGED <<tree, cache, tool, anchor, indexer, touches, runs>>

\* --check: what would be generated is there.
Check ==
    /\ Acquired /\ mode = "check"
    /\ IF \A k \in DOMAIN Generated :
              Generated[k] \in DOMAIN tree /\ tree[Generated[k]] = Sources(tool)[Generated[k]]
       THEN Succeed ELSE Fail
    /\ UNCHANGED <<tree, cache, tool, anchor, indexer, touches, runs>>

\* A data file is created, and must not be there; a source file is truncated,
\* and must not be a link.
Create ==
    /\ phase = "create" /\ todo # <<>>
    /\ LET name == Head(todo)
           refused == IF mode = "provision" THEN name \in DOMAIN tree
                      ELSE name \in DOMAIN tree /\ tree[name].type = "link"
       IN IF refused THEN Fail /\ UNCHANGED tree
          ELSE Go("fill", todo) /\ tree' = With(tree, name, File(Empty))
    /\ UNCHANGED <<cache, tool, anchor, indexer, touches, runs>>

Fill ==
    /\ phase = "fill"
    /\ tree' = With(tree, Head(todo), File(Content(Head(todo), tool)))
    /\ Go("create", Tail(todo))
    /\ UNCHANGED <<cache, tool, anchor, indexer, touches, runs>>

\* What was provisioned is verified with everything else.
Finish ==
    /\ phase = "create" /\ todo = <<>>
    /\ IF mode = "provision" /\ ~Verifies(FALSE) THEN Fail ELSE Succeed
    /\ UNCHANGED <<tree, cache, tool, anchor, indexer, touches, runs>>

Interrupt ==
    /\ ~Idle
    /\ phase' = "idle" /\ todo' = <<>> /\ exit' = 2
    /\ UNCHANGED <<tree, cache, tool, anchor, mode, found, indexer, touches, runs>>

-----------------------------------------------------------------------------
(* The maintainer, between the runs. *)

\* A file damaged, replaced by a link to its own content, removed or added.
Touch(name) ==
    /\ Idle /\ touches < MaxTouches /\ touches' = touches + 1
    /\ \/ tree' = With(tree, name, File(Content(name, 0))) /\ UNCHANGED cache
       \/ /\ name \in DOMAIN tree
          /\ tree' \in {Without(tree, name), With(tree, name, Link(tree[name].content))}
          /\ UNCHANGED cache
       \/ /\ name \in DOMAIN cache
          /\ cache' \in {Without(cache, name), With(cache, name, File(Content(name, 0)))}
          /\ UNCHANGED tree
    /\ exit' = -1
    /\ UNCHANGED <<tool, anchor, mode, phase, todo, found, indexer, runs>>

\* New pins, which outdate the inputs in the cache.
Upgrade ==
    /\ Idle /\ tool < MaxVersion
    /\ tool' = tool + 1 /\ cache' = <<>> /\ exit' = -1
    /\ UNCHANGED <<tree, anchor, mode, phase, todo, found, indexer, touches, runs>>

\* The reviewer takes over the inventory that was generated.
Review ==
    /\ Idle /\ Component \in DOMAIN tree /\ tree[Component] = File(Content(Component, tool))
    /\ anchor # tool /\ anchor' = tool /\ exit' = -1
    /\ UNCHANGED <<tree, cache, tool, mode, phase, todo, found, indexer, touches, runs>>

Init ==
    /\ tree = Sources(1) /\ cache = <<>> /\ tool = 1 /\ anchor = 1
    /\ mode = "check" /\ phase = "idle" /\ todo = <<>> /\ found = <<>> /\ exit = -1
    /\ table = 0 /\ walked = FALSE /\ loaded = <<>>
    /\ touches = 0 /\ runs = 0

Next ==
    \/ \E m \in {"provision", "write", "check"} : Start(m)
    \/ \E fetch \in BOOLEAN, v \in 0..MaxVersion :
           \E name \in Asset \cup {Upstream} : Fetch(fetch, Content(name, v))
    \/ Store \/ Read \/ Provision \/ Generate \/ Check \/ Create \/ Fill \/ Finish \/ Interrupt
    \/ Import \/ Walk \/ Load \/ RestartIndexer
    \/ \E name \in Asset \cup {Table, Component, Extra} : Touch(name)
    \/ Upgrade \/ Review

Spec == Init /\ [][Next]_vars

-----------------------------------------------------------------------------
(* Properties. *)

\* What the indexer tokenizes with is the data of one version, that of the
\* table it was imported with, whatever happened to the files while it read.
BundleIsWhole == loaded # <<>> => \A a \in Asset : loaded[a] = Content(a, table)

\* A package that the verifier passes loads: the verifier and the indexer, which
\* share no code, agree; and nothing in it is left of an interrupted run or of
\* another version.
VerifiedLoads ==
    Verifies(FALSE) =>
        /\ Walks
        /\ \A n \in DOMAIN tree \ {Data} : tree[n] = File(Content(n, tool))

\* Provisioning leaves every data file as it found it, be it good or not, and
\* reports success only over a package that loads.
FoundIsKept ==
    mode = "provision" /\ (~Idle \/ exit \in {0, 1, 2}) =>
        \A a \in DOMAIN found : a \in DOMAIN tree /\ tree[a] = found[a]
ProvisionedLoads ==
    mode = "provision" /\ exit = 0 =>
        Walks /\ \A a \in Asset : tree[a].content = Content(a, tree[Table].content[2])

AssetsHold == BundleIsWhole /\ VerifiedLoads /\ FoundIsKept /\ ProvisionedLoads
=============================================================================
