------------------------------ MODULE GuardChain ------------------------------
(***************************************************************************)
(* What binds a release: the bundle of the ledger's scripts, read from the *)
(* repository, the guard core over it and over the release's evidence, the *)
(* compatibility manifest over the core, and the stored guard over both;   *)
(* as the digest verifier computes them, with the changes that it makes to *)
(* them and must see refused.                                              *)
(*                                                                         *)
(* Texts and digests are as in WireIdentities; a digest that does not look *)
(* like one is empty.  An operation is a number, and its file is named for *)
(* it, so that the files are in the order of the numbers.  The limit on    *)
(* the size of a record is left out: no record with good fields reaches it *)
(***************************************************************************)
EXTENDS WireIdentities, TLC

CONSTANT Order      \* the operations, in the order of the contract

Reject(condition, class) == First(<< <<condition, class>> >>)

Zero == <<0>>
sha1(raw) == <<21>> \o raw
sha256(raw) == <<22>> \o raw

-----------------------------------------------------------------------------
(* The bundle. *)

Newline == 0
NotUtf8 == -1

TextError(raw) ==
    Reject(raw = <<>> \/ Last(raw) # Newline \/ NotUtf8 \in ToSet(raw), "BUNDLE_SOURCE_BYTES")

\* A file as found, which must be a file and not a link or a directory.
FileError(file) ==
    IF file.type # "file" THEN "BUNDLE_INVENTORY" ELSE TextError(file.raw)

\* _canonical_read_bundle: every file of the directory counts, hidden ones too.
ReadError(repo) ==
    IF repo.directory # "directory" \/ DOMAIN repo.files # ToSet(Order) THEN "BUNDLE_INVENTORY"
    ELSE FirstOf([k \in DOMAIN Order |-> FileError(repo.files[Order[k]])]
                    \o <<FileError(repo.document)>>)

Entries(repo) ==
    [k \in DOMAIN Order |->
        LET raw == repo.files[Order[k]].raw
        IN [index |-> k - 1, operation |-> Order[k], name |-> Order[k], source |-> raw,
            sha1 |-> sha1(raw), sha256 |-> sha256(raw)]]

EntryError(entries, k) ==
    LET e == entries[k]
    IN FirstOf(<<
        Reject(e.index # k - 1 \/ e.operation # Order[k] \/ e.name # Order[k], "BUNDLE_INVENTORY"),
        TextError(e.source),
        Reject(\/ e.sha1 # sha1(e.source) \/ e.sha256 # sha256(e.source)
               \/ \E j \in 1..(k - 1) : entries[j].source = e.source, "BUNDLE_IDENTITY_MISMATCH") >>)

BundleError(document, entries) ==
    IF Len(entries) # Len(Order) THEN "BUNDLE_INVENTORY"
    ELSE FirstOf(<<TextError(document)>> \o [k \in DOMAIN Order |-> EntryError(entries, k)])

bundle_seal(sourceSet, contract) == Frames(<<sourceSet, contract>>)

\* _canonical_bundle_compute, once there is no error.
Bundle(document, entries) ==
    LET sourceSet == u64(Len(Order)) \o FlattenSeq([k \in DOMAIN Order |->
            LET e == entries[k]
            IN Frames(<<Text(e.index), Text(e.operation), Text(e.name), e.source, e.sha1, e.sha256>>)])
        named == Sorted(entries, LAMBDA e : e.name)
        contract == section(<< <<document>> >>)
                    \o section([k \in DOMAIN named |-> <<Text(named[k].name), named[k].source>>])
    IN [entries |-> [k \in DOMAIN Order |->
            <<entries[k].name, Len(entries[k].source), entries[k].sha1, entries[k].sha256>>],
        order |-> [k \in DOMAIN named |-> named[k].name],
        source_set |-> sourceSet, contract |-> contract, seal |-> bundle_seal(sourceSet, contract)]

Flipped(raw) == <<Head(raw) + 1>> \o Tail(raw)

\* run_canonical_lua_bundle_mutation: the changed entries, each with the class
\* that it is refused with.
EntryMutations(s) ==
    LET Put(k, r) == [s EXCEPT ![k] = r @@ @]
        raw == s[1].source
        Class(class, changed) == {class} \X changed
    IN Class("BUNDLE_INVENTORY",
             { Front(s), Append(s, s[1]), [s EXCEPT ![2] = s[1]],
               [s EXCEPT ![1] = s[2], ![2] = s[1]], Put(1, [name |-> -s[1].name]) })
       \cup Class("BUNDLE_SOURCE_BYTES",
             { Put(1, [source |-> <<NotUtf8>> \o Tail(raw)]), Put(1, [source |-> Front(raw)]) })
       \cup Class("BUNDLE_IDENTITY_MISMATCH",
             { [s EXCEPT ![1].source = s[2].source, ![2].source = raw],
               Put(2, [source |-> raw]), Put(1, [source |-> Flipped(raw)]),
               Put(1, [source |-> Flipped(raw), sha1 |-> sha1(Flipped(raw)),
                       sha256 |-> sha256(Flipped(raw))]),
               Put(1, [sha1 |-> <<1>>]), Put(1, [sha256 |-> <<1>>]) })

\* What a changed bundle is refused with, next to the bundle of the repository.
ChangedBundle(document, entries, base) ==
    IF BundleError(document, entries) # "none" THEN BundleError(document, entries)
    ELSE Reject(Bundle(document, entries) # base, "BUNDLE_IDENTITY_MISMATCH")

-----------------------------------------------------------------------------
(* The guard core. *)

NonzeroError(digest) == Reject(digest \in {<<>>, Zero}, "INVALID_GUARD_RELATION")

Cutover == [fresh |-> 1, v1_migration |-> 2, other |-> 3]

\* A run identifier has one character, and a candidate that is none has none.
CutoverFits(g) ==
    \/ g.cutover = "fresh" /\ g.candidate = <<>>
    \/ g.cutover = "v1_migration" /\ Len(g.candidate) = 1

CoreError(mode, contract, g) ==
    LET zeros == {k \in DOMAIN g.evidence : g.evidence[k] = Zero}
        fits == CASE mode = "provisional_fixture" ->
                       zeros # {} /\ g.cutover = "fresh" /\ g.candidate = <<>>
                  [] mode = "production" -> zeros = {} /\ CutoverFits(g)
    IN FirstOf(<< NonzeroError(contract),
                  Reject(Len(g.version) \notin 2..4 \/ Head(g.version) # 7, "INVALID_REDIS_VERSION"),
                  NonzeroError(g.config),
                  Reject(<<>> \in ToSet(g.evidence), "INVALID_DIGEST"),
                  Reject(~fits, "INVALID_GUARD_RELATION") >>)

FaultyCoreFields(contract, g) ==
    <<Text(2), contract, g.version, g.config>> \o [g.evidence EXCEPT ![4] = g.evidence[3]]
        \o <<Text(Cutover[g.cutover]), g.candidate, Text(1)>>

CoreFields(contract, g) ==
    <<Text(2), contract, g.version, g.config>> \o g.evidence
        \o <<Text(Cutover[g.cutover]), g.candidate, Text(1)>>

CoreDigest(contract, g) == sha256(record(CoreFields(contract, g)))

\* run_guard_core_mutation: each change with the class it is refused with.
CoreMutations(mode, contract, g) ==
    { <<contract, [g EXCEPT !.config = Zero], "INVALID_GUARD_RELATION">>,
      <<Zero, g, "INVALID_GUARD_RELATION">>,
      <<contract, [g EXCEPT !.version = <<6, 2>>], "INVALID_REDIS_VERSION">>,
      <<contract, [g EXCEPT !.version = <<8, 0>>], "INVALID_REDIS_VERSION">> }
    \cup { <<contract, changed, "INVALID_GUARD_RELATION">> : changed \in
        IF mode = "production" THEN {[g EXCEPT !.evidence[1] = Zero]}
        ELSE {[g EXCEPT !.evidence = << <<2>>, <<3>>, <<4>>, <<5>> >>],
              [g EXCEPT !.cutover = "v1_migration", !.candidate = <<1>>]} }

-----------------------------------------------------------------------------
(* The manifest and the stored guard. *)

Disabled == <<-1>>

\* Only the last image, the render worker's, may be disabled.
ImageError(images, k) ==
    Reject(\/ images[k] = Disabled /\ k < Len(images)
           \/ images[k] \in {<<>>, Zero}, "INVALID_IMAGE_DIGEST")

CompatibilityError(c, g) ==
    FirstOf(<< NonzeroError(c.config), Reject(c.config # g.config, "GUARD_CONFIG_MISMATCH") >>
        \o [k \in DOMAIN c.images |-> ImageError(c.images, k)])

\* The versions of the protocols, which are the same in every manifest.
Versions == [k \in 1..9 |-> Text(k)]

CompatibilityFields(c, core) == <<Text(1)>> \o Versions \o <<c.config, core>> \o c.images
MarkerFields(fields, manifest) == InsertAt(fields, 2, manifest)

StoredFields(fields, manifest, approved) ==
    InsertAt(InsertAt(fields, 11, Text(approved)), 3, manifest)
Reconstructed(stored) == RemoveAt(RemoveAt(stored, 12), 3)

ChainError(mode, contract, g, c, approved) ==
    IF mode # "production" THEN "FIXTURE_ERROR"
    ELSE IF CoreError(mode, contract, g) # "none" THEN CoreError(mode, contract, g)
    ELSE IF CompatibilityError(c, g) # "none" THEN CompatibilityError(c, g)
    ELSE Reject(approved < 1, "INVALID_UNSIGNED_DECIMAL")

\* guard_chain_result, once there is no error.
Chain(contract, g, c, approved) ==
    LET fields == CoreFields(contract, g)
        core == sha256(record(fields))
        compatibility == CompatibilityFields(c, core)
        manifest == sha256(record(compatibility))
    IN [core |-> core, manifest |-> manifest,
        marker |-> sha256(record(MarkerFields(compatibility, manifest))),
        stored |-> sha256(record(StoredFields(fields, manifest, approved)))]

\* The guard core and the manifest can be told from a stored guard, and neither
\* is computed of the other in a circle.
Acyclic(contract, g, c, approved) ==
    LET fields == CoreFields(contract, g)
        core == sha256(record(fields))
        manifest == sha256(record(CompatibilityFields(c, core)))
        stored == StoredFields(fields, manifest, approved)
    IN /\ Reconstructed(stored) = fields /\ stored[3] = manifest
       /\ CompatibilityFields(c, core)[12] = core

\* run_guard_chain_mutation.
ChainMutations(c) ==
    { <<[c EXCEPT !.config = <<7, 7>>], "GUARD_CONFIG_MISMATCH">>,
      <<[c EXCEPT !.images[1] = Zero], "INVALID_IMAGE_DIGEST">> }
=============================================================================
