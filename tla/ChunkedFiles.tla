---------------------------- MODULE ChunkedFiles ----------------------------
(***************************************************************************)
(* A file over the size limit of a git host is stored as parts beside a    *)
(* manifest.  Its writer replaces part after part, so a reader of the same *)
(* directory may meet parts of two versions, a part that was cut or grew,  *)
(* and a manifest that says anything.  A digest is the bytes it is of.     *)
(***************************************************************************)
EXTENDS Integers, Sequences, FiniteSets, FiniteSetsExt, SequencesExt

CONSTANTS Originals,  \* the versions of the file that may be written
          PartSize,   \* PART_SIZE
          MaxParts,   \* MAX_PARTS
          MaxTotal,   \* MAX_TOTAL_BYTES
          MaxFaults,  \* bound: parts and manifests damaged
          Nothing

VARIABLES
    writer,    \* the version being stored and the parts still to store, or Nothing
    directory, \* [manifest, parts: index -> bytes]
    reader,    \* Nothing, or the manifest, the chunks and the bytes read so far
    faults,
    changed    \* the directory was written since the reader began

chunkVars == <<writer, directory, reader, faults, changed>>
Indexes == 1 .. MaxParts

\* Mutant: a last part that is not full is left out.
FullParts(data) == Len(data) \div PartSize

\* -(-len(data) // part_size)
PartsOf(data) == (Len(data) + PartSize - 1) \div PartSize

\* split: the parts and the manifest, or a refusal.
Describable(data) == Len(data) <= MaxTotal /\ PartsOf(data) <= MaxParts
PartOf(data, i) == SubSeq(data, (i - 1) * PartSize + 1, Min({i * PartSize, Len(data)}))
ManifestOf(data) ==
    [size |-> Len(data), sha |-> data,
     parts |-> [i \in 1 .. PartsOf(data) |-> [size |-> Len(PartOf(data, i)), sha |-> PartOf(data, i)]]]

ChunksInit ==
    /\ writer = Nothing /\ reader = Nothing /\ faults = 0 /\ changed = FALSE
    /\ directory = [manifest |-> Nothing, parts |-> [i \in Indexes |-> Nothing]]

BeginSplit(data) ==
    /\ writer = Nothing /\ Describable(data)
    /\ writer' = [data |-> data, todo |-> 1 .. PartsOf(data)]
    /\ UNCHANGED <<directory, reader, faults, changed>>

StorePart(i) ==
    /\ writer # Nothing /\ i \in writer.todo
    /\ writer' = [writer EXCEPT !.todo = @ \ {i}]
    /\ directory' = [directory EXCEPT !.parts[i] = PartOf(writer.data, i)]
    /\ changed' = TRUE /\ UNCHANGED <<reader, faults>>

StoreManifest ==
    /\ writer # Nothing /\ writer.todo = {} /\ writer' = Nothing
    /\ directory' = [directory EXCEPT !.manifest = ManifestOf(writer.data)]
    /\ changed' = TRUE /\ UNCHANGED <<reader, faults>>

\* Something else cuts, extends or removes a part, or edits the manifest's sizes.
Damage(damaged) ==
    /\ faults < MaxFaults /\ faults' = faults + 1
    /\ directory' = damaged /\ damaged # directory
    /\ changed' = TRUE /\ UNCHANGED <<writer, reader>>

DamagePart(i) ==
    /\ directory.parts[i] # Nothing /\ directory.parts[i] # <<>>
    /\ \E bytes \in {Nothing, Tail(directory.parts[i]), directory.parts[i] \o directory.parts[i]} :
          Damage([directory EXCEPT !.parts[i] = bytes])

DamageManifest ==
    /\ directory.manifest # Nothing
    /\ \/ \E n \in 0 .. MaxTotal + 1 : Damage([directory EXCEPT !.manifest.size = n])
       \/ \E i \in DOMAIN directory.manifest.parts, n \in 0 .. MaxTotal + 1 :
             Damage([directory EXCEPT !.manifest.parts[i].size = n])

------------------------------------------------------------------------------
(* The reader: read_local, or a provider's reads of one commit.            *)

Sizes(manifest) == MapThenSumSet(LAMBDA i : manifest.parts[i].size, DOMAIN manifest.parts)

\* parse_manifest accepts it: before any part is read.
Accepted(manifest) ==
    /\ manifest.size <= MaxTotal /\ Len(manifest.parts) <= MaxParts
    /\ manifest.parts = <<>> => manifest.size = 0
    /\ \A i \in DOMAIN manifest.parts : manifest.parts[i].size > 0
    /\ Sizes(manifest) = manifest.size

Ended(outcome, bytes) == [reader EXCEPT !.pc = outcome, !.whole = bytes]

BeginRead ==
    /\ reader = Nothing /\ directory.manifest # Nothing
    /\ reader' = [pc |-> IF Accepted(directory.manifest) THEN "read" ELSE "refused",
                  manifest |-> directory.manifest, chunks |-> <<>>, bytes |-> 0, whole |-> <<>>]
    /\ changed' = FALSE /\ UNCHANGED <<writer, directory, faults>>

\* read_part returns the first bytes of a part, one more than declared at most.
ReadPart ==
    LET i == Len(reader.chunks) + 1
        part == reader.manifest.parts[i]
        stored == directory.parts[i]
        data == SubSeq(stored, 1, Min({Len(stored), part.size + 1}))
    IN /\ reader # Nothing /\ reader.pc = "read" /\ i <= Len(reader.manifest.parts)
       /\ reader' = IF stored = Nothing THEN Ended("refused", <<>>)
                    ELSE IF Len(data) # part.size \/ data # part.sha
                    THEN [Ended("refused", <<>>) EXCEPT !.bytes = @ + Len(data)]
                    ELSE [reader EXCEPT !.chunks = Append(@, data), !.bytes = @ + Len(data)]
       /\ UNCHANGED <<writer, directory, faults, changed>>

Reassemble ==
    LET whole == FlattenSeq(reader.chunks) IN
    /\ reader # Nothing /\ reader.pc = "read" /\ Len(reader.chunks) = Len(reader.manifest.parts)
    /\ reader' = IF whole = reader.manifest.sha /\ Len(whole) = reader.manifest.size
                 THEN Ended("done", whole) ELSE Ended("refused", <<>>)
    /\ UNCHANGED <<writer, directory, faults, changed>>

ChunksNext ==
    \/ \E data \in Originals : BeginSplit(data)
    \/ \E i \in Indexes : StorePart(i) \/ DamagePart(i)
    \/ StoreManifest \/ DamageManifest
    \/ BeginRead \/ ReadPart \/ Reassemble

------------------------------------------------------------------------------
(* Properties.                                                             *)

\* What a reader returns is a version that was written, never a mixture; it is
\* returned whenever the directory holds what split wrote and stays as it is;
\* and no reader has read more than one byte over what an accepted manifest
\* declares, which is within the limit, whatever the parts are.
WholeOrRefused ==
    reader # Nothing =>
        /\ reader.pc = "done" => reader.whole \in Originals
        /\ faults = 0 /\ ~changed /\ writer = Nothing => reader.pc # "refused"
        /\ reader.bytes <= MaxTotal + 1
        /\ Accepted(reader.manifest) \/ reader.bytes = 0
==============================================================================
