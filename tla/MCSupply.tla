------------------------------ MODULE MCSupply ------------------------------
(* The stores behind the package routes, for TLC: the mirrors' disk cache,  *)
(* the two publish paths, the tools catalog, the storage port under it and  *)
(* the npm documents share no variable, so a behaviour exercises one of the *)
(* six.                                                                     *)
EXTENDS Mirror, Publish, Catalog, ObjectStore, Packument, TLC

VARIABLE part

CONSTANTS blob, ours, theirs

-----------------------------------------------------------------------------
(* The container mirror: the first version of the document lists nothing,  *)
(* the second the blob; the other repository does not have it.             *)

MCBlobOf == [v \in 0 .. MaxVersion |-> IF v = 0 THEN {} ELSE {blob}]
MCContains == [r \in Repos |-> IF r = ours THEN {blob} ELSE {}]
MCSize == [k \in Keys |-> IF k = blob THEN 2 ELSE 1]
MCOwner == ours

(* The npm documents: two packages share a basename, as npm names the      *)
(* tarballs of a scoped and of a plain package; a release and a candidate. *)

Release == [core |-> <<1>>, pre |-> <<>>]
Candidate == [core |-> <<1>>, pre |-> <<5>>]
MCVersions == {Release, Candidate}
MCBasename == [p \in Packages |-> [v \in MCVersions |-> IF v = Release THEN "x-1" ELSE "x-1rc"]]
MCTarballs == {[at |-> 1, name |-> "x-1", pkg |-> "@a/x", version |-> Release],
               [at |-> 2, name |-> "x-1", pkg |-> "x", version |-> Release],
               [at |-> 3, name |-> "x-1rc", pkg |-> "x", version |-> Candidate]}
MCListed == {<<"@a/x", Candidate>>}

-----------------------------------------------------------------------------
Init ==
    /\ part \in {"mirror", "pypi", "npm", "catalog", "objects", "packument"}
    /\ MirrorInit /\ (part = "mirror" \/ mirror = "apt")
    /\ PublishInit /\ CatalogInit
    /\ StoreInit /\ (part = "objects" \/ backend = "local")
    /\ PackumentInit /\ (part = "packument" \/ uplink = "on")
Next ==
    /\ \/ part = "mirror" /\ MirrorNext
          /\ UNCHANGED <<pypiVars, npmVars, catalogVars, storeVars, packumentVars>>
       \/ part = "pypi" /\ PypiNext
          /\ UNCHANGED <<mirrorVars, npmVars, catalogVars, storeVars, packumentVars>>
       \/ part = "npm" /\ NpmNext
          /\ UNCHANGED <<mirrorVars, pypiVars, catalogVars, storeVars, packumentVars>>
       \/ part = "catalog" /\ CatalogNext
          /\ UNCHANGED <<mirrorVars, pypiVars, npmVars, storeVars, packumentVars>>
       \/ part = "objects" /\ StoreNext
          /\ UNCHANGED <<mirrorVars, pypiVars, npmVars, catalogVars, packumentVars>>
       \/ part = "packument" /\ PackumentNext
          /\ UNCHANGED <<mirrorVars, pypiVars, npmVars, catalogVars, storeVars>>
    /\ UNCHANGED part

Symmetric == Permutations(Clients)

\* What the package pages and the npm index say of a published file is true of
\* the file (its digest, its presence, the tags of every publish), and what the
\* registry answers merges it with the upstream's document without losing or
\* misnaming a version; a digest the storage port gives is that of its object.
PackagesTrue ==
    PublishTypeOK /\ DigestTrue /\ IndexFresh /\ TagsMerged /\ RegistryTrue /\ DigestOfObject
=============================================================================
