-------------------------- MODULE MCReferenceStore --------------------------
(* A small instance of ReferenceStore: one namespace, two files, contents of *)
(* one and two chunks, and a catalog row older than the embeddings.      *)
EXTENDS ReferenceStore, TLC

CONSTANTS n1, short, long

MCPaths == 1..2
MCNamespaces == {n1}
MCContents == {short, long}
MCChunksOf == [c \in MCContents |->
    IF c = short THEN <<"a">> ELSE <<"b", "a">>]
MCLegacy == [d \in {<<n1, 1>>} |-> short]

MCBranches == {<<Absent, long>>}
(* At first a writable GitLab or GitHub; repo_add may register any other.    *)
MCRegistered == [Connections -> [provider : {"gitlab", "github"}, write : {TRUE}]]
MCWritten == {<<1, long>>}

CallSymmetry == Permutations(Calls)

(* Ids are hashes: a point of a later document may sort before an older one. *)
MCRankOf == [p \in Points |->
    CHOOSE r \in 0..100 : r = (IF p[1][2] = Manual THEN 0 ELSE 10 * p[1][2])
                              + 7 * p[2] + (IF p[3] = "a" THEN 1 ELSE 0)]
=============================================================================
