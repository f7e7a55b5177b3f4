----------------------------- MODULE MCRequests -----------------------------
(* A write request at the service: the Archive routes around it and the     *)
(* upload inside it.  The models share no state, so a behaviour follows one *)
(* of them (focus) while the other stays in an initial state.               *)
EXTENDS ArchiveRoutes, FileSetUpload, TLC

CONSTANTS a1, s1, s2, b1, b2

VARIABLE focus

MCAgentOf == [c \in Connections |-> a1]
MCSectionOf == (b1 :> s1) @@ (b2 :> s2)

\* The first Section only, changes in the second only, and both.
MCRights ==
    {(s1 :> {"query", "page.read", "archive.write"}) @@ (s2 :> {}),
     (s1 :> {"page.read"}) @@ (s2 :> {"query", "archive.write"}),
     [s \in Sections |-> {"query", "page.read", "archive.write"}]}

Part(name, key, media, size) ==
    [name |-> name, key |-> key, media |-> media, size |-> size]

\* Sizes around every limit, and parts no upload may hold.
MCParts ==
    {Part("metadata", 0, TRUE, n) : n \in {0, 1, MaxMetadata + 1}}
    \cup {Part("file", k, TRUE, n) : k \in 1..3, n \in {0, 2, MaxFile, MaxFile + 1}}
    \cup {Part("file", 1, FALSE, 1), Part("other", 0, TRUE, 1)}

\* All streams of three parts, and of four that begin with the metadata.
MCUploads ==
    UNION {[1..n -> MCParts] : n \in 0..3}
    \cup {<<Part("metadata", 0, TRUE, 1)>> \o u : u \in [1..3 -> MCParts]}

MCInit ==
    /\ focus \in {"routes", "upload"}
    /\ RoutesInit /\ UploadInit
    /\ focus # "routes" => rights = CHOOSE r \in [Agents -> Rights] : TRUE
    /\ focus # "upload" => upload = <<>> /\ ~declared

MCNext ==
    /\ UNCHANGED focus
    /\ \/ focus = "routes" /\ RoutesNext /\ UNCHANGED uploadVars
       \/ focus = "upload" /\ UploadNext /\ UNCHANGED routeVars

MCSpec == MCInit /\ [][MCNext]_<<routeVars, uploadVars, focus>>

Interchangeable == Permutations(Connections) \cup Permutations(Keys)
=============================================================================
