---------------------------- MODULE MC_Frontend ----------------------------
(***************************************************************************)
(* The web interface: the requests that change something (Frontend) and    *)
(* those that only read (Pages), as two systems; a behaviour is one of the *)
(* one or of the other.                                                    *)
(*                                                                         *)
(* Frontend: two workers, the console tool, one image and one user name.   *)
(* Pages: one request, an image with a file in a file, and a second image  *)
(* that holds the inner file too.                                          *)
(***************************************************************************)
EXTENDS Frontend, Pages

CONSTANTS fw, fx, fa, fb

VARIABLE system      \* "frontend" or "pages"

allVars == <<system, vars, pageVars>>

\* The image was uploaded before, and the user was created with one role.
FrontendInit ==
    \/ Init
    \/ /\ image = [stored |-> TRUE, comments |-> {}, disk |-> TRUE]
       /\ tasks = [t \in TaskTypes |-> <<>>]
       /\ users = [n \in Names |-> 1] /\ roleNames = {"guest"}
       /\ member = [m \in Keys \X AllRoles |-> IF m = <<1, "guest">> THEN 1 ELSE 0]
       /\ req = [w \in Workers |-> Idle] /\ cli = Off
       /\ started = 1
       /\ history = [posted |-> {}, uncommented |-> {}, uploaded |-> TRUE, deleted |-> FALSE,
                     rewritten |-> FALSE, crashed |-> FALSE, overlap |-> FALSE, userOverlap |-> FALSE]

NoPages == rows = << >>

\* The system that a behaviour is not about stays as it is.
MCInit ==
    \/ system = "frontend" /\ FrontendInit /\ PagesInit /\ NoPages
    \/ system = "pages" /\ PagesInit /\ Init

OfFrontend(action) == system = "frontend" /\ action /\ UNCHANGED <<system, pageVars>>

MCNext ==
    \/ system = "frontend" /\ Next /\ UNCHANGED <<system, pageVars>>
    \/ system = "pages" /\ PagesNext /\ UNCHANGED <<system, vars>>

MCFairness ==
    /\ \A w \in Workers : WF_allVars(OfFrontend(Steps(w)))
    /\ \A type \in TaskTypes : WF_allVars(OfFrontend(BackEnd(type)))

MCSpec == MCInit /\ [][MCNext]_allVars /\ MCFairness

-----------------------------------------------------------------------------
(* Pages *)

MCContents == {<<fw, fw, fa>>, <<fw, fa, fb>>, <<fx, fx, fb>>}
MCInside == (fw :> {fa, fb}) @@ (fa :> {fb}) @@ (fb :> {}) @@ (fx :> {fb})

Tag(value, propagate) == [type |-> "t", value |-> value, propagate |-> propagate]
Found(summary, tags) == [failed |-> FALSE, summary |-> summary, tags |-> tags]
Failure == [failed |-> TRUE, summary |-> {}, tags |-> {}]
MCResults == {Found({"x"}, {Tag(1, TRUE), Tag(2, FALSE)}), Failure}

NoLink == [absolute |-> TRUE, path |-> << >>]
In(container, path) == [container |-> container, path |-> path]
Program1(uid, paths, libs) ==
    [uid |-> uid, paths |-> paths, mime |-> "application/x-executable", link |-> NoLink,
     libraries |-> libs]
MCLayout ==
    (fa :> Program1(fa, fw :> <<In(fw, <<"bin", "a">>)>>, <<"b">>))
    @@ (fb :> Program1(fb, (fw :> <<In(fa, <<"bin", "b">>)>>) @@ (fx :> <<In(fx, <<"bin", "b">>)>>),
                       << >>))

First == Found({"x"}, {Tag(1, TRUE)})
Second == Found({"y"}, {Tag(2, TRUE)})
Both(r) == ("file_type" :> r) @@ ("elf_analysis" :> r)
Start(stored, found) ==
    [rows |-> stored,
     links |-> [included |-> {<<x[2], x[3]>> : x \in found},
                fw_files |-> {<<x[1], x[3]>> : x \in found},
                paths |-> {<<x[1], x[3]>> : x \in found}]]
MCStarts ==
    {Start(<< >>, {}),
     Start((fw :> ("elf_analysis" :> First)) @@ (fa :> ("file_type" :> First))
               @@ (fx :> ("elf_analysis" :> First)),
           {<<fw, fw, fa>>}),
     Start((fw :> Both(First)) @@ (fa :> Both(First)) @@ (fb :> Both(Second)) @@ (fx :> << >>),
           MCContents)}

-----------------------------------------------------------------------------
(* The graph of programs and libraries *)

AnyFile(uid, dir, name, type, link, libs) ==
    [uid |-> uid, paths |-> ("root" :> <<In("top", <<dir, name>>)>>), mime |-> type,
     link |-> link, libraries |-> libs]
Link(target) == [absolute |-> FALSE, path |-> target]
Binaries(uid) ==
    {AnyFile(uid, dir, name, "application/x-sharedlib", NoLink, libs) :
        dir \in {"bin", "usr"}, name \in {"a", "lib"}, libs \in {<< >>, <<"lib">>, NoElfAnalysis}}
    \cup {AnyFile(uid, dir, "lib", Symlink, Link(target), NoElfAnalysis) :
             dir \in {"bin", "usr"}, target \in {<<"a">>, <<"..", "bin", "a">>, <<"..", "..", "bin", "lib">>}}

\* A link has an edge to every node of the path it leads to, a program one edge
\* for each library that is there, and nothing else has an edge.
ASSUME EdgesLeadToTheNames ==
    \A f \in Binaries(1), g \in Binaries(2) :
        LET nodes == create_data_graph_nodes(<<f, g>>, "top", "root")
            edges == create_data_graph_edges(nodes)
        IN  /\ Len(nodes) = 2
            /\ \A e \in edges :
                 IF nodes[e.from].group = Symlink
                 THEN nodes[e.to].label \in {normpath(Front(nodes[e.from].label) \o nodes[e.from].link.path)}
                 ELSE \E l \in ToSet(nodes[e.from].libraries) : Last(nodes[e.to].label) = l
            /\ \A i \in 1..2 : \A l \in ToSet(nodes[i].libraries) :
                 Cardinality({e \in edges : e.from = i})
                   = (IF \E j \in 1..2 : Last(nodes[j].label) = l THEN 1 ELSE 0)
            /\ elf_analysis_missing_from_files(nodes)
                 = Cardinality({h \in {f, g} : h.libraries = NoElfAnalysis})
=============================================================================
