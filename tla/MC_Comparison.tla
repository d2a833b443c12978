---------------------------- MODULE MC_Comparison ---------------------------
(***************************************************************************)
(* Two images and a file that share files: 1 and 2 have "both" in common, all have *)
(* "all", and "a" is similar to "b" and "c".                               *)
(***************************************************************************)
EXTENDS Comparison

MCUids == 1 .. 3
MCImages == {1, 2}
MCDirect == <<{"all", "both", "a"}, {"all", "b"}, {"all", "c"}>>
MCContent == <<{"all", "both", "a"}, {"all", "both", "b"}, {"all", "c"}>>
MCComponent == [f \in Files |-> IF f \in {"a", "b", "c"} THEN "busybox" ELSE f]
MCHeader == <<<<1, 1, 1>>, <<1, 1, 2>>, <<1, 2>>>>
MCSimilar == {<<"a", "b">>, <<"b", "a">>, <<"a", "c">>, <<"c", "a">>}

MCUidLists == {<<2, 1>>, <<1, 1>>}

\* Everything is analysed, or one object or one file is not.
MCInit ==
    /\ Init
    /\ <<unpacked, hashed, software>> \in
         {<<Uids, Files, Uids>>, <<Uids \ {2}, Files, Uids>>, <<Uids, Files \ {"b"}, Uids>>,
          <<Uids, Files, Uids \ {3}>>}

MCSpec == MCInit /\ [][Next]_vars /\ Fairness

-----------------------------------------------------------------------------
(* The tables of File_Coverage *)

SimilarFiles == {<<u, f>> : u \in {"fw", "fx"}, f \in {"a", "b", "c"}}
Cliques == {<<x, y>> : x \in {z \in SimilarFiles : z[1] = "fw"}, y \in {z \in SimilarFiles : z[1] = "fx"}}
Measured == [p \in {{x, y} : x, y \in SimilarFiles} \ {{x} : x \in SimilarFiles} |->
                IF {"a"} = {z[2] : z \in p} THEN 90 ELSE 70]

\* If the abbreviations tell the groups apart, every group of two objects has a
\* row with its two files and their similarity; otherwise rows are lost, but
\* each that is there belongs to a group.
ASSUME TableOfGroups ==
    \A g, h \in Cliques :
        LET uids == {"fw", "fx", "a", "b", "c"}
            Same == [u \in uids |-> "same"]
            Itself == [u \in uids |-> u]
            Fits(row, c) == /\ row.files = ("fw" :> c[1][2]) @@ ("fx" :> c[2][2])
                            /\ row.similarity = <<Measured[ToSet(c)], Measured[ToSet(c)]>>
            full == combine_similarity_results(<<g, h>>, {"fw", "fx"}, Measured, Itself)
            short == combine_similarity_results(<<g, h>>, {"fw", "fx"}, Measured, Same)
        IN  /\ \A c \in {g, h} : \E id \in DOMAIN full : Fits(full[id], c)
            /\ \A id \in DOMAIN short : Fits(short[id], h)

TextFiles == [uid : {"u", "v", "w"}, paths : SUBSET {"/etc/a", "/etc/b"},
              mime : {"text/plain", "other"}]

\* The changed text files are the pairs of different files at one path, each
\* of one image only.
ASSUME ChangedTextFiles ==
    \A f, g \in TextFiles, h \in {t \in TextFiles : t.mime = "text/plain"} :
        f.uid # g.uid =>
        LET changed == find_changed_text_files({f, g}, {h}, {f.uid, g.uid} \cap {h.uid})
        IN  \A path \in {"/etc/a", "/etc/b"}, u \in {"u", "v", "w"} :
               (path \in DOMAIN changed /\ <<u, h.uid>> \in changed[path])
                 <=> /\ path \in h.paths /\ u # h.uid /\ h.uid \notin {f.uid, g.uid}
                     /\ \E t \in {f, g} : t.uid = u /\ path \in t.paths /\ t.mime = "text/plain"

\* Of the common files those with a known entropy above the threshold, in no
\* list that is empty.
ASSUME NonZeroCommonFiles ==
    \A all, part \in SUBSET {"u", "v", "w"}, known \in SUBSET {"u", "v", "w"} :
        LET found == get_non_zero_common_files(all, ("fw" :> part),
                         [f \in known |-> IF f = "u" THEN 0 ELSE 5], 1)
        IN  /\ DOMAIN found = {k \in {"all", "fw"} :
                                 ((IF k = "all" THEN all ELSE part) \cap known) \ {"u"} # {}}
            /\ \A k \in DOMAIN found : found[k] \subseteq known \ {"u"}
=============================================================================
