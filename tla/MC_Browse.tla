----------------------------- MODULE MC_Browse -----------------------------
(***************************************************************************)
(* Two images and two files: the files are in one or both images, one may  *)
(* be packed in the other, names of files, directories and devices may     *)
(* agree, and analyses may be missing.                                     *)
(***************************************************************************)
EXTENDS Browse

Image(vendor, device, u, size) ==
    [name |-> 3, fw |-> [vendor |-> vendor, device |-> device, date |-> device], roots |-> {}, parents |-> {},
     paths |-> {[root |-> u, containers |-> <<u>>, names |-> <<>>]}, analyses |-> <<>>, size |-> size]
File(names, roots, parents, containers, analyses) ==
    [name |-> Last(names), fw |-> NoFw, roots |-> roots, parents |-> parents,
     paths |-> {[root |-> r, containers |-> <<r>> \o containers, names |-> names] : r \in roots},
     analyses |-> analyses, size |-> 1]

Analyses == {<<>>, [p |-> 1], [p |-> 2, q |-> 1, file_hashes |-> 1]}
MCDatabases ==
    {("f1" :> Image(1, 1, "f1", 2)) @@ ("f2" :> Image(v, d, "f2", 3))
        @@ ("a" :> File(<<1>>, ra, ra, <<>>, xa))
        @@ ("b" :> File(nb, IF packed THEN ra ELSE rb, IF packed THEN {"a"} ELSE rb,
                        IF packed THEN <<"a">> ELSE <<>>, xb)) :
        v \in {1, 2}, d \in {1, 3}, ra \in {{"f1"}, {"f1", "f2"}}, rb \in {{"f1", "f2"}},
        nb \in {<<2>>, <<1, 1>>}, packed \in BOOLEAN, xa \in Analyses, xb \in {<<>>, [p |-> 1]}}

Query(and, or) == [and |-> and, or |-> or]
Form(query, only, inverted) == [query |-> query, only |-> only, inverted |-> inverted, cached |-> FALSE]
Name1 == Cond("file_object", "file_name", "$like", 1)
Result1 == Cond("p", "value", "=", 1)
MCForms ==
    {Form(Query({}, {}), FALSE, FALSE),
     Form(ApplyFilters(Query({}, {}), "date", 1), FALSE, FALSE),
     Form(BuildSearchQuery({1}, 0, 0), FALSE, FALSE),
     Form(BuildSearchQuery({1}, 0, 1), FALSE, FALSE),
     Form(ApplyFilters(BuildSearchQuery({1}, 1, 0), "vendor", 2), FALSE, FALSE),
     Form(ApplyFilters(QuickSearch(1), "vendor", 2), FALSE, FALSE),
     Form(QuickSearch(1), FALSE, FALSE),
     [Form(BinarySearch({"a", "b", "f1"}), FALSE, FALSE) EXCEPT !.cached = TRUE],
     [Form(BinarySearch({"a", "b"}), TRUE, FALSE) EXCEPT !.cached = TRUE],
     Form(Query({}, {Name1, Cond("file_object", "file_name", "=", 3)}), FALSE, FALSE),
     Form(Query({Result1, Name1}, {}), FALSE, FALSE),
     Form(Query({Cond("p", "value", "$regex", 1)}, {}), FALSE, FALSE),
     Form(Query({Cond("p", "value", "=", 2), Cond("q", "value", "=", 1)}, {}), FALSE, FALSE),
     Form(Query({Cond("file_object", "file_name", "$near", 1)}, {}), FALSE, FALSE),
     Form(Query({Result1}, {}), TRUE, TRUE),
     Form(Query({Name1}, {}), TRUE, FALSE)}
=============================================================================
