---- MODULE MCServices ----
EXTENDS Services

MCSubKeys == {<<>>, <<"a">>}

\* What a scene allows, so that each stays small.
S(calls, cs, n, h) == [calls |-> calls \cup {"class", "window"}, classes |-> cs, objects |-> n, handles |-> h]
MCScenes ==
    {S({"show", "init"}, {"m"}, 4, 0), S({}, {"c", "m"}, 3, 0),
     S({"unregister", "cursor", "menu"}, {"m"}, 3, 0), S({"show", "message"}, {"c"}, 2, 0),
     S({"show", "pad"}, {"c"}, 1, 0), S({"show", "wait"}, {"c"}, 2, 0),
     S({"show", "dispatch", "paint"}, {"c"}, 1, 1), S({"paint"}, {"c"}, 2, 2),
     S({"paint", "gdi"}, {"c"}, 1, 2), S({"gdi"}, {"c"}, 2, 2), S({"gdi"}, {"c"}, 1, 3),
     S({"gdi", "palette"}, {"c"}, 1, 2)}

\* Text and data share a page in Split; a program is its import lists.
Split == <<[first |-> 2, last |-> 2, access |-> {"r", "x"}],
           [first |-> 3, last |-> 4, access |-> {"r", "w"}],
           [first |-> 6, last |-> 6, access |-> {"r"}]>>
Plain == <<[first |-> 1, last |-> 1, access |-> {"r", "x"}]>>
Sects == [r |-> Split, a |-> Plain, b |-> Plain, c |-> Plain]
MCPrograms ==
    {Program("r", imports, Sects) : imports \in {
        [r |-> <<"a", "k", "b", "a">>, a |-> <<"b", "r">>, b |-> <<"k">>],
        [r |-> <<"k", "a">>, a |-> <<"k", "n">>, b |-> <<>>],
        [r |-> <<"a">>, a |-> <<"b">>, b |-> <<"a", "c">>, c |-> <<"k">>],
        [r |-> <<"a">>, a |-> <<"c">>, c |-> <<"b">>, b |-> <<"k">>],
        [r |-> <<"a", "k", "c", "b">>, a |-> <<"n">>, b |-> <<"c">>, c |-> <<>>],
        [r |-> <<"a", "b">>, a |-> <<"c">>, b |-> <<"a", "c">>, c |-> <<"r", "b", "k">>],
        [r |-> <<"a", "b">>, a |-> <<"missing">>, b |-> <<"k">>],
        [r |-> <<"k">>]}}

\* Images of a word of 16 and pages of 4: one section whose place varies
\* between two that do not, tables that do and do not fit, and a 64-bit image.
Header(files, headers, sizes, bases, entries, count, relocs, sections) ==
    [file : files, headers : headers, size : sizes, bytes : {0}, base : bases, entry : entries,
     count : {count}, wide : {FALSE}, reloc : relocs, sections : {sections}]
One == {[rva |-> 4, virtual |-> 4, raw |-> 5, at |-> 4]}
MCImages ==
    Header({5, 9}, {0, 1, 4, 5, 15}, {0, 1, 5, 8, 12, 15}, {0}, {0, 15}, 2, {<<0, 0>>},
           Sections({0, 4, 5, 8, 12}, {0, 1, 5, 15}, {0, 4, 15}, {0, 1, 15}))
    \cup Header({9}, {4}, {8, 12}, {0, 8}, {0}, 1, {4, 12} \X {0, 1, 4, 8, 15}, One)
    \cup {[h EXCEPT !.wide = TRUE] :
            h \in Header({9}, {4}, {8}, {16}, {0}, 1, {<<4, 4>>, <<0, 0>>}, One)}

\* All exceptions masked, none, and all but one.
MCMasks == {FpFlags, {}, FpFlags \ {"IE"}, FpFlags \ {"PE"}, FpFlags \ {"UE"}}
====
