------------------------- MODULE MCMarkdownChunker -------------------------
(* All documents of one or four printing characters, all of six that have   *)
(* no heading and no code block but tabs and indented lines, and the        *)
(* empty one.                                                               *)
EXTENDS MarkdownChunker, TLC

\* White space before a character: its length and where it has a " ".
White(kind, length, spaces) == [kind |-> kind, length |-> length, spaces |-> spaces]

Plain == {White("none", 0, {}), White("inline", 1, {1}), White("line", 1, {}), White("blank", 2, {})}
Tab == White("inline", 1, {})
Indented == White("line", 2, {2})

\* A character with what lies before it: only the first of a line has a mark.
Chars(whites, marks) ==
    (whites \X {"text"}) \cup ({w \in whites : w.kind \in {"line", "blank"}} \X marks)

Document(chars) ==
    LET end[k \in 0..Len(chars)] == IF k = 0 THEN 0 ELSE end[k - 1] + chars[k][1].length + 1
    IN [size |-> Len(chars),
        gap |-> [k \in DOMAIN chars |-> chars[k][1].kind],
        mark |-> [k \in DOMAIN chars |-> chars[k][2]],
        offset |-> [k \in DOMAIN chars |-> end[k]],
        spaces |-> UNION {{end[k - 1] + p : p \in chars[k][1].spaces} : k \in DOMAIN chars}]

Texts(size, whites, marks) ==
    {Document(chars) : chars \in
        {c \in [1..size -> Chars(whites, marks)] : size > 0 => c[1][1] = White("line", 1, {})}}

Marks == {"#", "##", "###"} \cup Fences

MCDocuments == Texts(4, Plain, Marks) \cup Texts(6, Plain \cup {Tab, Indented}, {})
               \cup Texts(1, Plain, Marks) \cup Texts(0, Plain, Marks)
============================================================================
