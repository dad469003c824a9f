----------------------------- MODULE ResultsDoc -----------------------------
(* experiments/_results_doc.py: the sections of docs/results.md.  A document *)
(* is a sequence of tokens: the two markers of a section, and text.          *)
EXTENDS Naturals, Sequences, FiniteSets

Begin(marker) == [tag |-> "begin", of |-> marker, run |-> 0]
End(marker) == [tag |-> "end", of |-> marker, run |-> 0]
Text(words, run) == [tag |-> "text", of |-> words, run |-> run]

Places(text, token) == {i \in DOMAIN text : text[i] = token}

\* str.find: the first place of token in text, 0 if there is none.
find(text, token) ==
    IF Places(text, token) = {} THEN 0
    ELSE CHOOSE i \in Places(text, token) : \A j \in Places(text, token) : i <= j

\* Mutant of After: the old end marker is kept.
FromEndMarker(text, end_idx) == SubSeq(text, end_idx, Len(text))

\* text[end_idx + len(end):]
After(text, end_idx) == SubSeq(text, end_idx + 1, Len(text))

\* The text that replace_section writes back; blank lines are left out.
replace_section(text, marker, content) ==
    LET section == <<Begin(marker)>> \o content \o <<End(marker)>>
        start_idx == find(text, Begin(marker))
        end_idx == find(text, End(marker))
    IN  IF start_idx # 0 /\ end_idx # 0 /\ start_idx < end_idx
        THEN SubSeq(text, 1, start_idx - 1) \o section \o After(text, end_idx)
        ELSE text \o section

\* Reference: text has exactly one section of this marker, with this content.
HasSection(text, marker, content) ==
    \E i \in DOMAIN text :
        LET j == i + Len(content) + 1 IN
        /\ Places(text, Begin(marker)) = {i}
        /\ Places(text, End(marker)) = {j}
        /\ SubSeq(text, i + 1, j - 1) = content
=============================================================================
