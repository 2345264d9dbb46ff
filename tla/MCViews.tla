-------------------------------- MODULE MCViews --------------------------------
EXTENDS Views

CONSTANTS a, b, n, yes, no, f, g, r1, r2, r3, v1, v2, t1, t2

Words    == {a, b, n, yes, no}
Numerals == {n}
Places   == n :> 1 @@ a :> 2 @@ b :> 3 @@ no :> 4 @@ yes :> 5
Columns  == {f, g}
AllRows  == {r1, r2, r3}
Tabs     == {t1, t2}
TwoViews == {v1, v2}

TextAndCheckbox == f :> "text" @@ g :> "checkbox"
TwoRows == <<r1, r2>>
SomeCells == {r1 :> (f :> TextOf(a) @@ g :> TextOf(yes)) @@ r2 :> (f :> TextOf(b) @@ g :> TextOf(no))
              @@ r3 :> (f :> NoCell @@ g :> NoCell)}
SomeTypes == {"number", "relation", "multiSelect"}
SomeInputs == {TextOf(n), TextOf(no), ListOf(<<a, b>>)}

Up(x)   == [field |-> x, desc |-> FALSE]
Down(x) == [field |-> x, desc |-> TRUE]
SomeQueries == {Plain,
                [filters |-> <<>>, sorts |-> <<Up(f), Down(g)>>],
                [filters |-> <<[field |-> f, op |-> "contains", words |-> <<a>>]>>, sorts |-> <<Down(f)>>]}

\* One saved view, the default, and room for another.
OneView == v1 :> [query |-> [filters |-> <<[field |-> g, op |-> "is_empty", words |-> <<>>]>>,
                             sorts |-> <<Up(g)>>],
                  layout |-> "board", default |-> TRUE]
           @@ v2 :> None

SomeBudgets == {[tabs |-> {t1, t2}, cells |-> 2, views |-> 0, blocks |-> 0, lost |-> 0],
                [tabs |-> {t1}, cells |-> 0, views |-> 3, blocks |-> 0, lost |-> 0],
                [tabs |-> {t1}, cells |-> 1, views |-> 1, blocks |-> 0, lost |-> 1],
                [tabs |-> {t1}, cells |-> 0, views |-> 2, blocks |-> 1, lost |-> 0],
                [tabs |-> {t1}, cells |-> 0, views |-> 1, blocks |-> 1, lost |-> 1]}
===============================================================================
