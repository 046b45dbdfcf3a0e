------------------------------ MODULE MCGbpCodec ------------------------------
EXTENDS GbpCodec

\* Lists of rows and numbers, mixed or alike, followed by a value, twice, that may repeat a part of one.
Five == GbpNumber(5)
FiveList == GbpArray(<<Five>>)
FiveObject == GbpObject(<<"a">>, <<Five>>)
GbpRows == {GbpObject(<<"a", "b">>, <<x, y>>) :
               x \in {GbpNumber(4), Five}, y \in {Five, FiveList, FiveObject}}
GbpLists == {GbpArray(items) : items \in UNION {[1..n -> GbpRows \cup {Five}] : n \in 1..4}}
MCGbpValues ==
    {GbpObject(<<"a", "b", "c">>, <<list, other, other>>) :
        list \in GbpLists, other \in {FiveList, FiveObject, GbpArray(<<>>)}}
      \cup {GbpNull, GbpArray(<<GbpArray(<<>>), FiveObject, FiveObject>>),
            GbpArray(<<GbpObject(<<"a">>, <<GbpNull>>), GbpObject(<<"a">>, <<GbpBool(FALSE)>>)>>)}

=============================================================================
