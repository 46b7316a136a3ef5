--------------------------- MODULE MCTranslations ---------------------------
(* Translations on a small instance.  In the charts, a table of two, which  *)
(* may be a map or have a shape; in claims, tables in one another.          *)
EXTENDS Translations

MCPath == {<<"a">>, <<"a", "b">>, <<"a", "c">>}
MCLeaf == {<<"text">>, <<"typed">>, <<"empty">>, <<"expr", <<>>>>, <<"unmarked", <<>>>>, <<"broken">>}
MCHinted == {<<"a">>, <<"a", "b">>}
MCMapped == {<<"a">>}
MCShape == [q \in {<<"a">>} |-> {<<"a", "c">>}]
MCCelPath == {<<"a">>, <<"a", "b">>, <<"a", "b", "c">>, <<"a", "d">>, <<"e">>}
MCVersion == {<<1, 0>>, <<1, 1>>, <<2, 0>>}
=============================================================================
