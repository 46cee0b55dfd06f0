---------------------------- MODULE MCAssetCache -----------------------------
(* AssetCache for TLC: a page with a font and two versions of an image, which
   differ in the query string and share a key. *)
EXTENDS AssetCache

page == [path |-> "page", query |-> "", extension |-> FALSE]
old == [path |-> "image", query |-> "v1", extension |-> TRUE]
new == [path |-> "image", query |-> "v2", extension |-> TRUE]
font == [path |-> "font", query |-> "", extension |-> TRUE]

TheUrls == {page, old, new, font}
TheLists == {<< >>, <<old>>, <<old, new, font>>, <<page, new, old>>}
=============================================================================
