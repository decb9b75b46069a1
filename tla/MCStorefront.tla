---------------------------- MODULE MCStorefront ----------------------------
(* Three products of store zita, two of them stamped alike, and one of another store.  A pair *)
(* is a colour with a comma: it can be seen, but whoever asks for it asks for red and blue.   *)
EXTENDS Storefront

CONSTANTS zita, gloria, dress, skirt, shirt, foreign, tops, more, red, blue, s, pair, silk

Paint(g, v, h) == [group |-> g, value |-> v, hex |-> h]

MCAxis == [g \in {"Colour", "colour", "Size", "Material"} |->
            IF g = "Size" THEN "size" ELSE IF g = "Material" THEN "other" ELSE "colour"]

MCSplit == [v \in Values |-> IF v = pair THEN {red, blue} ELSE {v}]

\* red comes with two swatches, in two spellings of the group, and as a material
MCSheet == [p \in Products |->
  CASE p = dress -> [store |-> zita, images |-> 2,
                     options |-> {Paint("Colour", red, 1), Paint("colour", red, 2), Paint("Size", s, 0)}]
    [] p = skirt -> [store |-> zita, images |-> 1,
                     options |-> {Paint("colour", red, 0), Paint("Colour", blue, 3)}]
    [] p = shirt -> [store |-> zita, images |-> 0,
                     options |-> {Paint("Material", red, 0), Paint("Size", s, 0), Paint("Colour", pair, 1)}]
    [] OTHER -> [store |-> gloria, images |-> 1,
                 options |-> {Paint("Colour", red, 1)}]]

Row(p, n, k, v, f) ==
  [visible |-> v, featured |-> f, price |-> n, category |-> k, words |-> IF p = shirt THEN {} ELSE {silk},
   stamp |-> IF p = dress THEN 1 ELSE IF p = foreign THEN 3 ELSE 2, state |-> "whole"]

\* All on display; the skirt hidden; the shirt not yet created.
MCCatalogs ==
  {[p \in Products |-> IF p = skirt THEN Row(p, 2, more, TRUE, FALSE) ELSE Row(p, 1, tops, TRUE, p = dress)],
   [p \in Products |-> Row(p, IF p = dress THEN 2 ELSE 1, tops, p # skirt, p = skirt)],
   [p \in Products |-> [Row(p, 1, tops, TRUE, FALSE) EXCEPT !.state = IF p = shirt THEN "new" ELSE @]]}

MCPatches == {[f \in {"visible"} |-> FALSE], [f \in {"visible"} |-> TRUE],
              [f \in {"price"} |-> 2], [f \in {"category"} |-> more], [f \in {"featured"} |-> TRUE],
              [f \in {"words"} |-> {}], [f \in {"words"} |-> {silk}]}

All == [category |-> None, colours |-> {}, sizes |-> {}, min |-> None, max |-> None, q |-> None]
MCFilters == {All, [All EXCEPT !.colours = {red}], [All EXCEPT !.colours = {red, blue}, !.sizes = {s}],
              [All EXCEPT !.category = tops, !.max = 1], [All EXCEPT !.q = silk, !.min = 2],
              [All EXCEPT !.colours = {pair}]}

Ask(kind, f, sort, limit, offset, p) ==
  [kind |-> kind, store |-> zita, filter |-> f, sort |-> sort, limit |-> limit, offset |-> offset, product |-> p]

MCRequests ==
  {Ask("facets", f, "newest", 1, 0, dress) : f \in MCFilters}
  \cup {Ask("page", All, o, 1, 0, dress) : o \in {"newest", "price_asc", "featured"}}
  \cup {Ask("page", All, o, 9, 0 - 1, dress) : o \in {"price_desc", "unknown"}}
  \cup {Ask("page", All, "price_asc", 1, 1, dress)}
  \cup {Ask("page", [All EXCEPT !.colours = {red}], "newest", 0, 0, dress),
        Ask("page", [All EXCEPT !.q = silk], "newest", 1, 0, dress)}
  \cup {Ask("index", All, "newest", 1, 0, dress), Ask("detail", All, "newest", 1, 0, dress),
        Ask("detail", All, "newest", 1, 0, foreign)}
  \cup {[Ask("index", All, "newest", 1, 0, dress) EXCEPT !.store = None]}
=============================================================================
