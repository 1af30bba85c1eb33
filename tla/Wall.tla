-------------------------------- MODULE Wall --------------------------------
(***************************************************************************)
(* The profile wall of one identity: photo and text posts placed on a      *)
(* canvas of cells, albums that fold photos into a deck, and the layout    *)
(* record that says where each block lies (node.py, store.py).  The layout *)
(* is published whole, each time, from the latest one the device has: the  *)
(* later record wins, entire, and likewise for each album.  An edit made   *)
(* on one device while another was being made elsewhere is lost, and an    *)
(* album may keep members that the layout says are placed.                 *)
(***************************************************************************)
EXTENDS Integers, FiniteSets

CONSTANTS
  Desktop,    \* the devices of the identity
  Post,       \* the posts it may compose
  Photo,      \* those of them that are photos
  Album,      \* album ids, which are numbers: their order matters
  Cols,       \* WALL_COLS
  MaxHeight,  \* MAX_BLOCK_H
  MaxRow,     \* MAX_LAYOUT: the last row in which a block may start
  Sizes,      \* the sizes that the composer offers
  MaxEdits    \* how many edits are made

ASSUME WallAssumption ==
  /\ Photo \subseteq Post /\ IsFiniteSet(Post) /\ IsFiniteSet(Desktop)
  /\ Album \subseteq Nat /\ IsFiniteSet(Album) /\ Post \intersect Album = {}
  /\ Cols \in Nat /\ Cols >= 4 /\ MaxHeight \in Nat /\ MaxHeight >= 2
  /\ Sizes \subseteq [w : 1..Cols, h : 1..MaxHeight]
  /\ MaxRow \in Nat /\ MaxEdits \in Nat

VARIABLES
  edits,     \* how many edits were made; each takes the next created_at
  made,      \* when each post was composed
  wall       \* what each device holds

wallVars == <<edits, made, wall>>
----------------------------------------------------------------------------
Block == Post \union Album

\* Functions on some of the blocks.
On(blocks, values) == UNION {[S -> values] : S \in SUBSET blocks}

Without(f, S) == [b \in DOMAIN f \ S |-> f[b]]

Placed(f, b, v) == [c \in DOMAIN f \union {b} |-> IF c = b THEN v ELSE f[c]]

Empty == <<>>

\* The sizes of a photo and of a text, unless sized otherwise.
PhotoSize == [w |-> 2, h |-> 2]
TextSize == [w |-> 4, h |-> 1]

DefaultSize(b) == IF b \in Photo \union Album THEN PhotoSize ELSE TextSize

AllSizes == Sizes \union {PhotoSize, TextSize}

Geometry == {[x |-> x, y |-> y, w |-> s.w, h |-> s.h] :
               x \in 0..(Cols - 1), y \in 0..MaxRow, s \in AllSizes}

At(s, x, y) == [x |-> x, y |-> y, w |-> s.w, h |-> s.h]

\* A plausible defect: the place is kept with the size.
PinKept(g) == g

\* What is left of a place when the block is taken off the canvas.
SizeOf(g) == [w |-> g.w, h |-> g.h]

Fits(g) == g.x + g.w <= Cols /\ g.y <= MaxRow

Overlap(g, h) ==
  g.x < h.x + h.w /\ h.x < g.x + g.w /\ g.y < h.y + h.h /\ h.y < g.y + g.h

\* The order, grids, sizes and texts maps all ride along in a layout record; here, the
\* set of the blocks they mention.
Layout ==
  [at : 0..MaxEdits, pins : On(Block, Geometry), spans : On(Block, AllSizes),
   styled : SUBSET Block]

WallOf ==
  [posts : SUBSET Post, gone : SUBSET Post, layout : Layout,
   albums : [Album -> [at : 0..MaxEdits, members : SUBSET Photo]]]

WallInit ==
  /\ edits = 0 /\ made = [p \in Post |-> 0]
  /\ wall = [d \in Desktop |->
       [posts |-> {}, gone |-> {},
        layout |-> [at |-> 0, pins |-> Empty, spans |-> Empty, styled |-> {}],
        albums |-> [a \in Album |-> [at |-> 0, members |-> {}]]]]
----------------------------------------------------------------------------
(***************************************************************************)
(* Placing.  A pin below MaxRow says that the wall is full: the caller     *)
(* raises, and nothing is published.                                       *)
(***************************************************************************)
\* A plausible defect: one row further down, whatever lies there.
MovedDown(g, pins) ==
  IF \E b \in DOMAIN pins : Overlap(g, pins[b]) THEN [g EXCEPT !.y = @ + 1] ELSE g

\* Where g comes to rest: the bump loop skips exactly the rows where it overlaps.  Nothing
\* lies below the highest block that starts in the last row.
Rested(g, pins) ==
  LET free == {y \in g.y..(MaxRow + MaxHeight) :
                 \A b \in DOMAIN pins : ~Overlap([g EXCEPT !.y = y], pins[b])}
  IN  [g EXCEPT !.y = CHOOSE y \in free : \A z \in free : y <= z]

Full(pins) == \E b \in DOMAIN pins : pins[b].y > MaxRow

Above(g, h) == g.y < h.y \/ (g.y = h.y /\ g.x < h.x)

\* _push_place(): b goes where it is told, and what is in the way moves down.
PushPlace(pins, b, g) ==
  LET rest == DOMAIN pins \ {b}
      placed[S \in SUBSET rest] ==
        IF S = {} THEN [c \in {b} |-> g]
        ELSE LET last == CHOOSE c \in S : \A e \in S : ~Above(pins[c], pins[e])
                 before == placed[S \ {last}]
             IN  IF Full(before) THEN before
                 ELSE Placed(before, last, Rested(pins[last], before))
  IN  placed[rest]

\* _first_fit_place(): nothing moves; b goes to the first gap.
Gaps(pins, b, s) ==
  {g \in {At(s, x, y) : x \in 0..(Cols - s.w), y \in 0..MaxRow} :
     \A c \in DOMAIN pins \ {b} : ~Overlap(g, pins[c])}

FirstFit(pins, b, s) ==
  Placed(pins, b, CHOOSE g \in Gaps(pins, b, s) : \A h \in Gaps(pins, b, s) : g = h \/ Above(g, h))
----------------------------------------------------------------------------
Edit == edits < MaxEdits /\ edits' = edits + 1

\* make_profile_layout() and its publication, with everything else carried forward.
Laid(w, pins, spans) ==
  [w EXCEPT !.layout.at = edits + 1, !.layout.pins = pins, !.layout.spans = spans]

Publish(d, pins, spans) ==
  /\ ~Full(pins)
  /\ wall' = [wall EXCEPT ![d] = Laid(@, pins, spans)]

Pins(d) == wall[d].layout.pins
Spans(d) == wall[d].layout.spans

Shown(d) == wall[d].posts \ wall[d].gone

Blocks(d) == Shown(d) \union {a \in Album : wall[d].albums[a].at > 0}

\* compose_post() with placement "profile".  The post is published before it is placed:
\* with the wall full, the process gone in between, or a post meant for an album, it
\* stays unplaced.
Compose(d, p, s) ==
  /\ Edit /\ made[p] = 0 /\ made' = [made EXCEPT ![p] = edits + 1]
  /\ LET w == [wall[d] EXCEPT !.posts = @ \union {p}] IN
     wall' = [wall EXCEPT ![d] =
       IF Gaps(Pins(d), p, s) = {} THEN w
       ELSE Laid(w, FirstFit(Pins(d), p, s), Without(Spans(d), {p}))]

ComposeUnplaced(d, p) ==
  /\ Edit /\ made[p] = 0 /\ made' = [made EXCEPT ![p] = edits + 1]
  /\ wall' = [wall EXCEPT ![d].posts = @ \union {p}]

SetBlockPin(d, b, g) ==
  /\ Edit /\ Fits(g)
  /\ Publish(d, PushPlace(Pins(d), b, g), Without(Spans(d), {b}))
  /\ UNCHANGED made

UnpinBlock(d, b) ==
  /\ Edit
  /\ Publish(d, Without(Pins(d), {b}),
             IF b \in DOMAIN Pins(d) THEN Placed(Spans(d), b, SizeOf(Pins(d)[b]))
             ELSE Spans(d))
  /\ UNCHANGED made

SetBlockSpan(d, b, s) ==
  /\ Edit /\ b \notin DOMAIN Pins(d)
  /\ Publish(d, Pins(d), Placed(Spans(d), b, s))
  /\ UNCHANGED made

\* set_profile_layout(), set_block_grid(), set_block_size(), set_block_text().
Restyle(d, b) ==
  /\ Edit
  /\ LET w == Laid(wall[d], Pins(d), Spans(d)) IN
     wall' = [wall EXCEPT ![d] =
       [w EXCEPT !.layout.styled = IF b \in @ THEN @ \ {b} ELSE @ \union {b}]]
  /\ UNCHANGED made

\* delete_post(): the layout and the albums go on naming the post.
Delete(d, p) ==
  /\ Edit /\ wall' = [wall EXCEPT ![d].gone = @ \union {p}] /\ UNCHANGED made
----------------------------------------------------------------------------
(***************************************************************************)
(* Albums.  Grouping takes the members off the canvas and hands the place  *)
(* of a single placed one to the album; the layout goes out first, and the *)
(* process may be gone before the album does.                              *)
(***************************************************************************)
Grouped(d, members, a) ==
  LET pinned == members \intersect DOMAIN Pins(d)
      bare == Without(Pins(d), members)
      inherits == Cardinality(pinned) = 1 /\ a \notin DOMAIN bare
  IN  IF inherits THEN Placed(bare, a, Pins(d)[CHOOSE m \in pinned : TRUE]) ELSE bare

GroupedSpans(d, members) ==
  LET pinned == members \intersect DOMAIN Pins(d)
  IN  [b \in DOMAIN Spans(d) \union pinned |->
         IF b \in pinned THEN SizeOf(Pins(d)[b]) ELSE Spans(d)[b]]

\* Ungrouping first-fits the members, newest first; those deleted meanwhile come last.
Created(d, p) == IF p \in Shown(d) THEN made[p] ELSE 0

KeptSize(d, p) ==
  IF p \in DOMAIN Spans(d) THEN Spans(d)[p]
  ELSE IF p \in Shown(d) THEN DefaultSize(p) ELSE TextSize

Restored(d, members, pins) ==
  LET placed[S \in SUBSET members] ==
        IF S = {} THEN pins
        ELSE LET oldest == CHOOSE p \in S : \A q \in S : Created(d, p) <= Created(d, q)
                 before == placed[S \ {oldest}]
                 size == KeptSize(d, oldest)
             IN  IF Full(before) THEN before
                 ELSE IF Gaps(before, oldest, size) = {}
                 THEN Placed(before, oldest, At(size, 0, MaxRow + 1))
                 ELSE FirstFit(before, oldest, size)
  IN  placed[members]

SetAlbum(d, members, a, cut) ==
  LET w == Laid(wall[d], Grouped(d, members, a), GroupedSpans(d, members)) IN
  /\ Edit /\ members # {} /\ members \subseteq Shown(d) \intersect Photo
  /\ wall' = [wall EXCEPT ![d] =
       IF cut THEN w
       ELSE [w EXCEPT !.albums[a] = [at |-> edits + 1, members |-> members]]]
  /\ UNCHANGED made

Ungroup(d, a, cut) ==
  LET members == wall[d].albums[a].members
      pins == Restored(d, members, Without(Pins(d), {a}))
      w == Laid(wall[d], pins, Without(Spans(d), members \union {a}))
  IN  /\ Edit /\ wall[d].albums[a].at > 0 /\ ~Full(pins)
      /\ wall' = [wall EXCEPT ![d] =
           IF cut THEN w
           ELSE [w EXCEPT !.albums[a] = [at |-> edits + 1, members |-> {}]]]
      /\ UNCHANGED made
----------------------------------------------------------------------------
(***************************************************************************)
(* Rendering and migration.                                                *)
(***************************************************************************)
\* _fold_album_members(): the smallest album that claims a member has it.
Claims(d, p) == {a \in Album : p \in wall[d].albums[a].members}

AlbumOf(d, p) == {a \in Claims(d, p) : \A c \in Claims(d, p) : a <= c}

\* profile_view(): the deck of an album, and the posts that stand alone.
Deck(d, a) == {p \in Shown(d) \intersect Photo : AlbumOf(d, p) = {a}}

Standalone(d) == {p \in Shown(d) : AlbumOf(d, p) = {}}

Rendered(d) == Standalone(d) \union {a \in Album : Deck(d, a) # {}}

\* auto_place_unplaced(): what it takes for unplaced, and how old it takes it for.
LoosePosts(d) == {p \in Shown(d) : p \notin DOMAIN Pins(d) /\ Claims(d, p) = {}}

\* A plausible defect: membership counts, whichever album shows the photo.
DecksMember(d, a) == {p \in wall[d].albums[a].members : p \in Shown(d) \intersect Photo}

\* The members that this very album shows.
DeckedBy(d, a) ==
  {p \in wall[d].albums[a].members : AlbumOf(d, p) = {a} /\ p \in Shown(d) \intersect Photo}

LooseAlbums(d) == {a \in Album : a \notin DOMAIN Pins(d) /\ DeckedBy(d, a) # {}}

Loose(d) == LoosePosts(d) \union LooseAlbums(d)

Age(d, b) ==
  IF b \in Post THEN made[b]
  ELSE made[CHOOSE p \in DeckedBy(d, b) : \A q \in DeckedBy(d, b) : made[q] <= made[p]]

AutoPlaced(d) ==
  LET size(b) == IF b \in DOMAIN Spans(d) THEN Spans(d)[b] ELSE DefaultSize(b)
      placed[S \in SUBSET Loose(d)] ==
        IF S = {} THEN Pins(d)
        ELSE LET newest == CHOOSE b \in S : \A c \in S : Age(d, c) <= Age(d, b)
                 before == placed[S \ {newest}]
             IN  IF Full(before) THEN before
                 ELSE PushPlace(before, newest, At(size(newest), 0, 0))
  IN  placed[Loose(d)]

AutoPlace(d) ==
  /\ Edit /\ Loose(d) # {}
  /\ Publish(d, AutoPlaced(d), Without(Spans(d), Loose(d)))
  /\ UNCHANGED made
----------------------------------------------------------------------------
Later(r, s) == IF r.at < s.at THEN s ELSE r

\* A session between two devices of the identity.
Meet(d, e) ==
  LET w == [posts |-> wall[d].posts \union wall[e].posts,
            gone |-> wall[d].gone \union wall[e].gone,
            layout |-> Later(wall[e].layout, wall[d].layout),
            albums |-> [a \in Album |-> Later(wall[e].albums[a], wall[d].albums[a])]]
  IN  w # wall[e] /\ wall' = [wall EXCEPT ![e] = w] /\ UNCHANGED <<edits, made>>

WallNext ==
  \E d \in Desktop :
    \/ \E p \in Post : ComposeUnplaced(d, p) \/ \E s \in Sizes : Compose(d, p, s)
    \/ \E b \in Blocks(d) :
         \/ \E s \in Sizes, x \in 0..(Cols - 1), y \in 0..MaxRow :
              SetBlockPin(d, b, At(s, x, y))
         \/ UnpinBlock(d, b) \/ Restyle(d, b)
         \/ \E s \in Sizes : SetBlockSpan(d, b, s)
    \/ \E p \in Shown(d) : Delete(d, p)
    \/ \E a \in Album, cut \in BOOLEAN :
         Ungroup(d, a, cut) \/ \E members \in SUBSET Photo : SetAlbum(d, members, a, cut)
    \/ AutoPlace(d)
    \/ \E e \in Desktop : Meet(d, e)

WallSpec == WallInit /\ [][WallNext]_wallVars
----------------------------------------------------------------------------
WallTypeOK ==
  /\ edits \in 0..MaxEdits /\ made \in [Post -> 0..MaxEdits]
  /\ wall \in [Desktop -> WallOf]

\* Whatever was pushed, fitted, grouped, ungrouped or migrated, on whichever device, the
\* blocks of a layout lie on the canvas and no two of them overlap (node.py:979, 1007).
NoOverlap ==
  \A d \in Desktop : \A b \in DOMAIN Pins(d) :
    /\ Fits(Pins(d)[b])
    /\ \A c \in DOMAIN Pins(d) \ {b} : ~Overlap(Pins(d)[b], Pins(d)[c])

\* Every post is shown exactly once, alone or in the deck of one album, even when two
\* devices grouped it concurrently; and what the migration would place is exactly what
\* is rendered without a place, so that it neither forgets a block nor puts an
\* invisible one on the wall (node.py:1227).
WallIsWhole ==
  \A d \in Desktop :
    /\ \A p \in Shown(d) : Cardinality({a \in Album : p \in Deck(d, a)})
                             = IF p \in Standalone(d) THEN 0 ELSE 1
    /\ Loose(d) = Rendered(d) \ DOMAIN Pins(d)
=============================================================================
