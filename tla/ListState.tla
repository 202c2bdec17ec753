----------------------------- MODULE ListState -----------------------------
(***************************************************************************)
(* The list element (crates/gpui/src/elements/list.rs).  Its view changes  *)
(* the items (splice, remeasure, reset), user and view scroll, and a       *)
(* layout measures what is in sight and corrects the position.  Items that *)
(* were not measured count with a hint or with nothing, so that positions  *)
(* between two layouts rest on heights that may be wrong.                  *)
(*                                                                         *)
(* Heights are small naturals, the list has no padding, and only items in  *)
(* sight and in the overdraw are measured (ListMeasuringBehavior::Visible).*)
(* Autoscroll, with which an item asks prepaint to lay out once more at    *)
(* another position, is left out, and so are an item out of sight that is  *)
(* laid out because it is focused, and the layout with which a list that   *)
(* infers its size asks for it (ListSizingBehavior::Infer).                *)
(***************************************************************************)
EXTENDS Integers, Sequences, FiniteSetsExt, SequencesExt

CONSTANTS
    Heights,   \* the heights an item may have
    View,      \* the height of the list
    Overdraw,  \* how far beyond the view, above and below, a layout measures
    MaxItems,  \* bound: items
    MaxScroll  \* bound: how far scroll_by goes past the known heights

ASSUME ListAssumption ==
    /\ Heights \subseteq Nat
    /\ View \in Nat \ {0}
    /\ {Overdraw, MaxItems, MaxScroll} \subseteq Nat

Align == {"top", "bottom"}
NoTop == <<>>  \* None

VARIABLES
    alignment,
    items,               \* known ("none", "hint" or "measured"), height
    logical_scroll_top,  \* NoTop or <<item_ix, offset_in_item>>, from 0
    pending_scroll,      \* NoTop or <<item_ix, offset, height>>; height 0: Absolute
    follow_state,        \* "normal", "following" or "stopped"
    list_reset,
    painted_top,         \* the position the wheel listener was painted with
    laid_out,            \* history: nothing happened since the last layout
    wanted               \* history: the item at the top, where it is now, and how
                         \* far into it; NoTop when that is up to the list

listVars == <<alignment, items, logical_scroll_top, pending_scroll, follow_state,
              list_reset, painted_top, laid_out, wanted>>

Count == Len(items)
\* The height of the items before ix, and of all.
Sums(s) ==
    LET sum[ix \in 0..Len(s)] == IF ix = 0 THEN 0 ELSE sum[ix - 1] + s[ix].height IN sum
Above(s, ix) == Sums(s)[Min({ix, Len(s)})]
SumOf(s) == Above(s, Len(s))
NewItems(n) == [i \in 1..n |-> [known |-> "none", height |-> 0]]

\* SumTree seeks: the items that end at or before, or before, height y.
SeekRight(y) == Max({ix \in 0..Count : ix = 0 \/ Above(items, ix) <= y})
SeekLeft(y) == Max({ix \in 0..Count : ix = 0 \/ Above(items, ix) < y})
OffsetAt(y) == <<SeekRight(y), y - Above(items, SeekRight(y))>>

\* StateInner::logical_scroll_top.
Top == IF logical_scroll_top # NoTop THEN logical_scroll_top
       ELSE IF alignment = "top" THEN <<0, 0>> ELSE <<Count, 0>>
scroll_top(top) == Above(items, top[1]) + top[2]
ScrollMax(height) == Max({0, height - View})

ItemAt(top) == IF top[1] < Count THEN top ELSE NoTop

ListInit ==
    /\ alignment \in Align
    /\ items = <<>> /\ logical_scroll_top = NoTop /\ pending_scroll = NoTop
    /\ follow_state = "normal" /\ list_reset = FALSE
    /\ painted_top = <<0, 0>> /\ laid_out = FALSE /\ wanted = NoTop

-----------------------------------------------------------------------------
StopFollowing == IF follow_state = "following" THEN "stopped" ELSE follow_state

\* Mutant of Rebased: what a remeasure had put aside stays as it was.
RebasedNot(top) == pending_scroll

\* rebase_pending_scroll.
Rebased(top) ==
    CASE pending_scroll = NoTop \/ top[1] >= Count -> NoTop
      [] pending_scroll # NoTop /\ top[1] < Count /\ pending_scroll[3] = 0 ->
            <<top[1], top[2], 0>>
      [] OTHER ->
            LET height == items[top[1] + 1].height
            IN IF height > 0 THEN <<top[1], Min({top[2], height}), height>> ELSE NoTop

\* A position is set: where the user, or the view, wants the list to be; in an
\* item that is to be scaled, roughly.
SetTop(top) ==
    /\ logical_scroll_top' = top
    /\ pending_scroll' = Rebased(top)
    /\ wanted' = IF pending_scroll' # NoTop /\ pending_scroll'[3] # 0 THEN NoTop ELSE ItemAt(top)
    /\ laid_out' = FALSE
    /\ UNCHANGED <<alignment, items, list_reset, painted_top>>

\* ... or left to the list.
SetEnd(top) ==
    /\ logical_scroll_top' = top
    /\ pending_scroll' = NoTop
    /\ wanted' = NoTop
    /\ laid_out' = FALSE
    /\ UNCHANGED <<alignment, items, list_reset, painted_top>>

\* StateInner::scroll, from the wheel listener of the last paint.
Wheel(delta) ==
    LET max == ScrollMax(SumOf(items))
        y == Min({Max({scroll_top(painted_top) - delta, 0}), max})
    IN /\ ~list_reset
       /\ IF alignment = "bottom" /\ y = max THEN SetEnd(NoTop) ELSE SetTop(OffsetAt(y))
       /\ follow_state' = IF delta > 0 THEN StopFollowing ELSE follow_state

scroll_by(distance) ==
    /\ scroll_top(Top) + distance <= MaxScroll
    /\ SetTop(OffsetAt(Max({scroll_top(Top) + distance, 0})))
    /\ follow_state' = IF distance < 0 THEN StopFollowing ELSE follow_state

scroll_to(ix, offset) ==
    /\ SetTop(IF ix >= Count THEN <<Count, 0>> ELSE <<ix, offset>>)
    /\ follow_state' = IF ix < Count THEN StopFollowing ELSE follow_state

scroll_to_reveal_item(ix) ==
    LET goal == Max({0, Above(items, ix + 1) - View})
        start == SeekLeft(goal)
    IN /\ ix < Count
       /\ SetTop(CASE ix <= Top[1] -> <<ix, 0>>
                   [] ix > Top[1] /\ start >= Top[1] -> <<start, goal - Above(items, start)>>
                   [] OTHER -> Top)
       /\ UNCHANGED follow_state

scroll_to_end ==
    /\ SetEnd(<<Count, 0>>)
    /\ UNCHANGED follow_state

\* set_follow_mode.
set_follow_mode(tail) ==
    /\ follow_state' = IF tail THEN "following" ELSE "normal"
    /\ logical_scroll_top' = IF tail THEN <<Count, 0>> ELSE logical_scroll_top
    /\ wanted' = IF tail THEN NoTop ELSE wanted
    /\ laid_out' = FALSE
    /\ UNCHANGED <<alignment, items, pending_scroll, list_reset, painted_top>>

\* set_offset_from_scrollbar; content is the height of the items now or when
\* the drag of the scrollbar began.
set_offset_from_scrollbar(point, content) ==
    LET max == ScrollMax(content)
        y == Min({point, max})
        to_end == max > 0 /\ y >= max - 1 /\ follow_state # "normal"
    IN IF to_end THEN SetEnd(<<Count, 0>>) /\ follow_state' = "following"
       ELSE /\ follow_state' = StopFollowing
            /\ IF alignment = "bottom" /\ y = max THEN SetEnd(NoTop) ELSE SetTop(OffsetAt(y))

-----------------------------------------------------------------------------
\* The position after items a up to b were replaced by n others.
Spliced(top, a, b, n) ==
    CASE top = NoTop -> top
      [] top # NoTop /\ a <= top[1] /\ top[1] < b -> <<a, 0>>
      [] top # NoTop /\ b <= top[1] -> <<top[1] - (b - a) + n, top[2]>>
      [] OTHER -> top

\* The item at ix in the new items, if it is still there.
Kept(top, a, b, n) ==
    CASE top = NoTop \/ (top # NoTop /\ top[1] \in a..(b - 1)) -> NoTop
      [] top # NoTop /\ top[1] < a -> top
      [] OTHER -> <<top[1] + n - (b - a), top[2]>>

\* splice and splice_focusable.  What is pending is not moved, and may be used
\* for another item.
splice(a, b, n) ==
    /\ a <= b /\ b <= Count /\ Count - (b - a) + n <= MaxItems
    /\ items' = SubSeq(items, 1, a) \o NewItems(n) \o SubSeq(items, b + 1, Count)
    /\ logical_scroll_top' = Spliced(logical_scroll_top, a, b, n)
    /\ wanted' = IF pending_scroll = NoTop THEN Kept(wanted, a, b, n) ELSE NoTop
    /\ laid_out' = FALSE
    /\ UNCHANGED <<alignment, pending_scroll, follow_state, list_reset, painted_top>>

reset(n) ==
    /\ n <= MaxItems
    /\ list_reset' = TRUE
    /\ logical_scroll_top' = NoTop /\ pending_scroll' = NoTop
    /\ items' = NewItems(n)
    /\ wanted' = NoTop
    /\ laid_out' = FALSE
    /\ UNCHANGED <<alignment, follow_state, painted_top>>

Hinted(item) == [item EXCEPT !.known = IF @ = "measured" THEN "hint" ELSE @]

\* remeasure_items, which keeps the offset, and remeasure, which keeps the
\* fraction of the item at the top.
RemeasuredScroll(a, b, proportional) ==
    LET top == logical_scroll_top
        item == items[top[1] + 1]
    IN CASE top = NoTop -> pending_scroll
         [] top # NoTop /\ ~(a <= top[1] /\ top[1] < b) -> pending_scroll
         [] ~proportional /\ top # NoTop /\ a <= top[1] /\ top[1] < b -> <<top[1], top[2], 0>>
         [] OTHER -> IF item.known # "measured" THEN pending_scroll
                     ELSE <<top[1], Min({top[2], item.height}), Max({item.height, 1})>>

remeasure_items(a, b, proportional) ==
    /\ a < b /\ b <= Count
    /\ pending_scroll' = RemeasuredScroll(a, b, proportional)
    /\ items' = [i \in 1..Count |-> IF a < i /\ i <= b THEN Hinted(items[i]) ELSE items[i]]
    /\ wanted' = IF proportional THEN NoTop ELSE wanted
    /\ laid_out' = FALSE
    /\ UNCHANGED <<alignment, logical_scroll_top, follow_state, list_reset, painted_top>>

-----------------------------------------------------------------------------
\* Mutant of Underfull: how far into the first item the list is does not count.
Underfull0(height, offset) == height < View

\* The items below the position do not fill the list.
Underfull(height, offset) == height - offset < View

\* The check that resumes following.
AtEnd(s, top) == Above(s, top[1]) + top[2] + View >= SumOf(s) - 1

\* layout_items, over items with their true heights in s, from position top:
\* the offset after a pending scroll, the items measured below, the position
\* when the list is filled from above, and the first item measured above it.
Offset(s, top) ==
    IF top[1] >= Len(s) \/ pending_scroll = NoTop \/ pending_scroll[1] # top[1] THEN top[2]
    ELSE LET height == s[top[1] + 1].height
         IN IF pending_scroll[3] = 0 THEN Min({pending_scroll[2], height})
            ELSE (pending_scroll[2] * height) \div pending_scroll[3]
Below(s, ix, last) == Above(s, last) - Above(s, ix)
LastMeasured(s, ix, offset) ==
    Min({m \in ix..Len(s) : m = Len(s) \/ Below(s, ix, m) - offset >= View + Overdraw})
FilledFrom(s, ix, last) ==
    Max({p \in 0..ix : p = 0 \/ Below(s, p, last) >= View})
FirstMeasured(s, ix, offset) ==
    Max({p \in 0..ix : p = 0 \/ offset + Below(s, p, ix) >= Overdraw})

\* List::prepaint: a list of another width has forgotten all heights.  What is
\* rendered has the height measured, or any if it is to be measured.
LayoutItems(s, other_width) ==
    LET start == IF follow_state = "following" THEN <<Count, 0>> ELSE Top
        offset == Offset(s, start)
        pending == start[1] < Count /\ pending_scroll # NoTop
        last == LastMeasured(s, start[1], offset)
        height == Below(s, start[1], last)
        short == Underfull(height, offset)
        from == FilledFrom(s, start[1], last)
        over == Below(s, from, last) - View
        top == IF ~short THEN <<start[1], offset>>
               ELSE IF alignment = "top" THEN <<from, Max({over, 0})>> ELSE <<from, over>>
        first == FirstMeasured(s, top[1], top[2])
        measured == [i \in 1..Count |->
                        IF first < i /\ i <= last THEN s[i]
                        ELSE IF other_width THEN [items[i] EXCEPT !.known = "none", !.height = 0]
                        ELSE items[i]]
    IN /\ DOMAIN s = 1..Count
       /\ items' = measured
       /\ list_reset' = FALSE
       /\ pending_scroll' = IF pending THEN NoTop ELSE pending_scroll
       /\ logical_scroll_top' =
              IF short THEN IF alignment = "top" THEN top ELSE NoTop
              ELSE IF follow_state = "following" \/ offset # start[2] THEN top
              ELSE logical_scroll_top
       /\ follow_state' = IF follow_state = "stopped" /\ AtEnd(measured, top)
                          THEN "following" ELSE follow_state
       /\ painted_top' = top
       /\ laid_out' = TRUE
       /\ wanted' = IF logical_scroll_top' # NoTop /\ top[1] < Count /\ pending_scroll' = NoTop
                    THEN top ELSE NoTop
       /\ UNCHANGED alignment

\* The heights a layout may find.
TrueItems(other_width) ==
    {s \in [1..Count -> [known : {"measured"}, height : Heights]] :
        \A i \in 1..Count : items[i].known = "measured" /\ ~other_width => s[i] = items[i]}

ListNext ==
    \/ \E delta \in {-2, 1, 2} : Wheel(delta) \/ scroll_by(delta)
    \/ \E ix \in 0..MaxItems : scroll_to_reveal_item(ix) \/ \E o \in 0..1 : scroll_to(ix, o)
    \/ scroll_to_end
    \/ \E tail \in BOOLEAN : set_follow_mode(tail)
    \/ \E y \in 0..MaxScroll, content \in {SumOf(items), View + 1} :
          set_offset_from_scrollbar(y, content)
    \/ \E a, b, n \in 0..MaxItems : splice(a, b, n)
    \/ \E n \in 0..MaxItems : reset(n)
    \/ \E a, b \in 0..MaxItems : remeasure_items(a, b, FALSE)
    \/ remeasure_items(0, Count, TRUE)
    \/ \E other_width \in BOOLEAN : \E s \in TrueItems(other_width) : LayoutItems(s, other_width)

ListSpec == ListInit /\ [][ListNext]_listVars

-----------------------------------------------------------------------------
\* The items from the position that is shown to the last one were measured, so
\* that their heights are what they are, and this much of them is below the
\* top of the view.
MeasuredTo(last) == \A i \in (painted_top[1] + 1)..last : items[i].known = "measured"
Shown(last) == Above(items, last) - scroll_top(painted_top)

\* After a layout the list shows no gap: measured items fill the view from its
\* top down, or all items are in it; however the items shrank, were removed,
\* or turned out smaller than their hints, and wherever the position was put.
NoGap ==
    laid_out =>
        \/ painted_top[2] >= 0
           /\ \E last \in painted_top[1]..Count : MeasuredTo(last) /\ Shown(last) >= View
        \/ painted_top[1] = 0 /\ painted_top[2] <= 0 /\ MeasuredTo(Count)

\* "Whether the list is currently actively following the tail (snapping to the
\* end on each layout)": a list that follows after a layout shows the end,
\* within a pixel; following is not resumed in the middle because items below
\* were not measured, which count with a hint or with nothing.
FollowsTheEnd ==
    laid_out /\ follow_state = "following" => MeasuredTo(Count) /\ Shown(Count) <= View + 1

\* What a layout leaves: a filled list, at its end if it follows.
LayoutSettles == NoGap /\ FollowsTheEnd

\* "The user's scroll supersedes the position stashed by a remeasure": the
\* item that was at the top, as long as it is in the list, is still there
\* after a layout, as far into it as it was or, when it shrank, at its end,
\* unless the list had to be filled; also when other items were replaced or
\* remeasured before it (but not when both happened: a splice leaves what a
\* remeasure put aside).
TopIsKept ==
    [][laid_out' /\ wanted # NoTop /\ wanted' # NoTop /\ follow_state # "following"
          => \/ /\ wanted'[1] = wanted[1] /\ wanted'[2] <= wanted[2]
                /\ wanted'[2] \in {wanted[2], items'[wanted'[1] + 1].height}
             \/ SumOf(items') - Above(items', logical_scroll_top'[1]) - logical_scroll_top'[2]
                   <= View]_listVars

=============================================================================
