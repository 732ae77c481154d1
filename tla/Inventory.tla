------------------------------ MODULE Inventory ------------------------------
(***************************************************************************)
(* Stacks, inventories and recipes: the code that the server's handlers    *)
(* and the client's menus both run.  A player's main and crafting          *)
(* inventories are one function from slots to stacks; only the main one    *)
(* uses its selection.                                                     *)
(***************************************************************************)
EXTENDS Integers, SequencesExt

CONSTANTS
    Items, NoItem,
    Limit,        \* STACK_SIZE_LIMIT
    Width,        \* counts are u16: 0..Width-1
    MainSize,     \* stacks of the main inventory
    HudSize,      \* HUD_SLOT_COUNT: the stacks a selection rotates through
    CraftSide,    \* the crafting inventory is a square of this side
    Recipes       \* sequence of [inputs : sequence of items, output : stack]

ASSUME InventoryAssumption ==
    /\ NoItem \notin Items
    /\ {Limit, Width, MainSize, HudSize, CraftSide} \subseteq Nat \ {0}
    /\ Limit < Width

Empty == [item |-> NoItem, count |-> 0]
Stack == {Empty} \cup [item : Items, count : 1..(Width - 1)]
With(item, count) == IF count = 0 THEN Empty ELSE [item |-> item, count |-> count]

\* Recipes are square: "non-square inputs are not supposed to be passed" (isqrt).
\* The game parameters are read without a check of it.
ASSUME RecipesAssumption ==
    /\ Recipes \in Seq([inputs : Seq(Items \cup {NoItem}), output : Stack])
    /\ \A n \in DOMAIN Recipes :
          \E side \in 0..Len(Recipes[n].inputs) : side * side = Len(Recipes[n].inputs)

MainSlots == {"main"} \X (1..MainSize)
CraftSlots == {"craft"} \X (1..(CraftSide * CraftSide))
Slots == MainSlots \cup CraftSlots

\* A selection of 0 is None.
Inventories == [selection : 0..MainSize, stacks : [Slots -> Stack]]

-----------------------------------------------------------------------------
\* Stack::put: the stack afterwards and what did not fit.  What exceeds the
\* limit is cut to u16; an empty stack takes any count, also above the limit.
Put(stack, other, allowEmpty) ==
    LET wanted == stack.count + other.count
        exceeding == IF wanted > Limit THEN wanted - Limit ELSE 0
    IN IF stack = Empty /\ allowEmpty
         THEN [stack |-> other, rest |-> Empty]
       ELSE IF Empty \notin {stack, other} /\ stack.item = other.item
         THEN [stack |-> With(stack.item, wanted - exceeding),
               rest  |-> With(stack.item, exceeding % Width)]
       ELSE [stack |-> stack, rest |-> other]

TakeN(stack, n) ==
    LET left == IF stack.count > n THEN stack.count - n ELSE 0
    IN [stack |-> With(stack.item, left),
        taken |-> With(stack.item, stack.count - left)]

\* One turn of the loops of SelectableInventory::put.
Try(acc, idx, allowEmpty) ==
    LET p == Put(acc.stacks[<<"main", idx>>], acc.rest, allowEmpty)
    IN [stacks |-> [acc.stacks EXCEPT ![<<"main", idx>>] = p.stack],
        rest   |-> p.rest,
        last   |-> IF p.rest # acc.rest THEN idx ELSE acc.last]

Round(start, order, allowEmpty) ==
    FoldLeft(LAMBDA acc, idx : Try(acc, idx, allowEmpty), start, order)

\* The two loops: from the selection on, first onto the stacks there are, then into
\* the empty ones too.
Placed(inv, stack) ==
    LET first == IF inv.selection = 0 THEN 1 ELSE inv.selection
        order == [k \in 1..MainSize |-> ((first + k - 2) % MainSize) + 1]
        start == [stacks |-> inv.stacks, rest |-> stack, last |-> 0]
    IN Round(Round(start, order, FALSE), order, TRUE)

\* SelectableInventory::put, on the main inventory.  The callers drop what did not
\* fit.
Insert(inv, stack) ==
    LET placed == Placed(inv, stack)
    IN [selection |-> IF inv.selection = 0 THEN placed.last ELSE inv.selection,
        stacks    |-> [s \in DOMAIN inv.stacks |-> IF s \in MainSlots THEN placed.stacks[s]
                                                  ELSE inv.stacks[s]]]

Selected(inv) == IF inv.selection = 0 THEN Empty ELSE inv.stacks[<<"main", inv.selection>>]

TakeSelected(inv) ==
    [inv EXCEPT !.stacks[<<"main", inv.selection>>] = TakeN(@, 1).stack]

Rotate(inv, forwards) ==
    LET selection == IF inv.selection = 0 THEN 1 ELSE inv.selection
        count == IF MainSize < HudSize THEN MainSize ELSE HudSize
    IN [inv EXCEPT !.selection = IF forwards THEN (selection % count) + 1
                                 ELSE ((count + selection - 2) % count) + 1]

-----------------------------------------------------------------------------
\* Onto another stack as far as it fits, else the two change places.
MergeOrSwap(stacks, from, to) ==
    LET p == Put(stacks[to], stacks[from], FALSE)
    IN IF from = to THEN stacks
       ELSE IF p.rest # stacks[from]
         THEN [stacks EXCEPT ![to] = p.stack, ![from] = p.rest]
       ELSE [stacks EXCEPT ![to] = stacks[from], ![from] = p.stack]

\* Mutant: the residue is not put back.
MoveNDropsResidue(stacks, from, to, n) ==
    LET t == TakeN(stacks[from], n)
        less == [stacks EXCEPT ![from] = t.stack]
    IN [less EXCEPT ![to] = Put(less[to], t.taken, TRUE).stack]

\* The residue goes back onto the stack it was taken from, up to the limit.
MoveN(stacks, from, to, n) ==
    LET t == TakeN(stacks[from], n)
        less == [stacks EXCEPT ![from] = t.stack]
        p == Put(less[to], t.taken, TRUE)
        moved == [less EXCEPT ![to] = p.stack]
    IN [moved EXCEPT ![from] = Put(moved[from], p.rest, TRUE).stack]

MergeOrMove(inv, from, to, onlyMoveOne) ==
    [inv EXCEPT !.stacks = IF onlyMoveOne THEN MoveN(inv.stacks, from, to, 1)
                           ELSE MergeOrSwap(inv.stacks, from, to)]

-----------------------------------------------------------------------------
Side(inputs) == CHOOSE n \in 0..Len(inputs) : n * n = Len(inputs)

Cell(stacks, line, col) == stacks[<<"craft", line * CraftSide + col + 1>>].item

\* Mutant: cells outside the recipe are not looked at.
MatchesInside(recipe, stacks) ==
    LET r == Side(recipe.inputs)
    IN \E line, col \in 0..(CraftSide - r) : \A l, c \in 0..(r - 1) :
          Cell(stacks, line + l, col + c) = recipe.inputs[l * r + c + 1]

\* Some place of the recipe in the crafting square, with nothing around it.
Matches(recipe, stacks) ==
    LET r == Side(recipe.inputs)
        Wanted(l, c) == IF {l, c} \subseteq 0..(r - 1)
                          THEN recipe.inputs[l * r + c + 1] ELSE NoItem
    IN /\ r <= CraftSide
       /\ \E line, col \in 0..(CraftSide - r) : \A l, c \in 0..(CraftSide - 1) :
             Cell(stacks, l, c) = Wanted(l - line, c - col)

\* The index of the first recipe that matches, 0 if there is none.
MatchingRecipe(stacks) == SelectInSeq(Recipes, LAMBDA r : Matches(r, stacks))

Output(stacks) ==
    LET n == MatchingRecipe(stacks) IN IF n = 0 THEN Empty ELSE Recipes[n].output

\* The output goes to the main inventory, one item of each crafting stack is used.
CraftInto(inv, output) ==
    LET put == Insert(inv, output)
    IN [put EXCEPT !.stacks = [s \in Slots |-> IF s \in CraftSlots
                                 THEN TakeN(@[s], 1).stack ELSE @[s]]]

\* How many of an item there are in some of the slots.
Total(stacks, slots, item) ==
    MapThenSumSet(LAMBDA s : IF stacks[s].item = item THEN stacks[s].count ELSE 0, slots)
=============================================================================
