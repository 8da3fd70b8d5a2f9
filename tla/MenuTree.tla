------------------------------ MODULE MenuTree ------------------------------
(***************************************************************************)
(* How the stored menus become a tree and a profile's menus: ListMenus and *)
(* buildMenuTree, which both stores have, with the loop that attaches menu *)
(* after menu; menusForPermissions, with one step for each list of menus   *)
(* its walk returns; and menuTreeContainsDescendant.                       *)
(*                                                                         *)
(* A tree is flat: for each menu the list of the menus below it, under 0   *)
(* the list of the roots.  A menu is in the list of one parent at most, so *)
(* its ID stands for its copy there.  A list whose order is not used until *)
(* it is sorted is the set of its members.                                 *)
(***************************************************************************)
EXTENDS MenuData, Sequences, SequencesExt

CONSTANTS
  Inputs,  \* the stored menus to be listed
  Grants   \* the permission codes a profile may have

VARIABLES
  rows,         \* the stored menus by ID
  order,        \* their IDs in the order ListMenus passes them on
  handled,      \* how many of them the loop has handled
  children,     \* the Children of each menu in nodes
  copied,       \* the Children of its copy in its parent's list
  tree,         \* what ListMenus returned
  permissions,  \* the permission codes of the profile
  kept,         \* by menu, 0 for the roots: what walk has returned for its list
  stage         \* what was computed so far

treeVars == <<rows, order, handled, children, copied, tree, permissions, kept, stage>>

(* A stored menu; layout: whether its component is "Layout". *)
Row == [parent : Nat, sort : Int, hidden : BOOLEAN, layout : BOOLEAN,
        permission : STRING]

ASSUME MenuTreeAssumption ==
  \A input \in Inputs :
    /\ IsFiniteSet(DOMAIN input) /\ DOMAIN input \subseteq Nat \ {0}
    /\ input \in [DOMAIN input -> Row]

Stages == {"stored", "attaching", "listed", "walking", "shown"}

----------------------------------------------------------------------------
(* Building and sorting *)

Before(a, b) ==
  \/ rows[a].sort < rows[b].sort
  \/ rows[a].sort = rows[b].sort /\ a < b

SortMenus(items) ==
  CHOOSE sorted \in SetToSeqs(items) :
    \A i, j \in DOMAIN sorted : i < j => Before(sorted[i], sorted[j])

(* The rows by sort; the in-memory store leaves the order of equals open, *)
(* the SQL store takes the smaller ID first.                              *)
Orders ==
  {o \in SetToSeqs(DOMAIN rows) :
     \A i, j \in DOMAIN o : i < j => rows[o[i]].sort <= rows[o[j]].sort}

Roots == {id \in DOMAIN rows : rows[id].parent \notin DOMAIN rows}

TreeInit ==
  /\ rows \in Inputs
  /\ order = <<>> /\ handled = 0
  /\ children = [id \in DOMAIN rows |-> {}] /\ copied = children
  /\ tree = [id \in DOMAIN rows \cup {0} |-> <<>>]
  /\ permissions = {} /\ kept = [id \in {} |-> {}]
  /\ stage = "stored"

ListMenus ==
  /\ stage = "stored"
  /\ order' \in Orders
  /\ stage' = "attaching"
  /\ UNCHANGED <<rows, handled, children, copied, tree, permissions, kept>>

(* A menu is appended to its parent's list as it is at that moment: with the *)
(* children it was given before, without those that come later.              *)
Attach ==
  /\ stage = "attaching" /\ handled < Len(order)
  /\ LET id == order[handled + 1]
         parent == rows[id].parent
     IN  IF parent \in DOMAIN rows
         THEN /\ children' = [children EXCEPT ![parent] = @ \cup {id}]
              /\ copied' = [copied EXCEPT ![id] = children[id]]
         ELSE UNCHANGED <<children, copied>>
  /\ handled' = handled + 1
  /\ UNCHANGED <<rows, order, tree, permissions, kept, stage>>

(* Faulty variant of Placed: the roots are copied before anything is attached. *)
PlacedRootsFirst(id) == IF id = 0 THEN Roots ELSE copied[id]

(* The roots are copied into the result once all menus are attached. *)
Placed(id) ==
  CASE id = 0 -> Roots
    [] id \in Roots -> children[id]
    [] OTHER -> copied[id]

SortTree ==
  /\ stage = "attaching" /\ handled = Len(order)
  /\ tree' = [id \in DOMAIN rows \cup {0} |-> SortMenus(Placed(id))]
  /\ stage' = "listed"
  /\ UNCHANGED <<rows, order, handled, children, copied, permissions, kept>>

----------------------------------------------------------------------------
(* Looking into a tree *)

Lists == [id \in DOMAIN tree |-> ToSet(tree[id])]

(* What a walk down the lists from the list of a menu finds. *)
Below(lists, id) ==
  {x \in DOMAIN lists : \A S \in SUBSET DOMAIN lists :
     lists[id] \subseteq S /\ (\A y \in S : lists[y] \subseteq S) => x \in S}

Listed == Below(Lists, 0)

(* Faulty variant of MenuTreeContainsDescendant: the menu counts as below  *)
(* every menu that lies above it or beside it.                             *)
MenuTreeContainsBoth(rootID, candidateID) ==
  {rootID, candidateID} \subseteq Listed

MenuTreeContainsDescendant(rootID, candidateID) ==
  /\ rootID # 0 /\ candidateID # 0
  /\ rootID \in Listed
  /\ candidateID \in Below(Lists, rootID)

----------------------------------------------------------------------------
(* Filtering for a profile *)

MenuAllowed(permission) ==
  permission = "" \/ permissions \cap {"*", permission} # {}

(* A layout without a permission is shown only for what lies below it. *)
SelfAllowed(id) ==
  /\ MenuAllowed(rows[id].permission)
  /\ rows[id].permission # "" \/ ~rows[id].layout

Profile ==
  /\ stage = "listed"
  /\ permissions' \in Grants
  /\ stage' = "walking"
  /\ UNCHANGED <<rows, order, handled, children, copied, tree, kept>>

(* Faulty variant of Staying: a menu that is not allowed itself is dropped *)
(* with all that lies below it.                                            *)
StayingPruned(id) == {x \in Lists[id] : ~rows[x].hidden /\ SelfAllowed(x)}

Staying(id) ==
  {x \in Lists[id] : ~rows[x].hidden /\ (SelfAllowed(x) \/ kept[x] # {})}

(* walk returns for a list when it has returned for the lists of the menus on *)
(* it that are not hidden; the order among these makes no difference, nor     *)
(* would what it returned below a hidden menu, where it is never called.      *)
Walk(id) ==
  /\ stage = "walking"
  /\ id # 0 => id \in Listed /\ ~rows[id].hidden
  /\ id \notin DOMAIN kept
  /\ \A x \in Lists[id] : rows[x].hidden \/ x \in DOMAIN kept
  /\ kept' = Put(kept, id, Staying(id))
  /\ stage' = IF id = 0 THEN "shown" ELSE "walking"
  /\ UNCHANGED <<rows, order, handled, children, copied, tree, permissions>>

Answered == stage = "shown" /\ UNCHANGED treeVars

TreeNext ==
  \/ ListMenus \/ Attach \/ SortTree
  \/ Profile \/ (\E id \in DOMAIN rows \cup {0} : Walk(id))
  \/ Answered

TreeSpec == TreeInit /\ [][TreeNext]_treeVars

----------------------------------------------------------------------------
(* Properties *)

Built == stage \in {"listed", "walking", "shown"}

(* No menu is in the tree twice, for it is in no list but its parent's. *)
TreeFollowsParents ==
  \A id \in Listed \cup {0} :
    /\ \A x \in Lists[id] : IF id = 0 THEN x \in Roots ELSE rows[x].parent = id
    /\ \A i, j \in DOMAIN tree[id] : i # j => tree[id][i] # tree[id][j]

SiblingsSorted ==
  \A id \in Listed \cup {0} : \A i, j \in DOMAIN tree[id] :
    i < j => Before(tree[id][i], tree[id][j])

TwoLevelsListed ==
  \A id \in DOMAIN rows :
    id \in Roots \/ rows[id].parent \in Roots => id \in Listed

ListedBefore(x, id) ==
  \E i, j \in DOMAIN order : i < j /\ order[i] = x /\ order[j] = id

ChildrenListed ==
  \A id \in Listed :
    Lists[id] = {x \in DOMAIN rows :
                   rows[x].parent = id /\ (id \in Roots \/ ListedBefore(x, id))}

(* Although children are copied into their parents in the order of the list,  *)
(* which leaves equals open, what lies below a menu in the tree has it as its *)
(* parent, no menu is in the tree twice, menus side by side are sorted by     *)
(* sort, then ID, on every level, and two levels are complete: a menu with no *)
(* stored parent, and a menu whose parent has none, are always in the tree.   *)
(* Further down a menu loses those of its children that are listed after it.  *)
TreeMatchesRows ==
  Built => TreeFollowsParents /\ SiblingsSorted /\ TwoLevelsListed /\ ChildrenListed

(* UpdateMenu's look into the listed tree refuses a new parent only if it     *)
(* does lie below the menu, and always if it is a child of a menu without     *)
(* parent: the outcomes MenuStore and SqlMenu allow for it.                   *)
TreeCheckSound ==
  stage = "listed" =>
    \A id, parent \in DOMAIN rows : id # parent =>
      LET found == MenuTreeContainsDescendant(id, parent) IN
      /\ found => id \in Chain(rows, parent)
      /\ rows[parent].parent = id /\ id \in Roots => found

(* What a profile shows are the chains that lead down to an allowed menu of   *)
(* the tree without passing a hidden one: nothing more, and nothing less.     *)
Shown == Below(kept, 0)
Reachable(ids) ==
  {id \in ids : SelfAllowed(id) /\ \A x \in Chain(rows, id) : ~rows[x].hidden}
ProfileShowsAllowed ==
  stage = "shown" =>
    Shown = UNION {Chain(rows, id) : id \in Reachable(Listed)}

(* The profile's menu tree holds every menu the user's permissions allow.     *)
AllowedMenusShown ==
  stage = "shown" => Reachable(DOMAIN rows) \subseteq Shown
============================================================================
