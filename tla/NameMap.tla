------------------------------ MODULE NameMap ------------------------------
(***************************************************************************)
(* What a directory promises the system calls: it maps names to inode      *)
(* numbers, a search finds what the map holds at one moment of the call,   *)
(* and creat, link and unlink change the entry of their own name and no    *)
(* other.  Directory, the model of the directory file, implements it.      *)
(***************************************************************************)
EXTENDS Naturals

CONSTANTS Proc, Name, Ino, Calls, NoCall, NoRes

VARIABLES
  names,  \* the inode number of each name, 0 if there is none
  op,     \* the call each process makes
  res     \* what the search that ends with this step found

vars == <<names, op, res>>

Init ==
  /\ names = [n \in Name |-> 0]
  /\ op = [p \in Proc |-> NoCall]
  /\ res = NoRes

\* a call begins
Call(p) == /\ \E c \in Calls : op' = [op EXCEPT ![p] = c]
           /\ UNCHANGED names /\ res' = NoRes

\* the call may return
MayReturn(p) == op' = op \/ op' = [op EXCEPT ![p] = NoCall]

Search(p) == /\ \E n \in Name \cap {op[p].name, op[p].new} :
                  res' = names[n]
             /\ MayReturn(p)
             /\ UNCHANGED names

\* the name that creat or link enters
Entered(p) == IF op[p].kind = "creat" THEN op[p].name ELSE op[p].new

Enter(p) == /\ op[p].kind \in {"creat", "link"}
            /\ names[Entered(p)] = 0
            /\ \E i \in Ino : names' = [names EXCEPT ![Entered(p)] = i]
            /\ MayReturn(p)
            /\ res' = NoRes

Remove(p) == /\ op[p].kind = "unlink"
             /\ names[op[p].name] # 0
             /\ names' = [names EXCEPT ![op[p].name] = 0]
             /\ MayReturn(p)
             /\ res' = NoRes

\* a step inside a call, or its end
Other == res' = NoRes /\ UNCHANGED names /\ \E p \in Proc : MayReturn(p)

Next == Other \/ \E p \in Proc : Call(p) \/ Search(p) \/ Enter(p) \/ Remove(p)

Spec == Init /\ [][Next]_vars
=============================================================================
