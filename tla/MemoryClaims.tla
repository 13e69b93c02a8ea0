---------------------------- MODULE MemoryClaims ----------------------------
(***************************************************************************)
(* What the comments of the repository say of its user memory and the code *)
(* does not do: each of these properties is violated by Memory.            *)
(***************************************************************************)
EXTENDS Memory

(* What process p reads at va, nothing where it cannot read. *)
Content(p, va) == IF lookup_pa(p, va) = NULL THEN <<>> ELSE <<mem[lookup_pa(p, va)]>>

Touched(p, va) == Content(p, va)' # Content(p, va)

(***************************************************************************)
(* "Because implemented copy on write" (app_cow.c:3): the fault of a child *)
(* that stores to a shared page leaves it with a copy of that page.  The   *)
(* handler (strap.c:116-127) maps a new page and copies nothing.           *)
(***************************************************************************)
CowCopies ==
  [][\A p \in Proc, va \in Writable :
       lookup_pa(p, va) # NULL /\ StoreFault(p, va) => ~Touched(p, va)]_vars
=============================================================================
