---------------------------- MODULE FragmentLink ----------------------------
(***************************************************************************)
(* A Fragmenter, a network that loses, duplicates and reorders datagrams,  *)
(* and a FragmentAssembly.  The MTU changes between calls, as it does when *)
(* the session roams from IPv4 to IPv6 (fragment_mtu).  Strays are         *)
(* fragments that no make_fragments call produced.                         *)
(***************************************************************************)
EXTENDS Fragment

CONSTANTS
  Mtus,     \* budgets a call may be given, header included
  Strays,   \* fragments of a sender that does not follow the rules
  MaxId     \* bound on the fragment ids used

\* Strays have ids of their own: one under an id in use may of course spoil its
\* assembly.
ASSUME FragmentLinkAssumption ==
  /\ Mtus \subseteq Nat /\ MaxId \in Nat
  /\ \A s \in Strays :
       s \in [id : Nat \ (1 .. MaxId), fragment_num : Nat, final : BOOLEAN,
              contents : {s.contents}]

VARIABLES
  fragmenter,
  assembly,
  sent,       \* every fragment put on the wire
  meaning     \* history: fragment id -> [inst, mtu] it was used for

fragmentVars == << fragmenter, assembly, sent, meaning >>

FragmentInit ==
  /\ fragmenter = FragmenterInit
  /\ assembly = EmptyAssembly
  /\ sent = {}
  /\ meaning = << >>

\* make_fragments: MtuTooSmall returns before anything changes; IndexTooLarge
\* returns after the id, header and MTU were recorded.
make_fragments(inst, mtu) ==
  LET budget == mtu - FRAG_HEADER_LEN
      after  == Bumped(fragmenter, inst, budget)
      id     == after.next_instruction_id
  IN  /\ budget > 0
      /\ id <= MaxId
      /\ fragmenter' = after
      /\ sent' = IF Fits(inst, mtu)
                   THEN sent \cup ToSet(Pieces(id, inst, budget)) ELSE sent
      /\ meaning' = [i \in DOMAIN meaning \cup {id} |->
                       IF i = id THEN [inst |-> inst, mtu |-> mtu] ELSE meaning[i]]
      /\ UNCHANGED assembly

Receive(frag) ==
  /\ assembly' = add_fragment(assembly, frag).asm
  /\ UNCHANGED << fragmenter, sent, meaning >>

FragmentNext ==
  \/ \E inst \in Instructions, mtu \in Mtus : make_fragments(inst, mtu)
  \/ \E frag \in sent : Receive(frag)
  \/ \E frag \in Strays : Receive(frag)

FragmentSpec == FragmentInit /\ [][FragmentNext]_fragmentVars

-----------------------------------------------------------------------------
(* Correctness of the pair. *)

\* An assembly after a run of fragments, and the instruction that it has handed
\* up somewhere along it, NoInstruction if none.
Feed(asm, frags) ==
  LET after[i \in 0 .. Len(frags)] ==
        IF i = 0 THEN [asm |-> asm, inst |-> NoInstruction]
        ELSE LET r == add_fragment(after[i - 1].asm, frags[i])
             IN  [asm |-> r.asm,
                  inst |-> IF r.inst # NoInstruction THEN r.inst ELSE after[i - 1].inst]
  IN  after[Len(frags)]

\* What the assembly accepts: both limits.
Deliverable(inst) == PayloadLen[inst] <= ASSEMBLY_LIMIT /\ Inflates(inst)

\* AssembledAsSent: whatever mixture of late, duplicated and reordered
\* fragments came before, a fragment that completes an assembly yields the
\* instruction its id was given to, never a mixture of two that fails to
\* inflate; and nothing if that instruction is over one of the limits, however
\* often it is completed again.
AssembledAsSent ==
  \A f \in sent :
    LET next == Totalled(Placed(assembly, f), f)
        inst == meaning[f.id].inst
    IN  next.fragments_arrived = next.fragments_total
          => add_fragment(assembly, f).inst = IF Deliverable(inst) THEN inst ELSE NoInstruction

\* NeverWedged: from every reachable assembly, receiving the pieces of any
\* instruction sent that is within the limits, in whichever order, hands that
\* instruction up.  (One that inflates past DECOMPRESS_LIMIT is refused on every
\* delivery, and take_assembly leaves its pieces where they are.)
NeverWedged ==
  \A id \in DOMAIN meaning :
    LET m  == meaning[id]
        ps == Pieces(id, m.inst, m.mtu - FRAG_HEADER_LEN)
    IN  Fits(m.inst, m.mtu) /\ Deliverable(m.inst) =>
          \A order \in SetToSeqs(ToSet(ps)) : Feed(assembly, order).inst = m.inst

\* ArrivedIsCount: fragments_arrived counts the filled slots, also after a
\* final fragment truncated some that were counted, whoever sends.
ArrivedIsCount == assembly.fragments_arrived = Arrived(assembly.fragments)

\* FreshIdRecovers: whatever an ill-behaved sender left behind (a hole, a bad
\* total, bytes already counted by an assembly that would not inflate or that
\* inflates past the limit), the pieces of an instruction within the limits are
\* assembled under a new id.
FreshIdRecovers ==
  \A inst \in Instructions, mtu \in Mtus :
    \A id \in (1 .. MaxId + 1) \ {assembly.current_id} :
      Fits(inst, mtu) /\ Deliverable(inst) =>
        Feed(assembly, Pieces(id, inst, mtu - FRAG_HEADER_LEN)).inst = inst
=============================================================================
