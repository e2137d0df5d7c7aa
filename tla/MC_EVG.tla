------------------------------- MODULE MC_EVG -------------------------------
(* The EVG generator with the catalog configuration of evg.py (_EVG_CONFIGS) *)
(* and an EVGConfig naming a non-EVG device, which generate() must refuse.  *)
EXTENDS EVG

\* _EVG_CONFIGS[Device.VME_EVG_230], and the same counts for an EVR device.
MCConfigs ==
  EVGConfigs \cup
  { [device |-> "VME-EVR-230", front_panel_inputs |-> 2, front_panel_outputs |-> 4,
     universal_inputs |-> 4, universal_outputs |-> 4] }
(***************************************************************************)
(* Arguments of @ADDR(...)@ and @SFP_ADDR(...)@: every text of at most four *)
(* characters over digits, "x", "_", a blank and a comma.                   *)
(***************************************************************************)
ArgumentChars == {"0", "1", "x", "_", " ", ","}
MaxArgumentLength == 4
Arguments == UNION {[1..n -> ArgumentChars] : n \in 0..MaxArgumentLength}

\* Reference for int(s, 0): every literal over "0", "1", "x" and "_" of at
\* most four characters that Python 3 accepts, with its value.
PyLiteral ==
  (    <<"0">> :> 0
     @@ <<"1">> :> 1
     @@ <<"0","0">> :> 0
     @@ <<"1","0">> :> 10
     @@ <<"1","1">> :> 11
     @@ <<"0","0","0">> :> 0
     @@ <<"0","x","0">> :> 0
     @@ <<"0","x","1">> :> 1
     @@ <<"0","_","0">> :> 0
     @@ <<"1","0","0">> :> 100
     @@ <<"1","0","1">> :> 101
     @@ <<"1","1","0">> :> 110
     @@ <<"1","1","1">> :> 111
     @@ <<"1","_","0">> :> 10
     @@ <<"1","_","1">> :> 11
     @@ <<"0","0","0","0">> :> 0
     @@ <<"0","0","_","0">> :> 0
     @@ <<"0","x","0","0">> :> 0
     @@ <<"0","x","0","1">> :> 1
     @@ <<"0","x","1","0">> :> 16
     @@ <<"0","x","1","1">> :> 17
     @@ <<"0","x","_","0">> :> 0
     @@ <<"0","x","_","1">> :> 1
     @@ <<"0","_","0","0">> :> 0
     @@ <<"1","0","0","0">> :> 1000
     @@ <<"1","0","0","1">> :> 1001
     @@ <<"1","0","1","0">> :> 1010
     @@ <<"1","0","1","1">> :> 1011
     @@ <<"1","0","_","0">> :> 100
     @@ <<"1","0","_","1">> :> 101
     @@ <<"1","1","0","0">> :> 1100
     @@ <<"1","1","0","1">> :> 1101
     @@ <<"1","1","1","0">> :> 1110
     @@ <<"1","1","1","1">> :> 1111
     @@ <<"1","1","_","0">> :> 110
     @@ <<"1","1","_","1">> :> 111
     @@ <<"1","_","0","0">> :> 100
     @@ <<"1","_","0","1">> :> 101
     @@ <<"1","_","1","0">> :> 110
     @@ <<"1","_","1","1">> :> 111)

\* A literal with blanks around it, as one comma-separated piece of at most
\* `room` characters.
Padded(lit, room) ==
  {[i \in 1..b1 |-> " "] \o lit \o [i \in 1..b2 |-> " "] :
     b1 \in 0..(room - Len(lit)), b2 \in 0..(room - Len(lit))}

\* Reference for the functions: the arguments they accept, with the address
\* and the width each names; one literal is an address with width 4.
One(l) ==
  {[arg |-> p, value |-> PyLiteral[l], width |-> 4] : p \in Padded(l, MaxArgumentLength)}
Two(l, m) ==
  {[arg |-> p \o <<",">> \o q, value |-> PyLiteral[l], width |-> PyLiteral[m]] :
     p \in Padded(l, MaxArgumentLength - 1 - Len(m)),
     q \in Padded(m, MaxArgumentLength - 1 - Len(l))}
Accepted ==
  {e \in UNION {One(l) : l \in DOMAIN PyLiteral}
           \cup UNION {Two(l, m) : l, m \in {n \in DOMAIN PyLiteral : Len(n) < MaxArgumentLength - 1}} :
     Len(e.arg) <= MaxArgumentLength}

\* A rendered address: "0x" then lowercase hex digits, at least `width` of
\* them, and no zero padding beyond what the width asks for.
RenderedAt(s, width) ==
  /\ SubSeq(s, 1, 2) = "0x"
  /\ \A i \in 3..Len(s) : SubSeq(s, i, i) \in
       {"0", "1", "2", "3", "4", "5", "6", "7", "8", "9", "a", "b", "c", "d", "e", "f"}
  /\ Len(s) >= width + 2
  /\ Len(s) > Max({width + 2, 3}) => SubSeq(s, 3, 3) # "0"

(* Address composer (spec 4.2, render_address's docstring): when generate() *)
(* reaches sfp_module, _addr_in_template and the module's sfp_addr accept    *)
(* exactly one or two base-agnostic integer literals, blanks around them     *)
(* allowed, and render the address, offset by the address offset and for    *)
(* SFP_ADDR by the module's base, in lowercase hex with at least the        *)
(* requested width of digits, 4 by default; every other argument is a       *)
(* ValueError.                                                               *)
AddrArgumentsRendered ==
  At("sfp") =>
  \A arg \in Arguments :
    LET e == {x \in Accepted : x.arg = arg}
        addr == AddrInTemplate(arg)
        sfp == SfpAddr(SfpBaseAddress, arg)
    IN  IF e = {}
          THEN ~addr.ok /\ ~sfp.ok
          ELSE LET x == CHOOSE x \in e : TRUE
               IN  /\ addr.ok /\ RenderedAt(addr.val, x.width)
                   /\ AddressValue(addr.val) = AddressOffset + x.value
                   /\ sfp.ok /\ RenderedAt(sfp.val, x.width)
                   /\ AddressValue(sfp.val) = AddressOffset + SfpBaseAddress + x.value
=============================================================================
