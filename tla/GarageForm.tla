------------------------------ MODULE GarageForm ------------------------------
(***************************************************************************)
(* The two ways to add a vehicle in GarageWorkspace: manual details, with  *)
(* options loaded for what is typed, and a VIN, decoded and then saved.    *)
(* Both halves share the market.  Every request is awaited while the owner *)
(* types on; an effect's cleanup makes its answer void.                    *)
(*                                                                         *)
(* Year and make stand with the market: what each changes is the same.     *)
(* The list of vehicles and the specification panel are left out.          *)
(***************************************************************************)
EXTENDS FiniteSets, Naturals

CONSTANTS
  Markets,
  Models,
  Vins,       \* well-formed VINs
  MaxFlights, \* bound: requests awaited at a time
  Nil         \* null, ''

ASSUME FormAssumption == Markets # {} /\ Models # {}
ASSUME NilAssumption  == Nil \notin Vins

VARIABLES
  form,       \* market and model of the manual form
  options,    \* options.models, options.trims: what the rows were loaded for
  selection,  \* the details that were resolved
  vin,        \* the text of the VIN field
  decode,     \* the VIN and market that were decoded
  flights     \* requests awaited; active: the effect was not cleaned up

garageVars == <<form, options, selection, vin, decode, flights>>

Lists == {"models", "trims"}

Forms == [market: Markets, model: Models]

Decodes == [vin: Vins, market: Markets]

GarageTypeOK ==
  /\ form \in Forms
  /\ options \in [Lists -> Markets \cup Forms \cup {Nil}]
  /\ selection \in Forms \cup {Nil}
  /\ vin \in Vins \cup {Nil}
  /\ decode \in Decodes \cup {Nil}
  /\ flights \subseteq
       [do: Lists \cup {"resolve", "save", "decode", "save_vin"},
        of: Markets \cup Forms \cup Decodes, active: BOOLEAN]

Flight(do, of) == [do |-> do, of |-> of, active |-> TRUE]

(* What the rows of a list depend on. *)
Key(list, f) == IF list = "models" THEN f.market ELSE f

(* manualBusy, vinBusy: set when such a function starts, cleared by its    *)
(* finally.                                                                *)
ManualBusy == \E f \in flights : f.do \in {"resolve", "save"}
VinBusy    == \E f \in flights : f.do \in {"decode", "save_vin"}

GarageFormInit ==
  /\ form = CHOOSE f \in Forms : TRUE  \* US, Civic
  /\ options = [l \in Lists |-> Nil]
  /\ selection = Nil /\ vin = Nil /\ decode = Nil
  /\ flights = {Flight(l, Key(l, form)) : l \in Lists}

(* Requests alike to one awaited already are left out. *)
Send(f) ==
  /\ f \notin flights
  /\ Cardinality(flights) < MaxFlights
  /\ flights' = flights \cup {f}

-----------------------------------------------------------------------------
(* The form changes: the effects of the lists that depend on the change    *)
(* are cleaned up, empty their rows and ask again.                         *)
Reload(lists, new) ==
  LET cleaned == {IF f.do \in lists THEN [f EXCEPT !.active = FALSE] ELSE f : f \in flights} IN
  /\ form' = new
  /\ options' = [l \in Lists |-> IF l \in lists THEN Nil ELSE options[l]]
  /\ flights' = cleaned \cup {Flight(l, Key(l, new)) : l \in lists}
  /\ Cardinality(flights') <= MaxFlights

ChangeMarket(m) ==
  /\ m # form.market
  /\ Reload(Lists, [form EXCEPT !.market = m])
  /\ selection' = Nil
  /\ UNCHANGED <<vin, decode>>

(* In the VIN form: the selection stays. *)
ChangeVinMarket(m) ==
  /\ m # form.market
  /\ Reload(Lists, [form EXCEPT !.market = m])
  /\ decode' = Nil
  /\ UNCHANGED <<selection, vin>>

ChangeModel(m) ==
  /\ m # form.model
  /\ Reload({"trims"}, [form EXCEPT !.model = m])
  /\ selection' = Nil
  /\ UNCHANGED <<vin, decode>>

TypeVin(v) ==
  /\ vin' = v /\ decode' = Nil
  /\ UNCHANGED <<form, options, selection, flights>>

-----------------------------------------------------------------------------
(* if (active) *)
Wanted(f) == f.active

ReceiveRows(f) ==
  /\ f.do \in Lists
  /\ \E rows \in {f.of, Nil} :
       options' = IF Wanted(f) THEN [options EXCEPT ![f.do] = rows] ELSE options
  /\ flights' = flights \ {f}
  /\ UNCHANGED <<form, selection, vin, decode>>

ResolveManual ==
  /\ ~ManualBusy
  /\ selection' = Nil
  /\ Send(Flight("resolve", form))
  /\ UNCHANGED <<form, options, vin, decode>>

SaveManual ==
  /\ ~ManualBusy /\ selection # Nil
  /\ Send(Flight("save", selection))
  /\ UNCHANGED <<form, options, selection, vin, decode>>

DecodeVin ==
  /\ ~VinBusy /\ vin # Nil
  /\ decode' = Nil
  /\ Send(Flight("decode", [vin |-> vin, market |-> form.market]))
  /\ UNCHANGED <<form, options, selection, vin>>

(* What is sent is the text of the field and the market of the form. *)
SaveVin ==
  /\ ~VinBusy /\ decode # Nil
  /\ Send(Flight("save_vin", [vin |-> vin, market |-> form.market]))
  /\ UNCHANGED <<form, options, selection, vin, decode>>

(* Mutant: the field keeps what was typed since. *)
FieldAsTyped(f) == vin

(* setVin(normalized) *)
FieldAfter(f) == f.of.vin

(* The service answers, or the request fails. *)
ReceiveAnswer(f) ==
  /\ f.do \notin Lists
  /\ flights' = flights \ {f}
  /\ \/ f.do = "resolve" /\ selection' = f.of /\ UNCHANGED <<vin, decode>>
     \/ f.do = "decode" /\ vin' = FieldAfter(f) /\ decode' = f.of /\ UNCHANGED selection
     \/ UNCHANGED <<selection, vin, decode>>
  /\ UNCHANGED <<form, options>>

GarageFormNext ==
  \/ \E m \in Markets : ChangeMarket(m) \/ ChangeVinMarket(m)
  \/ \E m \in Models : ChangeModel(m)
  \/ \E v \in Vins \cup {Nil} : TypeVin(v)
  \/ ResolveManual \/ SaveManual \/ DecodeVin \/ SaveVin
  \/ \E f \in flights : ReceiveRows(f) \/ ReceiveAnswer(f)

GarageFormSpec == GarageFormInit /\ [][GarageFormNext]_garageVars
-----------------------------------------------------------------------------
(* The rows a list offers were loaded for what the form shows, however the *)
(* answers overtake each other and the typing.                             *)
OptionsMatchForm ==
  \A l \in Lists : options[l] # Nil => options[l] = Key(l, form)

(* "Add to garage" saves the VIN whose evidence the card shows, whatever   *)
(* was typed while it was decoded.  (Not so its market, which the manual   *)
(* form changes without clearing the card.)                                *)
DecodedVinIsSaved == decode # Nil => decode.vin = vin

(* What the two forms offer and save is what they show.                    *)
GarageFormIsCurrent == OptionsMatchForm /\ DecodedVinIsSaved
===============================================================================
