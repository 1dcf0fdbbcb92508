---------------------------- MODULE WebClientProofs ----------------------------
(***************************************************************************)
(* What holds of the garage form, the sign-in gate and the repair pages,   *)
(* for any markets, models, VINs, users, repairs, devices and numbers of   *)
(* requests awaited at a time: answers may come in any order, at any time, *)
(* or never.                                                               *)
(***************************************************************************)
EXTENDS RepairWorkspaces, RepairSessionProofs, GarageForm, AccountGate, FiniteSetTheorems, TLAPS

-----------------------------------------------------------------------------
(* The garage form *)

(* A request for a list whose effect was not cleaned up asks for what the  *)
(* form shows; the others carry what they were made of.                    *)
FlightsAreCurrent ==
  \A f \in flights :
    /\ f.do \in Lists /\ f.active => f.of = Key(f.do, form)
    /\ f.do \in {"resolve", "save"} => f.of \in Forms
    /\ f.do \in {"decode", "save_vin"} => f.of \in Decodes
    /\ f.do \in Lists => f.of \in Markets \cup Forms

GarageInv ==
  GarageTypeOK /\ FlightsAreCurrent /\ OptionsMatchForm /\ DecodedVinIsSaved

LEMMA KeysAreTyped ==
  ASSUME NEW f \in Forms, NEW l \in Lists
  PROVE  Key(l, f) \in Markets \cup Forms
BY DEF Key, Forms

LEMMA GarageInitIsGood == GarageFormInit => GarageInv
<1> SUFFICES ASSUME GarageFormInit PROVE GarageInv
  OBVIOUS
<1>1. form \in Forms
  <2>1. PICK m \in Markets, n \in Models : TRUE
    BY FormAssumption
  <2>2. [market |-> m, model |-> n] \in Forms
    BY DEF Forms
  <2>3. QED
    BY <2>2 DEF GarageFormInit
<1>2. \A f \in flights : \E l \in Lists :
        f = [do |-> l, of |-> Key(l, form), active |-> TRUE]
  BY DEF GarageFormInit, Flight
<1>3. GarageTypeOK
  <2>1. ASSUME NEW f \in flights
        PROVE  f \in [do: Lists \cup {"resolve", "save", "decode", "save_vin"},
                     of: Markets \cup Forms \cup Decodes, active: BOOLEAN]
    <3>1. PICK l \in Lists : f = [do |-> l, of |-> Key(l, form), active |-> TRUE]
      BY <1>2
    <3>2. Key(l, form) \in Markets \cup Forms
      BY <1>1, KeysAreTyped
    <3>3. QED
      BY <3>1, <3>2
  <2>2. QED
    BY <1>1, <2>1 DEF GarageFormInit, GarageTypeOK
<1>4. FlightsAreCurrent
  BY <1>1, <1>2, KeysAreTyped DEF FlightsAreCurrent, Lists
<1>5. OptionsMatchForm /\ DecodedVinIsSaved
  BY DEF GarageFormInit, OptionsMatchForm, DecodedVinIsSaved
<1>6. QED
  BY <1>3, <1>4, <1>5 DEF GarageInv

(* Whatever the change of the form, when the lists that depend on it are   *)
(* asked for again, what is left awaited is what it shows.                 *)
LEMMA ReloadKeeps ==
  ASSUME GarageInv, NEW lists \in SUBSET Lists, NEW new \in Forms,
         Reload(lists, new),
         \A l \in Lists \ lists : Key(l, new) = Key(l, form)
  PROVE  /\ form' \in Forms
         /\ options' \in [Lists -> Markets \cup Forms \cup {Nil}]
         /\ flights' \subseteq
              [do: Lists \cup {"resolve", "save", "decode", "save_vin"},
               of: Markets \cup Forms \cup Decodes, active: BOOLEAN]
         /\ FlightsAreCurrent' /\ OptionsMatchForm'
<1> DEFINE Shape == [do: Lists \cup {"resolve", "save", "decode", "save_vin"},
                     of: Markets \cup Forms \cup Decodes, active: BOOLEAN]
           Left(f) == IF f.do \in lists THEN [f EXCEPT !.active = FALSE] ELSE f
<1>1. form' = new /\ options' = [l \in Lists |-> IF l \in lists THEN Nil ELSE options[l]]
  BY DEF Reload
<1>2. options' \in [Lists -> Markets \cup Forms \cup {Nil}]
  BY <1>1 DEF GarageInv, GarageTypeOK
<1>3. OptionsMatchForm'
  BY <1>1 DEF OptionsMatchForm, GarageInv
<1>4. flights' = {Left(f) : f \in flights} \cup {Flight(l, Key(l, new)) : l \in lists}
  BY DEF Reload
<1>5. ASSUME NEW g \in flights'
      PROVE  \/ /\ g \in flights /\ g.do \notin lists
             \/ /\ g \in Shape /\ g.active = FALSE
                /\ \E f \in flights : g.do = f.do /\ g.of = f.of
             \/ \E l \in lists : g = Flight(l, Key(l, new))
  <2>1. CASE g \in {Left(f) : f \in flights}
    <3>1. PICK f \in flights : g = Left(f)
      BY <2>1
    <3>2. f \in Shape
      BY DEF GarageInv, GarageTypeOK
    <3>3. CASE f.do \in lists
      <4>1. g = [f EXCEPT !.active = FALSE]
        BY <3>1, <3>3
      <4>2. QED
        BY <3>2, <4>1
    <3>4. QED
      BY <3>1, <3>3
  <2>2. QED
    BY <1>4, <2>1
<1>6. ASSUME NEW l \in lists, NEW g, g = Flight(l, Key(l, new))
      PROVE  /\ g \in Shape /\ g.do \in Lists /\ g.of = Key(g.do, new)
             /\ g.of \in Markets \cup Forms
  BY <1>6, KeysAreTyped DEF Flight
<1>7. flights' \subseteq Shape
  BY <1>5, <1>6 DEF GarageInv, GarageTypeOK
<1>8. ASSUME NEW g \in flights'
      PROVE  /\ g.do \in Lists /\ g.active => g.of = Key(g.do, new)
             /\ g.do \in {"resolve", "save"} => g.of \in Forms
             /\ g.do \in {"decode", "save_vin"} => g.of \in Decodes
             /\ g.do \in Lists => g.of \in Markets \cup Forms
  <2>1. CASE g \in flights /\ g.do \notin lists
    BY <2>1 DEF GarageInv, FlightsAreCurrent
  <2>2. CASE g.active = FALSE /\ \E f \in flights : g.do = f.do /\ g.of = f.of
    BY <2>2 DEF GarageInv, FlightsAreCurrent
  <2>3. CASE \E l \in lists : g = Flight(l, Key(l, new))
    BY <1>6, <2>3 DEF Lists
  <2>4. QED
    BY <1>5, <2>1, <2>2, <2>3
<1>9. FlightsAreCurrent'
  BY <1>1, <1>8 DEF FlightsAreCurrent, Key
<1>10. QED
  BY <1>1, <1>2, <1>3, <1>7, <1>9

LEMMA GarageNextKeeps == GarageInv /\ [GarageFormNext]_garageVars => GarageInv'
<1> SUFFICES ASSUME GarageInv, [GarageFormNext]_garageVars PROVE GarageInv'
  OBVIOUS
<1> USE DEF GarageInv, GarageTypeOK
<1>1. ASSUME NEW m \in Markets, ChangeMarket(m) \/ ChangeVinMarket(m) PROVE GarageInv'
  <2>1. PICK new \in Forms : Reload(Lists, new)
    <3>1. [form EXCEPT !.market = m] \in Forms
      BY DEF Forms
    <3>2. QED
      BY <1>1, <3>1 DEF ChangeMarket, ChangeVinMarket
  <2>2. /\ selection' \in {selection, Nil}
        /\ vin' = vin /\ decode' \in {decode, Nil}
    BY <1>1 DEF ChangeMarket, ChangeVinMarket
  <2>3. DecodedVinIsSaved'
    BY <2>2 DEF DecodedVinIsSaved
  <2>4. QED
    BY <2>1, <2>2, <2>3, ReloadKeeps
<1>2. ASSUME NEW m \in Models, ChangeModel(m) PROVE GarageInv'
  <2>1. PICK new : new = [form EXCEPT !.model = m]
    OBVIOUS
  <2>2. new \in Forms /\ new.market = form.market
    BY <2>1 DEF Forms
  <2>3. \A l \in Lists \ {"trims"} : Key(l, new) = Key(l, form)
    BY <2>2 DEF Lists, Key
  <2>4. Reload({"trims"}, new) /\ {"trims"} \in SUBSET Lists
    BY <1>2, <2>1 DEF ChangeModel, Lists
  <2>5. selection' = Nil /\ vin' = vin /\ decode' = decode
    BY <1>2 DEF ChangeModel
  <2>6. QED
    BY <2>2, <2>3, <2>4, <2>5, ReloadKeeps DEF DecodedVinIsSaved
<1>3. ASSUME NEW v \in Vins \cup {Nil}, TypeVin(v) PROVE GarageInv'
  BY <1>3 DEF TypeVin, FlightsAreCurrent, OptionsMatchForm, DecodedVinIsSaved, Key
<1>4. ASSUME NEW f \in flights, ReceiveRows(f) PROVE GarageInv'
  <2>1. flights' \subseteq flights /\ UNCHANGED <<form, selection, vin, decode>>
    BY <1>4 DEF ReceiveRows
  <2>2. options' = options \/ (f.active /\ \E rows \in {f.of, Nil} : options' = [options EXCEPT ![f.do] = rows])
    BY <1>4 DEF ReceiveRows, Wanted
  <2>3. /\ f.do \in Lists /\ f.of \in Markets \cup Forms
        /\ f.active => f.of = Key(f.do, form)
    BY <1>4 DEF ReceiveRows, FlightsAreCurrent
  <2>4. options' \in [Lists -> Markets \cup Forms \cup {Nil}]
    BY <2>2, <2>3
  <2>5. OptionsMatchForm'
    BY <2>1, <2>2, <2>3 DEF OptionsMatchForm, Key
  <2>6. FlightsAreCurrent' /\ DecodedVinIsSaved'
    BY <2>1 DEF FlightsAreCurrent, DecodedVinIsSaved, Key
  <2>7. QED
    BY <2>1, <2>4, <2>5, <2>6
<1>5. ASSUME NEW f \in flights, ReceiveAnswer(f) PROVE GarageInv'
  <2>1. flights' \subseteq flights /\ UNCHANGED <<form, options>>
    BY <1>5 DEF ReceiveAnswer
  <2>2. \/ selection' \in Forms /\ UNCHANGED <<vin, decode>>
        \/ vin' = f.of.vin /\ decode' = f.of /\ f.of \in Decodes /\ UNCHANGED selection
        \/ UNCHANGED <<selection, vin, decode>>
    BY <1>5 DEF ReceiveAnswer, FieldAfter, FlightsAreCurrent
  <2>3. /\ selection' \in Forms \cup {Nil} /\ vin' \in Vins \cup {Nil}
        /\ decode' \in Decodes \cup {Nil}
    BY <2>2 DEF Decodes
  <2>4. DecodedVinIsSaved'
    BY <2>2 DEF DecodedVinIsSaved
  <2>5. FlightsAreCurrent' /\ OptionsMatchForm'
    BY <2>1 DEF FlightsAreCurrent, OptionsMatchForm, Key
  <2>6. QED
    BY <2>1, <2>3, <2>4, <2>5
<1>6. ASSUME NEW do, NEW of, Send(Flight(do, of)), UNCHANGED <<form, options, vin>>,
             selection' \in {selection, Nil}, decode' \in {decode, Nil},
             \/ do \in {"resolve", "save"} /\ of \in Forms
             \/ do \in {"decode", "save_vin"} /\ of \in Decodes
      PROVE  GarageInv'
  <2>1. PICK g : g = [do |-> do, of |-> of, active |-> TRUE]
    OBVIOUS
  <2>2. flights' = flights \cup {g}
    BY <1>6, <2>1 DEF Send, Flight
  <2>3. /\ g.do = do /\ g.of = of
        /\ g \in [do: Lists \cup {"resolve", "save", "decode", "save_vin"},
                  of: Markets \cup Forms \cup Decodes, active: BOOLEAN]
    BY <1>6, <2>1
  <2>4. FlightsAreCurrent'
    BY <1>6, <2>2, <2>3 DEF FlightsAreCurrent, Lists, Key
  <2>5. OptionsMatchForm' /\ DecodedVinIsSaved'
    BY <1>6 DEF OptionsMatchForm, DecodedVinIsSaved, Key
  <2>6. QED
    BY <1>6, <2>2, <2>3, <2>4, <2>5
<1>7. CASE ResolveManual \/ SaveManual
  <2>1. form \in Forms /\ selection \in Forms \cup {Nil}
    OBVIOUS
  <2>2. QED
    BY <1>6, <1>7, <2>1 DEF ResolveManual, SaveManual
<1>8. CASE DecodeVin \/ SaveVin
  <2>1. vin # Nil
    BY <1>8, NilAssumption DEF DecodeVin, SaveVin, DecodedVinIsSaved, Decodes
  <2>2. [vin |-> vin, market |-> form.market] \in Decodes
    BY <2>1 DEF Decodes, Forms
  <2>3. QED
    BY <1>6, <1>8, <2>2 DEF DecodeVin, SaveVin
<1>9. CASE UNCHANGED garageVars
  BY <1>9 DEF garageVars, FlightsAreCurrent, OptionsMatchForm, DecodedVinIsSaved, Key
<1>10. QED
  BY <1>1, <1>2, <1>3, <1>4, <1>5, <1>7, <1>8, <1>9 DEF GarageFormNext

(* GarageWorkspace, whatever is typed and clicked while requests are       *)
(* awaited: the rows a list offers were loaded for the market and model    *)
(* the form shows, and "Add to garage" sends the VIN whose evidence the    *)
(* card shows.                                                             *)
THEOREM GarageIsCurrent == GarageFormSpec => [](GarageTypeOK /\ GarageFormIsCurrent)
<1>1. GarageInv => GarageTypeOK /\ GarageFormIsCurrent
  BY DEF GarageInv, GarageFormIsCurrent
<1>2. QED
  BY <1>1, GarageInitIsGood, GarageNextKeeps, PTL DEF GarageFormSpec

-----------------------------------------------------------------------------
(* The gate *)

AskRow ==
  [do: {"me", "submit", "logout", "load", "change"}, as: Users \cup {Nobody}, active: BOOLEAN]

(* Before the service has said who is signed in nothing else is asked for, *)
(* and nothing is shown.                                                   *)
NothingBefore ==
  /\ auth.status = "unavailable" => asks = {}
  /\ auth.status = "checking" => asks \subseteq {Ask("me", cookie)}
  /\ auth.status \in {"in", "out"} => \A a \in asks : a.do # "me"

(* One submission or sign-out at a time: a submission finds nobody signed  *)
(* in.                                                                     *)
OneSubmission ==
  /\ \A a \in asks : a.do \in {"submit", "logout"} =>
       /\ submitting
       /\ \A b \in asks : b.do \in {"submit", "logout"} => b = a
  /\ \A a \in asks : a.do = "submit" => auth.status = "out" /\ a.as \in Users

(* Units still asked for are those of who is signed in. *)
LoadsAreTheUsers ==
  \A a \in asks : a.do = "load" /\ a.active => auth.status = "in" /\ a.as = auth.user

UnitsAreTheUsers ==
  /\ units # Nobody /\ units.by = "load" => auth.status = "in" /\ units.of = auth.user
  /\ auth.status = "in" => cookie = auth.user /\ auth.user \in Users

GateInv ==
  /\ GateTypeOK
  /\ NothingBefore /\ OneSubmission /\ LoadsAreTheUsers /\ UnitsAreTheUsers
  /\ \A a \in asks : a.do \in {"load", "change"} => a.as \in Users

LEMMA AskIsTyped ==
  ASSUME NEW do \in {"me", "submit", "logout", "load", "change"}, NEW u \in Users \cup {Nobody}
  PROVE  /\ Ask(do, u) \in AskRow
         /\ Ask(do, u).do = do /\ Ask(do, u).as = u /\ Ask(do, u).active
BY DEF Ask, AskRow

LEMMA GateInitIsGood == AccountGateInit => GateInv
<1> SUFFICES ASSUME AccountGateInit PROVE GateInv
  OBVIOUS
<1>1. /\ auth = [status |-> "checking", user |-> Nobody] /\ units = Nobody
      /\ cookie \in Users \cup {Nobody} /\ unitsBusy = FALSE /\ submitting = FALSE
      /\ asks = {Ask("me", cookie)}
  BY DEF AccountGateInit, State
<1>2. Ask("me", cookie) = [do |-> "me", as |-> cookie, active |-> TRUE]
  BY DEF Ask
<1>3. GateTypeOK
  <2>1. auth \in [status: {"checking", "in", "out", "unavailable"}, user: Users \cup {Nobody}]
    BY <1>1
  <2>2. asks \subseteq [do: {"me", "submit", "logout", "load", "change"},
                        as: Users \cup {Nobody}, active: BOOLEAN]
    BY <1>1, AskIsTyped DEF AskRow
  <2>3. QED
    BY <1>1, <2>1, <2>2 DEF GateTypeOK
<1>4. NothingBefore /\ OneSubmission /\ LoadsAreTheUsers /\ UnitsAreTheUsers
  BY <1>1, <1>2 DEF NothingBefore, OneSubmission, LoadsAreTheUsers, UnitsAreTheUsers
<1>5. QED
  BY <1>1, <1>2, <1>3, <1>4 DEF GateInv

(* A cleaned-up effect asks for nothing any more. *)
LEMMA CleanedAsks ==
  ASSUME NEW rest \in SUBSET AskRow, NEW g \in Cleaned(rest)
  PROVE  /\ g \in AskRow
         /\ g.do = "load" => ~g.active /\ \E a \in rest : a.do = "load" /\ a.as = g.as
         /\ g.do # "load" => g \in rest
<1>1. PICK a \in rest : g = IF a.do = "load" THEN [a EXCEPT !.active = FALSE] ELSE a
  BY DEF Cleaned
<1>2. CASE a.do = "load"
  <2>1. g = [a EXCEPT !.active = FALSE]
    BY <1>1, <1>2
  <2>2. QED
    BY <1>2, <2>1 DEF AskRow
<1>3. QED
  BY <1>1, <1>2

LEMMA SetAuthDoes ==
  ASSUME NEW new, NEW rest, SetAuth(new, rest)
  PROVE  /\ auth' = new
         /\ \/ new.status = auth.status /\ asks' = rest /\ UNCHANGED <<units, unitsBusy>>
            \/ /\ new.status # auth.status /\ new.status = "in"
               /\ asks' = Cleaned(rest) \cup {Ask("load", cookie')}
               /\ unitsBusy' = TRUE /\ units' = units
            \/ /\ new.status # auth.status /\ new.status # "in"
               /\ asks' = Cleaned(rest) /\ units' = Nobody /\ unitsBusy' = FALSE
<1>1. CASE new.status = auth.status
  BY <1>1 DEF SetAuth
<1>2. CASE new.status # auth.status /\ new.status = "in"
  BY <1>2 DEF SetAuth
<1>3. CASE new.status # auth.status /\ new.status # "in"
  BY <1>3 DEF SetAuth
<1>4. QED
  BY <1>1, <1>2, <1>3

(* An answer that only ends its request. *)
LEMMA EndKeeps ==
  ASSUME GateInv, NEW a \in asks, asks' = asks \ {a}, UNCHANGED <<auth, cookie>>,
         units' = units \/ (a.do = "load" /\ a.active /\ units' = [of |-> a.as, by |-> "load"])
                        \/ (a.do = "change" /\ units' = [of |-> a.as, by |-> "change"]),
         unitsBusy' \in BOOLEAN, submitting' \in BOOLEAN,
         submitting' = submitting \/ a.do \in {"submit", "logout"}
  PROVE  GateInv'
<1>1. GateTypeOK'
  BY DEF GateInv, GateTypeOK
<1>2. NothingBefore'
  BY DEF GateInv, NothingBefore
<1>3. OneSubmission'
  BY DEF GateInv, OneSubmission
<1>4. LoadsAreTheUsers'
  BY DEF GateInv, LoadsAreTheUsers
<1>5. UnitsAreTheUsers'
  BY DEF GateInv, UnitsAreTheUsers, LoadsAreTheUsers
<1>6. \A b \in asks' : b.do \in {"load", "change"} => b.as \in Users
  BY DEF GateInv
<1>7. QED
  BY <1>1, <1>2, <1>3, <1>4, <1>5, <1>6 DEF GateInv

(* An answer that says nobody is signed in. *)
LEMMA OutKeeps ==
  ASSUME GateInv, NEW a \in asks, auth.status \in {"in", "out"},
         SetAuth(State("out", Nobody), asks \ {a}),
         cookie' \in {cookie, Nobody}, submitting' \in BOOLEAN,
         submitting' = submitting \/ a.do = "logout",
         a.do # "submit"
  PROVE  GateInv'
<1>1. PICK new, rest : /\ new = [status |-> "out", user |-> Nobody] /\ rest = asks \ {a}
                       /\ SetAuth(new, rest)
  BY DEF State
<1>2. rest \in SUBSET AskRow /\ new.status = "out"
  BY <1>1 DEF GateInv, GateTypeOK, AskRow
<1>3. /\ auth' = new
      /\ \/ auth.status = "out" /\ asks' = rest /\ UNCHANGED <<units, unitsBusy>>
         \/ auth.status = "in" /\ asks' = Cleaned(rest) /\ units' = Nobody /\ unitsBusy' = FALSE
  BY <1>1, <1>2, SetAuthDoes
<1>4. \A g \in asks' : /\ g \in AskRow
                       /\ g.do = "load" => ~g.active /\ \E b \in rest : b.do = "load" /\ b.as = g.as
                       /\ g.do # "load" => g \in rest
  <2>1. CASE auth.status = "out"
    BY <1>1, <1>2, <1>3, <2>1 DEF GateInv, LoadsAreTheUsers
  <2>2. CASE auth.status = "in"
    BY <1>2, <1>3, <2>2, CleanedAsks
  <2>3. QED
    BY <2>1, <2>2
<1>5. GateTypeOK'
  <2>1. auth' \in [status: {"checking", "in", "out", "unavailable"}, user: Users \cup {Nobody}]
    BY <1>1, <1>3
  <2>2. asks' \subseteq AskRow
    BY <1>4
  <2>3. QED
    BY <1>3, <2>1, <2>2 DEF GateInv, GateTypeOK, AskRow
<1>6. NothingBefore'
  BY <1>1, <1>3, <1>4 DEF GateInv, NothingBefore
<1>7. OneSubmission'
  BY <1>1, <1>3, <1>4 DEF GateInv, OneSubmission
<1>8. LoadsAreTheUsers'
  BY <1>4 DEF LoadsAreTheUsers
<1>9. UnitsAreTheUsers'
  BY <1>1, <1>3 DEF GateInv, UnitsAreTheUsers
<1>10. \A g \in asks' : g.do \in {"load", "change"} => g.as \in Users
  BY <1>1, <1>4 DEF GateInv
<1>11. QED
  BY <1>5, <1>6, <1>7, <1>8, <1>9, <1>10 DEF GateInv

(* An answer that says who is signed in, when nobody was. *)
LEMMA InKeeps ==
  ASSUME GateInv, NEW a \in asks, NEW u \in Users, auth.status # "in",
         SetAuth(State("in", u), asks \ {a}),
         cookie' = u, submitting' \in BOOLEAN,
         \A b \in asks \ {a} : b.do \notin {"me", "submit", "logout"}
  PROVE  GateInv'
<1>1. PICK new, rest, load :
        /\ new = [status |-> "in", user |-> u] /\ rest = asks \ {a}
        /\ load = Ask("load", u)
        /\ SetAuth(new, rest)
  BY DEF State
<1>2. /\ rest \in SUBSET AskRow /\ new.status = "in"
      /\ \A b \in rest : b.do \notin {"me", "submit", "logout"}
  BY <1>1 DEF GateInv, GateTypeOK, AskRow
<1>3. /\ load \in AskRow /\ load.do = "load" /\ load.as = u
  BY <1>1, AskIsTyped
<1>4. /\ auth' = new /\ asks' = Cleaned(rest) \cup {load}
      /\ units' = units /\ unitsBusy' = TRUE
  BY <1>1, <1>2, SetAuthDoes
<1>5. \A g \in asks' : \/ g = load
                       \/ /\ g \in AskRow
                          /\ g.do = "load" => ~g.active /\ \E b \in rest : b.do = "load" /\ b.as = g.as
                          /\ g.do # "load" => g \in rest
  BY <1>2, <1>4, CleanedAsks
<1>6. GateTypeOK'
  <2>1. auth' \in [status: {"checking", "in", "out", "unavailable"}, user: Users \cup {Nobody}]
    BY <1>1, <1>4
  <2>2. asks' \subseteq AskRow
    BY <1>3, <1>5
  <2>3. QED
    BY <1>4, <2>1, <2>2 DEF GateInv, GateTypeOK, AskRow
<1>7. NothingBefore' /\ OneSubmission'
  <2>1. \A g \in asks' : g.do \notin {"me", "submit", "logout"}
    BY <1>2, <1>3, <1>5
  <2>2. auth'.status = "in"
    BY <1>2, <1>4
  <2>3. QED
    BY <2>1, <2>2 DEF NothingBefore, OneSubmission
<1>8. LoadsAreTheUsers'
  BY <1>1, <1>3, <1>4, <1>5 DEF LoadsAreTheUsers
<1>9. UnitsAreTheUsers'
  BY <1>1, <1>4 DEF GateInv, UnitsAreTheUsers
<1>10. \A g \in asks' : g.do \in {"load", "change"} => g.as \in Users
  BY <1>1, <1>3, <1>5 DEF GateInv
<1>11. QED
  BY <1>6, <1>7, <1>8, <1>9, <1>10 DEF GateInv

LEMMA GateNextKeeps == GateInv /\ [AccountGateNext]_gateVars => GateInv'
<1> SUFFICES ASSUME GateInv, [AccountGateNext]_gateVars PROVE GateInv'
  OBVIOUS
<1>1. ASSUME NEW do \in {"submit", "logout", "change"}, NEW u \in Users,
             AskFor(Ask(do, u)), UNCHANGED <<auth, units, cookie>>,
             auth.status \in {"in", "out"}, do = "submit" => auth.status = "out",
             unitsBusy' \in BOOLEAN, submitting' \in BOOLEAN,
             IF do = "change" THEN submitting' = submitting ELSE ~submitting /\ submitting'
      PROVE  GateInv'
  <2>1. PICK g : g = Ask(do, u)
    OBVIOUS
  <2>2. g \in AskRow /\ g.do = do /\ g.as = u /\ asks' = asks \cup {g}
    BY <1>1, <2>1, AskIsTyped DEF AskFor
  <2>3. GateTypeOK'
    BY <1>1, <2>2 DEF GateInv, GateTypeOK, AskRow
  <2>4. NothingBefore'
    BY <1>1, <2>2 DEF GateInv, NothingBefore
  <2>5. OneSubmission'
    BY <1>1, <2>2 DEF GateInv, OneSubmission
  <2>6. LoadsAreTheUsers' /\ UnitsAreTheUsers'
    BY <1>1, <2>2 DEF GateInv, LoadsAreTheUsers, UnitsAreTheUsers
  <2>7. QED
    BY <1>1, <2>2, <2>3, <2>4, <2>5, <2>6 DEF GateInv
<1>2. ASSUME NEW u \in Users, Submit(u) PROVE GateInv'
  BY <1>1, <1>2 DEF Submit, GateInv, GateTypeOK
<1>3. CASE ChangeUnits \/ Logout
  <2>1. auth.status = "in" /\ cookie \in Users
    BY <1>3 DEF ChangeUnits, Logout, GateInv, UnitsAreTheUsers
  <2>2. QED
    BY <1>1, <1>3, <2>1 DEF ChangeUnits, Logout, GateInv, GateTypeOK
<1>4. CASE LoadSession
  <2>1. asks = {} /\ SetAuth(State("checking", Nobody), asks \cup {Ask("me", cookie)})
        /\ UNCHANGED <<submitting, cookie>> /\ auth.status = "unavailable"
    BY <1>4 DEF LoadSession, GateInv, NothingBefore
  <2>2. PICK new, rest : /\ new = [status |-> "checking", user |-> Nobody]
                         /\ rest = {Ask("me", cookie)} /\ SetAuth(new, rest)
    <3>1. asks \cup {Ask("me", cookie)} = {Ask("me", cookie)}
      BY <2>1
    <3>2. QED
      BY <2>1, <3>1 DEF State
  <2>3. /\ auth' = [status |-> "checking", user |-> Nobody]
        /\ asks' = Cleaned({Ask("me", cookie)}) /\ units' = Nobody /\ unitsBusy' = FALSE
    <3>1. new.status = "checking"
      BY <2>2
    <3>2. QED
      BY <2>1, <2>2, <3>1, SetAuthDoes
  <2>4. Ask("me", cookie) \in AskRow /\ Ask("me", cookie).do = "me" /\ cookie \in Users \cup {Nobody}
    BY AskIsTyped DEF GateInv, GateTypeOK
  <2>5. asks' \subseteq {Ask("me", cookie)}
    BY <2>3, <2>4 DEF Cleaned
  <2>6. GateTypeOK' /\ NothingBefore'
    <3>1. asks' \subseteq AskRow
      BY <2>4, <2>5
    <3>2. asks' \subseteq {Ask("me", cookie')}
      BY <2>1, <2>5
    <3>3. QED
      BY <2>1, <2>3, <3>1, <3>2 DEF GateInv, GateTypeOK, NothingBefore, AskRow
  <2>7. OneSubmission' /\ LoadsAreTheUsers' /\ UnitsAreTheUsers'
    BY <2>3, <2>4, <2>5 DEF OneSubmission, LoadsAreTheUsers, UnitsAreTheUsers
  <2>8. QED
    BY <2>4, <2>5, <2>6, <2>7 DEF GateInv
<1>5. ASSUME NEW a \in asks, ReceiveSession(a) PROVE GateInv'
  <2>1. auth.status = "checking" /\ a.do = "me" /\ a = Ask("me", cookie) /\ asks \ {a} = {}
    BY <1>5 DEF ReceiveSession, GateInv, GateTypeOK, NothingBefore
  <2>2. a.as = cookie
    BY <2>1 DEF Ask
  <2>3. UNCHANGED <<submitting, cookie>>
    BY <1>5 DEF ReceiveSession
  <2>4. CASE a.as # Nobody /\ SetAuth(State("in", a.as), asks \ {a})
    <3>1. a.as \in Users /\ submitting' \in BOOLEAN
      BY <2>2, <2>3, <2>4 DEF GateInv, GateTypeOK
    <3>2. QED
      BY <2>1, <2>2, <2>3, <2>4, <3>1, InKeeps
  <2>5. ASSUME NEW status \in {"out", "unavailable"}, SetAuth(State(status, Nobody), asks \ {a})
        PROVE  GateInv'
    <3>1. PICK new, rest : /\ new = [status |-> status, user |-> Nobody]
                           /\ rest = asks \ {a} /\ SetAuth(new, rest)
      BY <2>5 DEF State
    <3>2. /\ auth' = [status |-> status, user |-> Nobody]
          /\ asks' = Cleaned(rest) /\ units' = Nobody /\ unitsBusy' = FALSE
      <4>1. new.status = status /\ status # auth.status /\ status # "in"
        BY <2>1, <2>5, <3>1
      <4>2. QED
        BY <3>1, <4>1, SetAuthDoes
    <3>3. asks' = {}
      BY <2>1, <3>1, <3>2 DEF Cleaned
    <3>4. QED
      BY <2>3, <3>2, <3>3 DEF GateInv, GateTypeOK, NothingBefore, OneSubmission,
                              LoadsAreTheUsers, UnitsAreTheUsers
  <2>6. QED
    BY <1>5, <2>4, <2>5 DEF ReceiveSession
<1>6. ASSUME NEW a \in asks, a.do # "me" PROVE auth.status \in {"in", "out"} /\ a.as \in Users \cup {Nobody}
  <2>1. auth.status # "checking"
    BY <1>6 DEF GateInv, NothingBefore, Ask
  <2>2. QED
    BY <2>1 DEF GateInv, GateTypeOK, NothingBefore
<1>7. ASSUME NEW a \in asks, ReceiveUnits(a) PROVE GateInv'
  <2>1. a.do = "load" /\ UNCHANGED <<submitting, cookie>> /\ auth.status \in {"in", "out"}
        /\ submitting' \in BOOLEAN /\ unitsBusy \in BOOLEAN
    BY <1>6, <1>7 DEF ReceiveUnits, GateInv, GateTypeOK
  <2>2. CASE SetAuth(State("out", Nobody), asks \ {a})
    BY <2>1, <2>2, OutKeeps
  <2>3. CASE /\ asks' = asks \ {a} /\ UNCHANGED auth /\ unitsBusy' \in {unitsBusy, FALSE}
             /\ units' = units \/ (a.active /\ units' = [of |-> a.as, by |-> "load"])
    BY <2>1, <2>3, EndKeeps
  <2>4. QED
    BY <1>7, <2>2, <2>3 DEF ReceiveUnits, Used
<1>8. ASSUME NEW a \in asks, ReceiveChange(a) PROVE GateInv'
  <2>1. a.do = "change" /\ UNCHANGED <<submitting, cookie>> /\ auth.status \in {"in", "out"}
        /\ submitting' \in BOOLEAN
    BY <1>6, <1>8 DEF ReceiveChange, GateInv, GateTypeOK
  <2>2. CASE SetAuth(State("out", Nobody), asks \ {a})
    BY <2>1, <2>2, OutKeeps
  <2>3. CASE /\ asks' = asks \ {a} /\ UNCHANGED auth /\ unitsBusy' = FALSE
             /\ units' \in {[of |-> a.as, by |-> "change"], units}
    BY <2>1, <2>3, EndKeeps
  <2>4. QED
    BY <1>8, <2>2, <2>3 DEF ReceiveChange
<1>9. ASSUME NEW a \in asks, ReceiveSignIn(a) PROVE GateInv'
  <2>1. a.do = "submit" /\ submitting' = FALSE /\ auth.status = "out" /\ a.as \in Users
        /\ unitsBusy \in BOOLEAN
    BY <1>9 DEF ReceiveSignIn, GateInv, GateTypeOK, OneSubmission
  <2>2. \A b \in asks \ {a} : b.do \notin {"me", "submit", "logout"}
    BY <2>1 DEF GateInv, OneSubmission, NothingBefore
  <2>3. CASE cookie' = a.as /\ SetAuth(State("in", a.as), asks \ {a})
    BY <2>1, <2>2, <2>3, InKeeps
  <2>4. CASE asks' = asks \ {a} /\ UNCHANGED <<auth, units, unitsBusy, cookie>>
    BY <2>1, <2>4, EndKeeps
  <2>5. QED
    BY <1>9, <2>3, <2>4 DEF ReceiveSignIn
<1>10. ASSUME NEW a \in asks, ReceiveLogout(a) PROVE GateInv'
  <2>1. a.do = "logout" /\ submitting' = FALSE /\ auth.status \in {"in", "out"}
        /\ unitsBusy \in BOOLEAN
    BY <1>6, <1>10 DEF ReceiveLogout, GateInv, GateTypeOK
  <2>2. CASE cookie' = Nobody /\ SetAuth(State("out", Nobody), asks \ {a})
    BY <2>1, <2>2, OutKeeps
  <2>3. CASE asks' = asks \ {a} /\ UNCHANGED <<auth, units, unitsBusy, cookie>>
    BY <2>1, <2>3, EndKeeps
  <2>4. QED
    BY <1>10, <2>2, <2>3 DEF ReceiveLogout
<1>11. CASE UNCHANGED gateVars
  BY <1>11 DEF gateVars, GateInv, GateTypeOK, NothingBefore, OneSubmission, LoadsAreTheUsers, UnitsAreTheUsers
<1>12. QED
  BY <1>2, <1>3, <1>4, <1>5, <1>7, <1>8, <1>9, <1>10, <1>11 DEF AccountGateNext

(* AuthGate: units that were loaded are those of the user who is signed in *)
(* (the effect's cleanup voids the answers meant for anybody else), and    *)
(* that user is who the session cookie names.                              *)
THEOREM GateShowsTheUser == AccountGateSpec => [](GateTypeOK /\ LoadedUnitsAreTheUsers)
<1>1. GateInv => GateTypeOK /\ LoadedUnitsAreTheUsers
  BY DEF GateInv, UnitsAreTheUsers, LoadedUnitsAreTheUsers
<1>2. QED
  BY <1>1, GateInitIsGood, GateNextKeeps, PTL DEF AccountGateSpec

-----------------------------------------------------------------------------
(* The repair pages.  The repairs the service has. *)
Existing == {s \in Sessions : session[s] # NoSession}

(* The requests of a function on a page. *)
RequestsOf(do, p) ==
  CASE do = "initialize" -> IF p = "start" THEN {"vehicles"}
                            ELSE IF p \in {"resume", "log"} THEN {"list"}
                            ELSE {"list", "snapshot", "guidance"}
    [] do = "domain"     -> {"domain", "refresh", "snapshot", "guidance"}
    [] do = "status"     -> {"status", "list", "snapshot", "guidance"}
    [] do = "create"     -> {"create", "options"}
    [] OTHER             -> {do, "snapshot", "guidance"} \ {"open"}

(* Whom a function is about: a repair the service has, as soon as it may   *)
(* go on to set it active or pending.                                      *)
SubjectExists(c, ex) ==
  /\ c.do = "create" =>
       /\ c.session \in Sessions /\ c.what \in Vehicles
       /\ c.todo \in {<<"create", "options">>, <<"options">>}
       /\ Head(c.todo) = "options" \/ c.answer # None => c.session \in ex
  /\ c.do # "create" => c.session \in ex \cup {None}
  /\ c.do \notin {"create", "initialize", "plan"} => c.session \in ex
  /\ Head(c.todo) \in {"snapshot", "guidance"} /\ c.do # "plan" => c.session \in ex

(* What a write needs to be a request of the service. *)
WriteIsOne(c) ==
  /\ c.do = "lease" => c.what \in {"acquire", "takeover"}
  /\ c.do \in {"domain", "status"} => c.key \in Keys
  /\ c.do = "status" => c.what \in Transitions /\ c.page = "resume"
  /\ c.do = "bind" /\ Head(c.todo) = "bind" /\ c.page # "start" => Len(c.todo) > 1
  /\ c.do = "bind" => Tail(c.todo) \in Seq(Reads)
  /\ c.do = "plan" => c.todo = <<"plan">>
  /\ c.do = "create" => c.page = "start"

(* A function that runs, on page p, when the repairs ex exist. *)
CallRight(c, p, ex) ==
  /\ c \in CallRow(Head(c.todo))
  /\ c.todo \in Seq(RequestsOf(c.do, c.page)) /\ c.todo # <<>>
  /\ c.live => c.page = p
  /\ Head(c.todo) = "vehicles" => c.live
  /\ SubjectExists(c, ex) /\ WriteIsOne(c)
  /\ Head(c.todo) = "list" /\ c.answer # None => c.answer \subseteq ex

CallsRight(f, p, ex) ==
  /\ DOMAIN f = Slots
  /\ \A i \in Slots : f[i] # None => CallRight(f[i], p, ex)

IsBusy(c) == c # None /\ c.live /\ c.do \in Handlers

BusyRight(f, b) ==
  /\ b \in BOOLEAN
  /\ b <=> \E i \in Slots : IsBusy(f[i])
  /\ \A i, j \in Slots : IsBusy(f[i]) /\ IsBusy(f[j]) => i = j

(* The start page lists vehicles, the others repairs. *)
PageRight(p, chosen, rows, ex) ==
  /\ p \in Pages
  /\ p = "start" => rows \subseteq Vehicles /\ chosen \in Vehicles \cup {None}
  /\ p # "start" => rows \subseteq ex /\ chosen \in ex \cup {None}

ShownRight(v) ==
  /\ v = [session |-> v.session, lease |-> v.lease, held |-> v.held, guidance |-> v.guidance]
  /\ v.session \in Sessions \cup {None} /\ v.guidance \in Sessions \cup {None}
  /\ v.lease \in {"available", "owned", "held_by_other", None} /\ v.held \in BOOLEAN

(* A write that is served late is a request of the service, too. *)
LateRight(r, ex) ==
  /\ r \in LateRow
  /\ r.request = "lease" => r.session \in ex /\ r.what \in {"acquire", "takeover"}
  /\ r.request \in {"domain", "status"} => r.session \in ex /\ r.key \in Keys
  /\ r.request = "status" => r.what \in Transitions
  /\ r.request = "create" => r.session \in Sessions /\ r.what \in Vehicles

ClientInv ==
  /\ CallsRight(calls, page, Existing)
  /\ BusyRight(calls, busy)
  /\ PageRight(page, selected, listed, Existing)
  /\ ShownRight(shown)
  /\ stored \in Existing \cup {None} /\ pending \in Existing \cup {None}
  /\ \A r \in late : LateRight(r, Existing)

ClientCalls(f, p, b, ex) == CallsRight(f, p, ex) /\ BusyRight(f, b)

-----------------------------------------------------------------------------
(* Slots *)

LEMMA RoomIsFree ==
  ASSUME NEW f, Room(f, 1) \/ Room(f, 2)
  PROVE  Free(f) # {}
BY FS_EmptySet DEF Room

LEMMA PutsSomewhere ==
  ASSUME NEW f, Free(f) # {}, NEW c
  PROVE  \E i \in Free(f) : Put(f, c) = [f EXCEPT ![i] = c]
<1>1. Free(f) \in SUBSET Nat
  BY BrowserAssumption DEF Free
<1>2. \E i \in Free(f) : \A j \in Free(f) : i <= j
  BY <1>1, LeastNatural
<1>3. QED
  BY <1>2 DEF Put

LEMMA OneLeft ==
  ASSUME NEW f, DOMAIN f = Slots, Room(f, 2), NEW c
  PROVE  Free(Put(f, c)) # {}
<1>1. PICK i \in Free(f) : Put(f, c) = [f EXCEPT ![i] = c]
  BY RoomIsFree, PutsSomewhere
<1>2. ASSUME Free(Put(f, c)) = {} PROVE FALSE
  <2>1. \A j \in Free(f) : j = i
    BY <1>1, <1>2 DEF Free
  <2>2. Free(f) = {i}
    BY <2>1
  <2>3. Cardinality(Free(f)) = 1
    BY <2>2, FS_Singleton
  <2>4. QED
    BY <2>3 DEF Room
<1>3. QED
  BY <1>2

LEMMA CallIsSomething ==
  ASSUME NEW c, NEW p, NEW ex, CallRight(c, p, ex)
  PROVE  c # None /\ Head(c.todo) \in Writes \cup Reads
<1>1. c \in CallRow(Head(c.todo)) /\ c.todo # <<>>
  BY DEF CallRight
<1>2. c.todo \in Seq(Writes \cup Reads)
  BY <1>1 DEF CallRow
<1>3. Head(c.todo) \in Writes \cup Reads
  BY <1>1, <1>2
<1>4. QED
  BY <1>1, <1>3, NobodyCallsAssumption

LEMMA PutKeeps ==
  ASSUME NEW f, NEW p, NEW ex, NEW b, ClientCalls(f, p, b, ex), Free(f) # {},
         NEW c, CallRight(c, p, ex)
  PROVE  /\ ~IsBusy(c) => ClientCalls(Put(f, c), p, b, ex)
         /\ ~b => ClientCalls(Put(f, c), p, IsBusy(c), ex)
<1>1. PICK i \in Free(f) : Put(f, c) = [f EXCEPT ![i] = c]
  BY PutsSomewhere
<1>2. i \in Slots /\ f[i] = None /\ DOMAIN f = Slots
  BY DEF Free, ClientCalls, CallsRight
<1> DEFINE g == [f EXCEPT ![i] = c]
<1>3. CallsRight(g, p, ex)
  BY <1>2 DEF ClientCalls, CallsRight
<1>4. g[i] = c /\ \A j \in Slots : j # i => g[j] = f[j]
  BY <1>2
<1>5. ~IsBusy(None) /\ IsBusy(c) \in BOOLEAN
  BY DEF IsBusy
<1>6. /\ b \in BOOLEAN /\ (b <=> \E j \in Slots : IsBusy(f[j]))
      /\ \A j, k \in Slots : IsBusy(f[j]) /\ IsBusy(f[k]) => j = k
  BY DEF ClientCalls, BusyRight
<1> HIDE DEF g
<1>7. ~IsBusy(c) => BusyRight(g, b)
  BY <1>2, <1>4, <1>5, <1>6 DEF BusyRight
<1>8. ~b => BusyRight(g, IsBusy(c))
  BY <1>2, <1>4, <1>5, <1>6 DEF BusyRight
<1>9. QED
  BY <1>1, <1>3, <1>7, <1>8 DEF ClientCalls, g

-----------------------------------------------------------------------------
(* New functions *)

LEMMA LoadRequests ==
  ASSUME NEW p, NEW S, "snapshot" \in S, "guidance" \in S
  PROVE  Load(p) \in Seq(S) /\ Load(p) # <<>> /\ Head(Load(p)) = "snapshot"
BY DEF Load

LEMMA RequestThenLoad ==
  ASSUME NEW p, NEW x, NEW S, x \in S, "snapshot" \in S, "guidance" \in S
  PROVE  /\ <<x>> \o Load(p) \in Seq(S)
         /\ Head(<<x>> \o Load(p)) = x /\ Len(<<x>> \o Load(p)) > 1
         /\ <<x>> \o Load(p) # <<>>
<1>1. /\ <<x>> \o Load(p) \in Seq(S)
      /\ Head(<<x>> \o Load(p)) = x /\ Len(<<x>> \o Load(p)) > 1
  BY DEF Load
<1>2. <<x>> \o Load(p) # <<>>
  BY DEF Load
<1>3. QED
  BY <1>1, <1>2

LEMMA TailOfRequest ==
  ASSUME NEW S, NEW x, NEW q \in Seq(S)
  PROVE  Tail(<<x>> \o q) = q
<1>1. q \in Seq(S \cup {x}) /\ x \in S \cup {x}
  OBVIOUS
<1>2. QED
  BY <1>1

LEMMA CallIs ==
  ASSUME NEW do, NEW s, NEW todo, NEW p
  PROVE  /\ Call(do, s, todo) =
              [page |-> page, do |-> do, session |-> s, todo |-> todo, key |-> None, what |-> None,
               live |-> TRUE, active |-> TRUE, answer |-> None]
         /\ [Call(do, s, todo) EXCEPT !.page = p] =
              [page |-> p, do |-> do, session |-> s, todo |-> todo, key |-> None, what |-> None,
               live |-> TRUE, active |-> TRUE, answer |-> None]
<1>1. PICK c : c = Call(do, s, todo)
  OBVIOUS
<1>2. c = [page |-> page, do |-> do, session |-> s, todo |-> todo, key |-> None, what |-> None,
           live |-> TRUE, active |-> TRUE, answer |-> None]
  BY <1>1, Zenon DEF Call
<1>3. PICK d : d = [c EXCEPT !.page = p]
  OBVIOUS
<1>4. d = [page |-> p, do |-> do, session |-> s, todo |-> todo, key |-> None, what |-> None,
           live |-> TRUE, active |-> TRUE, answer |-> None]
  BY <1>2, <1>3
<1>5. QED
  BY <1>1, <1>2, <1>3, <1>4

LEMMA NewCallTyped ==
  ASSUME NEW do \in Handlers \cup {"initialize", "open"}, NEW s \in Sessions \cup {None},
         NEW todo \in Seq(Writes \cup Reads), NEW p \in Pages, NEW what \in Subjects,
         NEW k \in Keys \cup {None}, NEW c,
         c = [page |-> p, do |-> do, session |-> s, todo |-> todo, key |-> k, what |-> what,
              live |-> TRUE, active |-> TRUE, answer |-> None]
  PROVE  \A r : c \in CallRow(r)
BY DEF CallRow

(* A load of a repair that exists. *)
LEMMA OpenIsRight ==
  ASSUME NEW ex \in SUBSET Sessions, NEW s \in ex, NEW p \in Pages,
         NEW c, c = [Call("open", s, Load(p)) EXCEPT !.page = p]
  PROVE  CallRight(c, p, ex) /\ ~IsBusy(c)
<1>1. c = [page |-> p, do |-> "open", session |-> s, todo |-> Load(p), key |-> None,
           what |-> None, live |-> TRUE, active |-> TRUE, answer |-> None]
  BY CallIs
<1> DEFINE t == Load(p)
<1>2. t \in Seq({"snapshot", "guidance"}) /\ t # <<>> /\ Head(t) = "snapshot"
  BY LoadRequests
<1>3. t \in Seq(Writes \cup Reads)
  BY LoadRequests DEF Reads
<1>4. c \in CallRow(Head(t))
  <2>1. "open" \in Handlers \cup {"initialize", "open"} /\ None \in Subjects
    BY DEF Subjects
  <2>2. QED
    BY <1>1, <1>3, <2>1, NewCallTyped
<1> HIDE DEF t
<1>5. RequestsOf("open", p) = {"snapshot", "guidance"}
  BY DEF RequestsOf
<1>6. SubjectExists(c, ex)
  BY <1>1, <1>2 DEF SubjectExists, t
<1>7. WriteIsOne(c)
  BY <1>1 DEF WriteIsOne
<1>8. CallRight(c, p, ex)
  BY <1>1, <1>2, <1>4, <1>5, <1>6, <1>7 DEF CallRight, t
<1>9. QED
  BY <1>1, <1>8 DEF IsBusy, Handlers

(* What a mounted page begins with. *)
LEMMA InitializeIsRight ==
  ASSUME NEW ex \in SUBSET Sessions, NEW s \in ex \cup {None}, NEW p \in Pages,
         NEW todo, NEW c, c = [Call("initialize", s, todo) EXCEPT !.page = p],
         \/ p \in {"resume", "log"} /\ todo = <<"list">>
         \/ p \in {"guidance", "readiness"} /\ todo = <<"list">> \o Load(p)
         \/ p = "start" /\ todo = <<"vehicles">>
  PROVE  CallRight(c, p, ex) /\ ~IsBusy(c)
<1>1. c = [page |-> p, do |-> "initialize", session |-> s, todo |-> todo, key |-> None,
           what |-> None, live |-> TRUE, active |-> TRUE, answer |-> None]
  BY CallIs
<1>2. /\ todo \in Seq(RequestsOf("initialize", p)) /\ todo # <<>>
      /\ Head(todo) \in {"list", "vehicles"}
  <2>1. <<"list">> \in Seq({"list"}) /\ <<"vehicles">> \in Seq({"vehicles"})
    OBVIOUS
  <2>2. CASE p \in {"resume", "log"}
    <3>1. RequestsOf("initialize", p) = {"list"} /\ todo = <<"list">>
      BY <2>2 DEF RequestsOf
    <3>2. QED
      BY <2>1, <3>1
  <2>3. CASE p = "start"
    <3>1. RequestsOf("initialize", p) = {"vehicles"} /\ todo = <<"vehicles">>
      BY <2>3 DEF RequestsOf
    <3>2. QED
      BY <2>1, <3>1
  <2>4. CASE p \in {"guidance", "readiness"}
    <3>1. /\ RequestsOf("initialize", p) = {"list", "snapshot", "guidance"}
          /\ todo = <<"list">> \o Load(p)
      BY <2>4 DEF RequestsOf
    <3>2. QED
      BY <3>1, RequestThenLoad
  <2>5. QED
    BY <2>2, <2>3, <2>4
<1>3. todo \in Seq(Writes \cup Reads)
  <2>1. {"list", "vehicles", "snapshot", "guidance"} \subseteq Writes \cup Reads
    BY DEF Reads
  <2>2. CASE todo = <<"list">>
    BY <2>1, <2>2
  <2>3. CASE todo = <<"vehicles">>
    BY <2>1, <2>3
  <2>4. CASE todo = <<"list">> \o Load(p)
    BY <2>1, <2>4, RequestThenLoad
  <2>5. QED
    BY <2>2, <2>3, <2>4
<1>4. c \in CallRow(Head(todo))
  <2>1. "initialize" \in Handlers \cup {"initialize", "open"} /\ None \in Subjects
    BY DEF Subjects
  <2>2. s \in Sessions \cup {None}
    OBVIOUS
  <2>3. QED
    BY <1>1, <1>3, <2>1, <2>2, NewCallTyped
<1>5. SubjectExists(c, ex)
  BY <1>1, <1>2 DEF SubjectExists
<1>6. WriteIsOne(c)
  BY <1>1 DEF WriteIsOne
<1>7. CallRight(c, p, ex)
  BY <1>1, <1>2, <1>4, <1>5, <1>6 DEF CallRight
<1>8. QED
  BY <1>1, <1>7 DEF IsBusy, Handlers

LEMMA OpenedKeeps ==
  ASSUME NEW ex \in SUBSET Sessions, NEW f, NEW p \in Pages, NEW b,
         ClientCalls(f, p, b, ex), NEW s \in ex \cup {None}, s # None => Free(f) # {}
  PROVE  ClientCalls(Opened(f, p, s), p, b, ex)
<1>1. CASE s = None
  BY <1>1 DEF Opened
<1>2. CASE s # None
  <2>1. PICK c : c = [Call("open", s, Load(p)) EXCEPT !.page = p]
    OBVIOUS
  <2>2. Opened(f, p, s) = Put(f, c)
    BY <1>2, <2>1 DEF Opened
  <2>3. CallRight(c, p, ex) /\ ~IsBusy(c)
    BY <1>2, <2>1, OpenIsRight
  <2>4. QED
    BY <1>2, <2>2, <2>3, PutKeeps
<1>3. QED
  BY <1>1, <1>2

(* A page that is left: what is still to be set on it is nobody's.         *)
LEMMA UnmountedIsRight ==
  ASSUME NEW c, NEW p, NEW q, NEW ex, CallRight(c, p, ex), Unmounted(c) # None
  PROVE  CallRight(Unmounted(c), q, ex) /\ ~IsBusy(Unmounted(c))
<1>1. PICK d : d = [c EXCEPT !.live = FALSE]
  OBVIOUS
<1>2. Unmounted(c) = d /\ \E n \in DOMAIN c.todo : c.todo[n] \in Writes \cup {"snapshot", "options"}
  BY <1>1 DEF Unmounted
<1>3. c \in CallRow(Head(c.todo))
  BY DEF CallRight
<1>4. /\ d \in CallRow(Head(c.todo)) /\ d.live = FALSE
      /\ d.do = c.do /\ d.todo = c.todo /\ d.page = c.page /\ d.session = c.session
      /\ d.what = c.what /\ d.key = c.key /\ d.answer = c.answer
  BY <1>1, <1>3 DEF CallRow
<1>5. c.do \in Handlers \cup {"initialize", "open"}
  BY <1>3 DEF CallRow
<1>6. Head(c.todo) # "vehicles"
  <2> SUFFICES ASSUME Head(c.todo) = "vehicles" PROVE FALSE
    OBVIOUS
  <2>1. c.todo \in Seq(RequestsOf(c.do, c.page)) /\ c.todo # <<>>
    BY DEF CallRight
  <2>2. "vehicles" \in RequestsOf(c.do, c.page)
    BY <2>1
  <2>3. RequestsOf(c.do, c.page) = {"vehicles"}
    BY <1>5, <2>2 DEF RequestsOf, Handlers
  <2>4. \A n \in DOMAIN c.todo : c.todo[n] = "vehicles"
    BY <2>1, <2>3
  <2>5. QED
    BY <1>2, <2>4 DEF Writes
<1>7. CallRight(d, q, ex)
  BY <1>4, <1>6 DEF CallRight, SubjectExists, WriteIsOne
<1>8. QED
  BY <1>2, <1>4, <1>7 DEF IsBusy

LEMMA UnmountedKeeps ==
  ASSUME NEW f, NEW p, NEW q, NEW ex, CallsRight(f, p, ex)
  PROVE  ClientCalls([i \in Slots |-> Unmounted(f[i])], q, FALSE, ex)
<1> DEFINE g == [i \in Slots |-> Unmounted(f[i])]
<1>1. ASSUME NEW i \in Slots, g[i] # None PROVE CallRight(g[i], q, ex) /\ ~IsBusy(g[i])
  <2>1. g[i] = Unmounted(f[i]) /\ f[i] # None
    BY <1>1 DEF Unmounted
  <2>2. CallRight(f[i], p, ex)
    BY <2>1 DEF CallsRight
  <2>3. QED
    BY <1>1, <2>1, <2>2, UnmountedIsRight
<1>2. \A i \in Slots : ~IsBusy(g[i])
  BY <1>1 DEF IsBusy
<1>3. DOMAIN g = Slots
  OBVIOUS
<1> HIDE DEF g
<1>4. QED
  BY <1>1, <1>2, <1>3 DEF ClientCalls, CallsRight, BusyRight, g

LEMMA MountedKeeps ==
  ASSUME NEW ex \in SUBSET Sessions, stored \in ex \cup {None}, NEW f, NEW p \in Pages,
         ClientCalls(f, p, FALSE, ex), Free(f) # {},
         p \in {"resume", "log"} /\ stored # None => Room(f, 2)
  PROVE  ClientCalls(Mounted(f, p), p, FALSE, ex)
<1>1. CASE p \in {"resume", "log"}
  <2>1. PICK c : c = [Call("initialize", stored, <<"list">>) EXCEPT !.page = p]
    OBVIOUS
  <2>2. CallRight(c, p, ex) /\ ~IsBusy(c)
    BY <1>1, <2>1, InitializeIsRight
  <2>3. ClientCalls(Put(f, c), p, FALSE, ex)
    BY <2>2, PutKeeps
  <2>4. stored # None => Free(Put(f, c)) # {}
    BY <1>1, OneLeft DEF ClientCalls, CallsRight
  <2>5. Mounted(f, p) = Opened(Put(f, c), p, stored)
    BY <1>1, <2>1 DEF Mounted
  <2>6. QED
    BY <2>3, <2>4, <2>5, OpenedKeeps
<1>2. CASE p \in {"guidance", "readiness"}
  <2>1. PICK c : c = [Call("initialize", stored, <<"list">> \o Load(p)) EXCEPT !.page = p]
    OBVIOUS
  <2>2. CallRight(c, p, ex) /\ ~IsBusy(c)
    BY <1>2, <2>1, InitializeIsRight
  <2>3. Mounted(f, p) = Put(f, c)
    BY <1>2, <2>1 DEF Mounted
  <2>4. QED
    BY <2>2, <2>3, PutKeeps
<1>3. CASE p = "start"
  <2>1. PICK c : c = [Call("initialize", stored, <<"vehicles">>) EXCEPT !.page = p]
    OBVIOUS
  <2>2. CallRight(c, p, ex) /\ ~IsBusy(c)
    BY <1>3, <2>1, InitializeIsRight
  <2>3. Mounted(f, p) = Put(f, c)
    BY <1>3, <2>1 DEF Mounted
  <2>4. QED
    BY <2>2, <2>3, PutKeeps
<1>4. QED
  BY <1>1, <1>2, <1>3 DEF Pages

LEMMA CleanedKeeps ==
  ASSUME NEW f, NEW p, NEW b, NEW ex, ClientCalls(f, p, b, ex)
  PROVE  ClientCalls(CleanedUp(f), p, b, ex) /\ Free(CleanedUp(f)) = Free(f)
<1> DEFINE g == CleanedUp(f)
<1>1. DOMAIN f = Slots /\ DOMAIN g = Slots
  BY DEF ClientCalls, CallsRight, CleanedUp
<1>2. ASSUME NEW i \in Slots, g[i] # f[i]
      PROVE  f[i] # None /\ g[i] # None /\ CallRight(g[i], p, ex) /\ (IsBusy(g[i]) <=> IsBusy(f[i]))
  <2>1. f[i] # None /\ g[i] = [f[i] EXCEPT !.active = FALSE]
    BY <1>2 DEF CleanedUp
  <2>2. PICK c, d : c = f[i] /\ d = [c EXCEPT !.active = FALSE]
    OBVIOUS
  <2>3. CallRight(c, p, ex) /\ c \in CallRow(Head(c.todo))
    BY <2>1, <2>2 DEF ClientCalls, CallsRight, CallRight
  <2>4. /\ d \in CallRow(Head(c.todo)) /\ d.live = c.live
        /\ d.do = c.do /\ d.todo = c.todo /\ d.page = c.page /\ d.session = c.session
        /\ d.what = c.what /\ d.key = c.key /\ d.answer = c.answer
    BY <2>2, <2>3 DEF CallRow
  <2>5. CallRight(d, p, ex)
    BY <2>3, <2>4 DEF CallRight, SubjectExists, WriteIsOne
  <2>6. d # None
    BY <2>5, CallIsSomething
  <2>7. IsBusy(d) <=> IsBusy(c)
    BY <2>1, <2>2, <2>4, <2>6 DEF IsBusy
  <2>8. QED
    BY <2>1, <2>2, <2>5, <2>6, <2>7
<1> HIDE DEF g
<1>3. CallsRight(g, p, ex)
  BY <1>1, <1>2 DEF ClientCalls, CallsRight
<1>4. \A i \in Slots : IsBusy(g[i]) <=> IsBusy(f[i])
  BY <1>2
<1>5. BusyRight(g, b)
  BY <1>4 DEF ClientCalls, BusyRight
<1>6. Free(g) = Free(f)
  BY <1>2 DEF Free
<1>7. QED
  BY <1>3, <1>5, <1>6 DEF ClientCalls, g

(* A function goes on with what is left, or returns. *)
LEMMA SlotKeeps ==
  ASSUME NEW f, NEW p, NEW b, NEW ex, ClientCalls(f, p, b, ex), NEW i \in Slots, f[i] # None,
         NEW c, c # None => CallRight(c, p, ex) /\ (IsBusy(c) <=> IsBusy(f[i]))
  PROVE  ClientCalls([f EXCEPT ![i] = c], p, b /\ (IsBusy(f[i]) => c # None), ex)
<1> DEFINE g == [f EXCEPT ![i] = c]
           still == b /\ (IsBusy(f[i]) => c # None)
<1>1. DOMAIN f = Slots
  BY DEF ClientCalls, CallsRight
<1>2. DOMAIN g = Slots /\ g[i] = c /\ \A j \in Slots : j # i => g[j] = f[j]
  BY <1>1
<1>3. ~IsBusy(None)
  BY DEF IsBusy
<1>4. /\ b \in BOOLEAN /\ (b <=> \E j \in Slots : IsBusy(f[j]))
      /\ \A j, k \in Slots : IsBusy(f[j]) /\ IsBusy(f[k]) => j = k
  BY DEF ClientCalls, BusyRight
<1> HIDE DEF g
<1>5. CallsRight(g, p, ex)
  BY <1>2 DEF ClientCalls, CallsRight
<1>6. still <=> \E j \in Slots : IsBusy(g[j])
  <2>1. CASE c # None
    BY <1>2, <1>4, <2>1
  <2>2. CASE c = None
    BY <1>2, <1>3, <1>4, <2>2
  <2>3. QED
    BY <2>1, <2>2
<1>7. \A j, k \in Slots : IsBusy(g[j]) /\ IsBusy(g[k]) => j = k
  BY <1>2, <1>3, <1>4
<1>8. still \in BOOLEAN
  BY <1>4
<1> HIDE DEF still
<1>9. BusyRight(g, still)
  BY <1>6, <1>7, <1>8 DEF BusyRight
<1>10. QED
  BY <1>5, <1>9 DEF ClientCalls, g, still

LEMMA AdvanceKeeps ==
  ASSUME NEW p, NEW ex, ClientCalls(calls, p, busy, ex), NEW i \in Slots, Running(i),
         NEW c, c.todo # <<>> => CallRight(c, p, ex),
         c.do = calls[i].do, c.live = calls[i].live
  PROVE  ClientCalls(Advance(i, c), p, BusyAfter(i, c), ex)
<1> DEFINE d == IF c.todo = <<>> THEN None ELSE c
<1>1. c.todo # <<>> => c # None
  BY CallIsSomething
<1>2. d # None => CallRight(d, p, ex) /\ (IsBusy(d) <=> IsBusy(calls[i]))
  BY <1>1 DEF Running, IsBusy
<1>3. (busy /\ (IsBusy(calls[i]) => d # None)) = BusyAfter(i, c)
  BY <1>1 DEF BusyAfter, IsBusy, Running
<1>4. Advance(i, c) = [calls EXCEPT ![i] = d]
  BY DEF Advance
<1> HIDE DEF d
<1>5. ClientCalls([calls EXCEPT ![i] = d], p, busy /\ (IsBusy(calls[i]) => d # None), ex)
  BY <1>2, SlotKeeps DEF Running
<1>6. QED
  BY <1>3, <1>4, <1>5

LEMMA ReturnKeeps ==
  ASSUME NEW p, NEW ex, ClientCalls(calls, p, busy, ex), NEW i \in Slots, Running(i)
  PROVE  ClientCalls(Returned(i), p, busy /\ ~IsBusy(calls[i]), ex)
<1>1. (busy /\ (IsBusy(calls[i]) => None # None)) = (busy /\ ~IsBusy(calls[i]))
  BY DEF ClientCalls, BusyRight, IsBusy
<1>2. QED
  BY <1>1, SlotKeeps DEF Running, Returned

LEMMA TailIs ==
  ASSUME NEW S, NEW t \in Seq(S), t # <<>>
  PROVE  /\ Head(t) \in S /\ Tail(t) \in Seq(S)
         /\ Tail(t) # <<>> => Head(Tail(t)) \in S /\ Len(t) > 1
<1>1. Head(t) \in S /\ Tail(t) \in Seq(S) /\ Len(Tail(t)) = Len(t) - 1
  OBVIOUS
<1>2. ASSUME NEW u \in Seq(S), u # <<>> PROVE Head(u) \in S /\ Len(u) > 0
  BY <1>2
<1>3. QED
  BY <1>1, <1>2


-----------------------------------------------------------------------------
(* The service *)

(* A request that is accepted is a step of RepairSession. *)
LEMMA ServedIsAStep ==
  ASSUME NEW request, NEW s, NEW k, NEW what, Serve(request, s, k, what),
         request \in {"lease", "domain", "status", "create"} => s \in Sessions,
         request \in {"domain", "status"} => k \in Keys,
         request = "status" => what \in Transitions,
         request = "create" => what \in Vehicles
  PROVE  [Next]_vars
<1>1. CASE request = "lease"
  <2>1. AcquireEditLease(s, Browser, what = "takeover")
    BY <1>1 DEF Serve
  <2>2. (what = "takeover") \in BOOLEAN
    OBVIOUS
  <2>3. QED
    BY <1>1, <2>1, <2>2, BrowserAssumption DEF Next
<1>2. CASE request = "domain"
  <2>1. DomainMutation(s, k, Browser)
    BY <1>2 DEF Serve
  <2>2. QED
    BY <1>2, <2>1, BrowserAssumption DEF Next
<1>3. CASE request = "status"
  <2>1. AppendStatusEvent(s, what, k, Browser)
    BY <1>3 DEF Serve
  <2>2. what \in LIFECYCLE_EVENT_TYPES
    BY <1>3 DEF Transitions, LIFECYCLE_EVENT_TYPES
  <2>3. QED
    BY <1>3, <2>1, <2>2, BrowserAssumption DEF Next
<1>4. CASE request = "create"
  <2>1. CreateRepairSession(s, what, Browser)
    BY <1>4 DEF Serve
  <2>2. QED
    BY <1>4, <2>1, BrowserAssumption DEF Next
<1>5. CASE request \notin {"lease", "domain", "status", "create"}
  BY <1>5 DEF Serve
<1>6. QED
  BY <1>1, <1>2, <1>3, <1>4, <1>5

LEMMA HistoryGrows ==
  ASSUME IInv, [Next]_vars, NEW s \in Sessions
  PROVE  events[s] \subseteq events'[s]
<1>1. CASE events' = events
  BY <1>1
<1>2. ASSUME NEW t \in Sessions, NEW S, events' = [events EXCEPT ![t] = S], events[t] \subseteq S
      PROVE  events[s] \subseteq events'[s]
  BY <1>2 DEF IInv
<1>3. ASSUME NEW t \in Sessions, NEW v \in Vehicles, NEW d \in Devices, CreateRepairSession(t, v, d)
      PROVE  events[s] \subseteq events'[s]
  <2>1. events[t] = {}
    BY <1>3, NullAssumption DEF IInv, Good, CreateRepairSession
  <2>2. QED
    BY <1>2, <1>3, <2>1 DEF CreateRepairSession
<1>4. ASSUME NEW t \in Sessions, NEW p, NEW type, NEW k, NEW d, AppendRow(t, p, type, k, d)
      PROVE  events[s] \subseteq events'[s]
  <2>1. PICK row : events' = [events EXCEPT ![t] = events[t] \cup {row}]
    BY <1>4 DEF AppendRow
  <2>2. QED
    BY <1>2, <2>1
<1>5. ASSUME NEW t \in Sessions, NEW k \in Keys, NEW d \in Devices, DomainMutation(t, k, d)
      PROVE  events[s] \subseteq events'[s]
  BY <1>4, <1>5 DEF DomainMutation, AppendDomainEvent
<1>6. ASSUME NEW t \in Sessions, NEW k \in Keys, NEW d \in Devices,
             NEW type \in LIFECYCLE_EVENT_TYPES, AppendStatusEvent(t, type, k, d)
      PROVE  events[s] \subseteq events'[s]
  BY <1>4, <1>6 DEF AppendStatusEvent
<1>7. CASE UNCHANGED vars
  BY <1>1, <1>7 DEF vars
<1>8. CASE Next
  BY <1>1, <1>3, <1>5, <1>6, <1>8 DEF Next, Tick, ArchiveUserVehicle, RepeatCreateRepairSession,
     ResumeRepairSession, EventHistory, AcquireEditLease, RepeatMutation, LoseProjection,
     StaleProjection
<1>9. QED
  BY <1>7, <1>8

(* A session is there exactly when its log has rows, so none disappears.   *)
LEMMA SessionsStay ==
  ASSUME IInv, [Next]_vars
  PROVE  /\ IInv' /\ Existing \subseteq Existing'
         /\ \A s \in Sessions : s \in Existing' <=> events'[s] # {}
<1>1. IInv'
  BY NextIInv
<1>2. ASSUME NEW s \in Sessions PROVE session[s] # NoSession <=> events[s] # {}
  <2>1. Good(session[s], events[s], projection[s])
    BY DEF IInv
  <2>2. HasHead(events[s]) => events[s] # {}
    BY DEF HasHead
  <2>3. QED
    BY <2>1, <2>2, NullAssumption DEF Good
<1>3. ASSUME NEW s \in Sessions PROVE session'[s] # NoSession <=> events'[s] # {}
  <2>1. Good(session'[s], events'[s], projection'[s])
    BY <1>1 DEF IInv
  <2>2. HasHead(events'[s]) => events'[s] # {}
    BY DEF HasHead
  <2>3. QED
    BY <2>1, <2>2, NullAssumption DEF Good
<1>4. QED
  BY <1>1, <1>2, <1>3, HistoryGrows DEF Existing

LEMMA MoreSessions ==
  ASSUME NEW f, NEW p, NEW ex, NEW more, ex \subseteq more, CallsRight(f, p, ex)
  PROVE  CallsRight(f, p, more)
<1>1. ASSUME NEW c, CallRight(c, p, ex) PROVE CallRight(c, p, more)
  BY <1>1 DEF CallRight, SubjectExists
<1>2. QED
  BY <1>1 DEF CallsRight

LEMMA LateSessions ==
  ASSUME NEW r, NEW ex, NEW more, ex \subseteq more, LateRight(r, ex)
  PROVE  LateRight(r, more)
BY DEF LateRight

(* The service moved on, the browser did not. *)
LEMMA ServiceKeeps ==
  ASSUME IInv, [Next]_vars, ClientInv, UNCHANGED <<pageVars, stored>>,
         ClientCalls(calls', page, busy, Existing'), late' \subseteq late
  PROVE  ClientInv'
<1>1. Existing \subseteq Existing'
  BY SessionsStay
<1>2. /\ page' = page /\ selected' = selected /\ listed' = listed /\ shown' = shown
      /\ busy' = busy /\ pending' = pending /\ stored' = stored
  BY DEF pageVars
<1>3. PageRight(page, selected, listed, Existing')
  BY <1>1 DEF ClientInv, PageRight
<1>4. \A r \in late' : LateRight(r, Existing')
  BY <1>1, LateSessions DEF ClientInv
<1>5. QED
  BY <1>1, <1>2, <1>3, <1>4 DEF ClientInv, ClientCalls

(* The request a function awaits is one of its own. *)
LEMMA AwaitedRequest ==
  ASSUME NEW ex \in SUBSET Sessions, NEW c, NEW p, CallRight(c, p, ex)
  PROVE  /\ Head(c.todo) \in RequestsOf(c.do, c.page) /\ c.page \in Pages
         /\ c.do \in Handlers \cup {"initialize", "open"} /\ c.session \in Sessions \cup {None}
         /\ Head(c.todo) \in Writes => c.do = Head(c.todo)
         /\ Head(c.todo) = "list" => c.do \in {"initialize", "status"}
         /\ Head(c.todo) = "vehicles" => c.do = "initialize" /\ c.page = "start"
         /\ Head(c.todo) = "options" => c.do = "create"
         /\ Head(c.todo) \in Writes => c.session \in Sessions
<1>1. c \in CallRow(Head(c.todo)) /\ c.todo \in Seq(RequestsOf(c.do, c.page)) /\ c.todo # <<>>
  BY DEF CallRight
<1>2. /\ c.page \in Pages /\ c.do \in Handlers \cup {"initialize", "open"}
      /\ c.session \in Sessions \cup {None}
  BY <1>1 DEF CallRow
<1>3. PICK r : r = Head(c.todo)
  OBVIOUS
<1>4. r \in RequestsOf(c.do, c.page)
  BY <1>1, <1>3
<1>5. /\ r \in Writes => c.do = r
      /\ r = "list" => c.do \in {"initialize", "status"}
      /\ r = "vehicles" => c.do = "initialize" /\ c.page = "start"
      /\ r = "options" => c.do = "create"
  BY <1>2, <1>4 DEF RequestsOf, Writes, Handlers, Pages
<1>6. r \in Writes => c.session \in Sessions
  BY <1>5 DEF Writes, CallRight, SubjectExists
<1>7. QED
  BY <1>2, <1>3, <1>4, <1>5, <1>6

LEMMA AnswerIsTyped ==
  ASSUME NEW c
  PROVE  AnswerOf(c) \in AnswersTo(Head(c.todo))
<1>1. CASE Head(c.todo) = "list"
  BY <1>1 DEF AnswerOf, AnswersTo
<1>2. CASE Head(c.todo) = "vehicles"
  BY <1>2 DEF AnswerOf, AnswersTo
<1>3. CASE Head(c.todo) \in {"snapshot", "refresh"}
  <2>1. Snapshot(c) \in SnapshotRow
    BY DEF Snapshot, SnapshotRow, LeaseShown, LeaseView
  <2>2. QED
    BY <1>3, <2>1 DEF AnswerOf, AnswersTo
<1>4. CASE Head(c.todo) \notin {"list", "vehicles", "snapshot", "refresh"}
  BY <1>4 DEF AnswerOf, AnswersTo
<1>5. QED
  BY <1>1, <1>2, <1>3, <1>4

(* A row of ServeLate or a request of a function, accepted. *)
LEMMA RequestIsAStep ==
  ASSUME NEW ex \in SUBSET Sessions, NEW c, NEW p, CallRight(c, p, ex),
         \/ Head(c.todo) \in Writes /\ Serve(Head(c.todo), c.session, c.key, c.what)
         \/ Head(c.todo) \notin Writes /\ UNCHANGED vars
  PROVE  [Next]_vars
<1>1. CASE Head(c.todo) \notin Writes
  BY <1>1
<1>2. CASE Head(c.todo) \in Writes
  <2>1. c.do = Head(c.todo) /\ c.session \in Sessions
    BY <1>2, AwaitedRequest
  <2>2. /\ Head(c.todo) \in {"domain", "status"} => c.key \in Keys
        /\ Head(c.todo) = "status" => c.what \in Transitions
        /\ Head(c.todo) = "create" => c.what \in Vehicles
    BY <2>1 DEF CallRight, WriteIsOne, SubjectExists
  <2>3. QED
    BY <1>2, <2>1, <2>2, ServedIsAStep
<1>3. QED
  BY <1>1, <1>2

LEMMA CreatedExists ==
  ASSUME IInv, [Next]_vars, NEW s \in Sessions, NEW v, NEW d, CreateRepairSession(s, v, d)
  PROVE  s \in Existing'
<1>1. PICK row : events' = [events EXCEPT ![s] = {row}]
  BY DEF CreateRepairSession
<1>2. events'[s] # {}
  BY <1>1 DEF IInv
<1>3. QED
  BY <1>2, SessionsStay

LEMMA ServeRequestKeeps ==
  ASSUME IInv, ClientInv, NEW i \in Slots, ServeRequest(i)
  PROVE  [Next]_vars /\ ClientInv'
<1>1. PICK c, a, d : /\ c = calls[i] /\ a = AnswerOf(c) /\ d = [c EXCEPT !.answer = a]
                     /\ calls' = [calls EXCEPT ![i] = d]
  BY DEF ServeRequest
<1>2. c # None /\ CallRight(c, page, Existing) /\ ClientCalls(calls, page, busy, Existing)
  BY <1>1 DEF ServeRequest, Running, ClientInv, CallsRight, ClientCalls
<1>3. Existing \in SUBSET Sessions
  BY DEF Existing
<1>4. \/ Head(c.todo) \in Writes /\ Serve(Head(c.todo), c.session, c.key, c.what)
      \/ Head(c.todo) \notin Writes /\ UNCHANGED vars
  BY <1>1 DEF ServeRequest
<1>5. [Next]_vars
  BY <1>2, <1>3, <1>4, RequestIsAStep
<1>6. Existing \subseteq Existing'
  BY <1>5, SessionsStay
<1>7. /\ d \in CallRow(Head(c.todo)) /\ d.answer = a
      /\ d.do = c.do /\ d.page = c.page /\ d.todo = c.todo /\ d.session = c.session
      /\ d.key = c.key /\ d.what = c.what /\ d.live = c.live
  <2>1. c \in CallRow(Head(c.todo)) /\ a \in AnswersTo(Head(c.todo))
    BY <1>1, <1>2, AnswerIsTyped DEF CallRight
  <2>2. QED
    BY <1>1, <2>1 DEF CallRow
<1>8. c.do = "create" /\ Head(c.todo) = "create" => c.session \in Existing'
  <2> SUFFICES ASSUME c.do = "create", Head(c.todo) = "create" PROVE c.session \in Existing'
    OBVIOUS
  <2>1. c.session \in Sessions
    BY <1>2 DEF CallRight, SubjectExists
  <2>2. CreateRepairSession(c.session, c.what, Browser)
    BY <1>4 DEF Serve, Writes
  <2>3. QED
    BY <1>5, <2>1, <2>2, CreatedExists
<1>9. SubjectExists(d, Existing')
  <2>1. Head(c.todo) \in {"create", "options"} \/ c.do # "create"
    BY <1>2, <1>3, AwaitedRequest DEF RequestsOf
  <2>2. QED
    BY <1>2, <1>6, <1>7, <1>8, <2>1 DEF CallRight, SubjectExists
<1>10. Head(c.todo) = "list" => a \subseteq Existing'
  BY <1>1, <1>6 DEF AnswerOf, Listed, Existing
<1>11. CallRight(d, page, Existing')
  BY <1>2, <1>7, <1>9, <1>10 DEF CallRight, WriteIsOne
<1>12. ClientCalls(calls, page, busy, Existing')
  BY <1>2, <1>6, MoreSessions DEF ClientCalls
<1>13. d # None /\ (IsBusy(d) <=> IsBusy(c))
  <2>1. d # None
    BY <1>11, CallIsSomething
  <2>2. QED
    BY <1>2, <1>7, <2>1 DEF IsBusy
<1>14. ClientCalls(calls', page, busy /\ (IsBusy(calls[i]) => d # None), Existing')
  <2>1. PICK more : more = Existing'
    OBVIOUS
  <2>2. calls[i] # None /\ (IsBusy(d) <=> IsBusy(calls[i]))
    BY <1>1, <1>2, <1>13
  <2>3. ClientCalls(calls, page, busy, more) /\ CallRight(d, page, more)
    BY <1>11, <1>12, <2>1
  <2>4. ClientCalls([calls EXCEPT ![i] = d], page, busy /\ (IsBusy(calls[i]) => d # None), more)
    BY <2>2, <2>3, SlotKeeps
  <2>5. QED
    BY <1>1, <2>1, <2>4
<1>15. (busy /\ (IsBusy(calls[i]) => d # None)) = busy
  BY <1>2, <1>13 DEF ClientCalls, BusyRight
<1>16. QED
  BY <1>5, <1>14, <1>15, ServiceKeeps DEF ServeRequest

LEMMA ServeLateKeeps ==
  ASSUME IInv, ClientInv, NEW r \in late, ServeLate(r) \/ LoseLate(r)
  PROVE  [Next]_vars /\ ClientInv'
<1>1. LateRight(r, Existing)
  BY DEF ClientInv
<1>2. /\ r.request \in {"lease", "domain", "status", "create"} => r.session \in Sessions
      /\ r.request \in {"domain", "status"} => r.key \in Keys
      /\ r.request = "status" => r.what \in Transitions
      /\ r.request = "create" => r.what \in Vehicles
  BY <1>1 DEF LateRight, Existing
<1>3. [Next]_vars
  BY <1>2, ServedIsAStep DEF ServeLate, LoseLate
<1>4. Existing \subseteq Existing'
  BY <1>3, SessionsStay
<1>5. calls' = calls /\ UNCHANGED <<pageVars, stored>> /\ late' \subseteq late
  BY DEF ServeLate, LoseLate
<1>6. ClientCalls(calls', page, busy, Existing')
  BY <1>4, <1>5, MoreSessions DEF ClientInv, ClientCalls
<1>7. QED
  BY <1>3, <1>5, <1>6, ServiceKeeps

LEMMA ElsewhereKeeps ==
  ASSUME IInv, ClientInv, Elsewhere
  PROVE  [Next]_vars /\ ClientInv'
<1>1. [Next]_vars
  BY DEF Elsewhere, Next
<1>2. Existing \subseteq Existing'
  BY <1>1, SessionsStay
<1>3. calls' = calls /\ UNCHANGED <<pageVars, stored>> /\ late' \subseteq late
  BY DEF Elsewhere, clientVars
<1>4. ClientCalls(calls', page, busy, Existing')
  BY <1>2, <1>3, MoreSessions DEF ClientInv, ClientCalls
<1>5. QED
  BY <1>1, <1>3, <1>4, ServiceKeeps

-----------------------------------------------------------------------------
(* The owner *)

(* A step of the browser alone. *)
LEMMA BrowserKeeps ==
  ASSUME ClientInv, UNCHANGED vars, ClientCalls(calls', page', busy', Existing),
         PageRight(page', selected', listed', Existing), ShownRight(shown'),
         stored' \in Existing \cup {None}, pending' \in Existing \cup {None},
         \A r \in late' : LateRight(r, Existing)
  PROVE  [Next]_vars /\ ClientInv'
<1>1. session' = session
  BY DEF vars
<1>2. Existing' = Existing
  BY <1>1 DEF Existing
<1>3. QED
  BY <1>2 DEF ClientInv, ClientCalls

LEMMA NothingIsShown == ShownRight(NothingShown)
BY DEF ShownRight, NothingShown

LEMMA NavigateKeeps ==
  ASSUME ClientInv, NEW p \in Pages, Navigate(p)
  PROVE  [Next]_vars /\ ClientInv'
<1> DEFINE rest == [i \in Slots |-> Unmounted(calls[i])]
<1>1. PICK f : f = rest
  OBVIOUS
<1>2. /\ Room(f, Started(p, stored))
      /\ UNCHANGED <<vars, stored, late>> /\ Render(p, f) /\ calls' = Mounted(f, p)
  BY <1>1 DEF Navigate
<1>3. ClientCalls(f, p, FALSE, Existing)
  BY <1>1, UnmountedKeeps DEF ClientInv
<1>4. Existing \in SUBSET Sessions /\ stored \in Existing \cup {None}
  BY DEF Existing, ClientInv
<1>5. Free(f) # {} /\ (p \in {"resume", "log"} /\ stored # None => Room(f, 2))
  BY <1>2, RoomIsFree DEF Started
<1>6. ClientCalls(Mounted(f, p), p, FALSE, Existing)
  BY <1>3, <1>4, <1>5, MountedKeeps
<1>7. /\ page' = p /\ selected' = (IF p = "start" THEN None ELSE stored) /\ listed' = {}
      /\ shown' = NothingShown /\ busy' = FALSE /\ pending' = None
  BY <1>2 DEF Render
<1>8. PageRight(page', selected', listed', Existing)
  BY <1>4, <1>7 DEF PageRight
<1>9. QED
  BY <1>2, <1>4, <1>6, <1>7, <1>8, NothingIsShown, BrowserKeeps DEF ClientInv

LEMMA ShownForgets ==
  ASSUME NEW v, ShownRight(v)
  PROVE  ShownRight([v EXCEPT !.guidance = None])
<1>1. PICK a, b, c, d : v = [session |-> a, lease |-> b, held |-> c, guidance |-> d]
  BY DEF ShownRight
<1>2. [v EXCEPT !.guidance = None] = [session |-> a, lease |-> b, held |-> c, guidance |-> None]
  BY <1>1
<1>3. v.session = a /\ v.lease = b /\ v.held = c
  BY <1>1
<1>4. QED
  BY <1>2, <1>3 DEF ShownRight

(* A new function of a handler, in full. *)
HandlerCall(do, s, todo, k, what, p) ==
  [page |-> p, do |-> do, session |-> s, todo |-> todo, key |-> k, what |-> what,
   live |-> TRUE, active |-> TRUE, answer |-> None]

LEMMA HandlerIs ==
  ASSUME NEW do, NEW s, NEW todo, NEW what
  PROVE  /\ Call(do, s, todo) = HandlerCall(do, s, todo, None, None, page)
         /\ [Call(do, s, todo) EXCEPT !.what = what] = HandlerCall(do, s, todo, None, what, page)
<1>1. PICK b : b = Call(do, s, todo)
  OBVIOUS
<1>2. b = HandlerCall(do, s, todo, None, None, page)
  BY <1>1, Zenon DEF Call, HandlerCall
<1>3. PICK c : c = [b EXCEPT !.what = what]
  OBVIOUS
<1>4. c = HandlerCall(do, s, todo, None, what, page)
  BY <1>2, <1>3 DEF HandlerCall
<1>5. QED
  BY <1>1, <1>2, <1>3, <1>4

LEMMA KeyedHandlerIs ==
  ASSUME NEW do, NEW s, NEW todo, NEW k, NEW what
  PROVE  [Call(do, s, todo) EXCEPT !.key = k, !.what = what]
           = HandlerCall(do, s, todo, k, what, page)
<1>1. PICK b : b = Call(do, s, todo)
  OBVIOUS
<1>2. b = HandlerCall(do, s, todo, None, None, page)
  BY <1>1, Zenon DEF Call, HandlerCall
<1>3. PICK d : d = [b EXCEPT !.key = k, !.what = what]
  OBVIOUS
<1>4. d = HandlerCall(do, s, todo, k, what, page)
  BY <1>2, <1>3 DEF HandlerCall
<1>5. QED
  BY <1>1, <1>3, <1>4

LEMMA HandlerTyped ==
  ASSUME NEW do \in Handlers, NEW s \in Sessions \cup {None}, NEW todo \in Seq(Writes \cup Reads),
         NEW k \in Keys \cup {None}, NEW what \in Subjects, NEW p \in Pages, NEW c,
         c = HandlerCall(do, s, todo, k, what, p)
  PROVE  c \in CallRow(Head(todo))
BY NewCallTyped DEF HandlerCall

LEMMA HandlerHas ==
  ASSUME NEW do, NEW s, NEW todo, NEW k, NEW what, NEW p, NEW c,
         c = HandlerCall(do, s, todo, k, what, p)
  PROVE  /\ c.do = do /\ c.session = s /\ c.todo = todo
         /\ c.key = k /\ c.what = what /\ c.page = p /\ c.live /\ c.answer = None
<1>1. c.do = do /\ c.session = s /\ c.todo = todo /\ c.key = k /\ c.what = what
  BY DEF HandlerCall
<1>2. c.page = p /\ c.live /\ c.answer = None
  BY DEF HandlerCall
<1>3. QED
  BY <1>1, <1>2

(* What a handler goes through, and what it says. *)
HandlerTodo(do, todo, what, p) ==
  /\ todo \in Seq(RequestsOf(do, p)) /\ todo \in Seq(Writes \cup Reads) /\ todo # <<>>
  /\ Head(todo) # "vehicles"
  /\ do = "lease" => what \in {"acquire", "takeover"}
  /\ do = "status" => what \in Transitions /\ p = "resume"
  /\ do = "bind" => /\ Head(todo) = "bind" /\ Tail(todo) \in Seq(Reads)
                    /\ p # "start" => Len(todo) > 1
  /\ do = "plan" => todo = <<"plan">>

LEMMA HandlerIsRight ==
  ASSUME NEW ex \in SUBSET Sessions, NEW do \in Handlers \ {"create"}, NEW s \in ex \cup {None},
         NEW k \in Keys \cup {None}, NEW what \in Subjects, NEW p \in Pages, NEW todo,
         HandlerTodo(do, todo, what, p), NEW c, c = HandlerCall(do, s, todo, k, what, p),
         do # "plan" => s \in ex, do \in {"domain", "status"} => k \in Keys
  PROVE  CallRight(c, p, ex) /\ c.do \in Handlers /\ c.live
<1>1. /\ c.do = do /\ c.session = s /\ c.todo = todo
      /\ c.key = k /\ c.what = what /\ c.page = p /\ c.live /\ c.answer = None
  BY HandlerHas
<1>2. todo \in Seq(Writes \cup Reads) /\ s \in Sessions \cup {None} /\ do \in Handlers
  BY DEF HandlerTodo
<1>3. c \in CallRow(Head(todo))
  BY <1>2, HandlerTyped
<1>4. SubjectExists(c, ex)
  BY <1>1 DEF SubjectExists, HandlerTodo, Handlers
<1>5. WriteIsOne(c)
  BY <1>1 DEF WriteIsOne, HandlerTodo
<1>6. QED
  BY <1>1, <1>3, <1>4, <1>5 DEF CallRight, HandlerTodo

LEMMA HandleKeeps ==
  ASSUME ClientInv, NEW c, CallRight(c, page, Existing), c.do \in Handlers, c.live, Handle(c),
         ShownRight(shown'), pending' \in Existing \cup {None}
  PROVE  [Next]_vars /\ ClientInv'
<1>1. Free(calls) # {} /\ ~busy /\ busy' = TRUE /\ calls' = Put(calls, c)
  BY RoomIsFree DEF Handle, Ready
<1>2. IsBusy(c) = TRUE
  BY CallIsSomething DEF IsBusy
<1>3. ClientCalls(calls', page, busy', Existing)
  <2>1. ClientCalls(calls, page, busy, Existing)
    BY DEF ClientInv, ClientCalls
  <2>2. ClientCalls(Put(calls, c), page, IsBusy(c), Existing)
    BY <1>1, <2>1, PutKeeps
  <2>3. QED
    BY <1>1, <1>2, <2>2
<1>4. /\ UNCHANGED vars /\ page' = page /\ selected' = selected /\ listed' = listed
      /\ stored' = stored /\ late' = late
  BY DEF Handle
<1>5. QED
  BY <1>3, <1>4, BrowserKeeps DEF ClientInv

LEMMA SelectedExists ==
  ASSUME ClientInv, page # "start", selected # None
  PROVE  selected \in Existing /\ selected \in Sessions
BY DEF ClientInv, PageRight, Existing

LEMMA LeaseActionKeeps ==
  ASSUME ClientInv, LeaseAction
  PROVE  [Next]_vars /\ ClientInv'
<1> DEFINE w == IF shown.lease = "held_by_other" THEN "takeover" ELSE "acquire"
           t == <<"lease">> \o Load(page)
<1>1. PICK c : c = [Call("lease", selected, t) EXCEPT !.what = w]
  OBVIOUS
<1>2. page \in Pages /\ selected \in Existing
  BY SelectedExists DEF LeaseAction, ClientInv, PageRight
<1>3. t \in Seq({"lease", "snapshot", "guidance"}) /\ t \in Seq(Writes \cup Reads)
      /\ t # <<>> /\ Head(t) = "lease"
  BY RequestThenLoad DEF Writes, Reads
<1>4. w \in {"acquire", "takeover"} /\ w \in Subjects
  BY DEF Subjects
<1>5. Handle(c) /\ UNCHANGED <<shown, pending>>
  BY <1>1 DEF LeaseAction
<1> HIDE DEF w, t
<1>6. c = HandlerCall("lease", selected, t, None, w, page)
  BY <1>1, HandlerIs
<1>7. RequestsOf("lease", page) = {"lease", "snapshot", "guidance"} /\ "lease" \in Handlers
  BY DEF RequestsOf, Handlers
<1>8. HandlerTodo("lease", t, w, page)
  BY <1>3, <1>4, <1>7 DEF HandlerTodo
<1>9. CallRight(c, page, Existing) /\ c.do \in Handlers /\ c.live
  <2>1. /\ Existing \in SUBSET Sessions /\ selected \in Existing \cup {None}
        /\ "lease" \in Handlers \ {"create"} /\ None \in Keys \cup {None}
    BY <1>2, <1>7 DEF Existing
  <2>2. QED
    BY <1>2, <1>4, <1>6, <1>8, <2>1, HandlerIsRight
<1>10. QED
  BY <1>5, <1>9, HandleKeeps DEF ClientInv

LEMMA MutateKeeps ==
  ASSUME ClientInv, NEW k \in Keys, NEW what \in Transitions \cup {"recorded", "verified"},
         Mutate(k, what)
  PROVE  [Next]_vars /\ ClientInv'
<1> DEFINE do == IF what \in Transitions THEN "status" ELSE "domain"
           t == MutationTodo(what)
<1>1. PICK c : c = [Call(do, selected, t) EXCEPT !.key = k, !.what = what]
  OBVIOUS
<1>2. /\ page \in Pages /\ selected \in Existing
      /\ what \in Transitions => page = "resume"
      /\ what = "verified" => page = "readiness"
  BY SelectedExists DEF Mutate, ClientInv, PageRight
<1>3. Handle(c) /\ UNCHANGED <<shown, pending>>
  BY <1>1 DEF Mutate
<1>4. what \in Subjects /\ do \in Handlers \ {"create"} /\ do \in {"status", "domain"}
  BY DEF Subjects, Handlers, Transitions
<1>5. HandlerTodo(do, t, what, page)
  <2>1. CASE what \in Transitions
    <3>1. do = "status" /\ page = "resume"
      BY <1>2, <2>1
    <3>2. RequestsOf("status", page) = {"status", "list", "snapshot", "guidance"}
      BY DEF RequestsOf
    <3>3. t \in Seq({"status", "list", "snapshot", "guidance"}) /\ t # <<>> /\ Head(t) = "status"
      <4>1. CASE what = "session_archived"
        <5>1. t = <<"status", "list">>
          BY <4>1 DEF MutationTodo, Transitions
        <5>2. QED
          BY <5>1
      <4>2. CASE what # "session_archived"
        <5>1. t = <<"status", "list">> \o <<"snapshot">>
          BY <2>1, <3>1, <4>2 DEF MutationTodo, Transitions, Load
        <5>2. QED
          BY <5>1
      <4>3. QED
        BY <4>1, <4>2
    <3>4. {"status", "list", "snapshot", "guidance"} \subseteq Writes \cup Reads
      BY DEF Writes, Reads
    <3> HIDE DEF t, do
    <3>5. t \in Seq(Writes \cup Reads)
      BY <3>3, <3>4
    <3>6. QED
      BY <2>1, <3>1, <3>2, <3>3, <3>5 DEF HandlerTodo
  <2>2. CASE what \notin Transitions
    <3>1. do = "domain"
      BY <2>2
    <3>2. RequestsOf("domain", page) = {"domain", "refresh", "snapshot", "guidance"}
      BY DEF RequestsOf
    <3>3. t \in Seq({"domain", "refresh", "snapshot", "guidance"}) /\ t # <<>>
          /\ Head(t) = "domain"
      <4>1. CASE what = "verified"
        <5>1. t = <<"domain", "refresh">>
          BY <4>1 DEF MutationTodo, Transitions
        <5>2. QED
          BY <5>1
      <4>2. CASE what # "verified"
        <5>1. t = <<"domain">> \o Load(page)
          BY <2>2, <4>2 DEF MutationTodo, Transitions
        <5>2. QED
          BY <5>1, RequestThenLoad
      <4>3. QED
        BY <4>1, <4>2
    <3>4. {"domain", "refresh", "snapshot", "guidance"} \subseteq Writes \cup Reads
      BY DEF Writes, Reads
    <3> HIDE DEF t, do
    <3>5. t \in Seq(Writes \cup Reads)
      BY <3>3, <3>4
    <3>6. QED
      BY <3>1, <3>2, <3>3, <3>5 DEF HandlerTodo
  <2>3. QED
    BY <2>1, <2>2
<1> HIDE DEF t, do
<1>6. c = HandlerCall(do, selected, t, k, what, page)
  BY <1>1, KeyedHandlerIs
<1>7. CallRight(c, page, Existing) /\ c.do \in Handlers /\ c.live
  <2>1. /\ Existing \in SUBSET Sessions /\ selected \in Existing \cup {None}
        /\ k \in Keys \cup {None}
    BY <1>2 DEF Existing
  <2>2. QED
    BY <1>2, <1>4, <1>5, <1>6, <2>1, HandlerIsRight
<1>8. QED
  BY <1>3, <1>7, HandleKeeps DEF ClientInv

LEMMA BindKeeps ==
  ASSUME ClientInv, BindVerifiedRepair
  PROVE  [Next]_vars /\ ClientInv'
<1>1. /\ RequestsOf("bind", page) = {"bind", "snapshot", "guidance"}
      /\ "bind" \in Handlers \ {"create"} /\ None \in Subjects /\ None \in Keys \cup {None}
      /\ {"bind", "snapshot", "guidance"} \subseteq Writes \cup Reads
  BY DEF RequestsOf, Handlers, Subjects, Writes, Reads
<1>2. Existing \in SUBSET Sessions /\ page \in Pages
  BY DEF Existing, ClientInv, PageRight
<1>3. CASE page = "readiness" /\ selected # None /\ CanEdit
                              /\ Handle(Call("bind", selected, <<"bind">> \o Load(page)))
                              /\ UNCHANGED <<shown, pending>>
  <2> DEFINE t == <<"bind">> \o Load(page)
  <2>1. PICK c : c = Call("bind", selected, t)
    OBVIOUS
  <2>2. /\ t \in Seq({"bind", "snapshot", "guidance"}) /\ t # <<>>
        /\ Head(t) = "bind" /\ Len(t) > 1
    BY RequestThenLoad
  <2>10. Tail(t) \in Seq(Reads)
    <3>1. Load(page) \in Seq(Reads)
      BY LoadRequests DEF Reads
    <3>2. QED
      BY <3>1, TailOfRequest
  <2>3. Handle(c)
    BY <1>3, <2>1
  <2> HIDE DEF t
  <2>4. HandlerTodo("bind", t, None, page)
    BY <1>1, <2>2, <2>10 DEF HandlerTodo
  <2>5. selected \in Existing
    BY <1>3, SelectedExists
  <2>6. c = HandlerCall("bind", selected, t, None, None, page)
    BY <2>1, HandlerIs
  <2>7. CallRight(c, page, Existing) /\ c.do \in Handlers /\ c.live
    BY <1>1, <1>2, <2>4, <2>5, <2>6, HandlerIsRight
  <2>8. QED
    BY <1>3, <2>3, <2>7, HandleKeeps DEF ClientInv
<1>4. CASE page = "start" /\ pending # None /\ Handle(Call("bind", pending, <<"bind">>))
                          /\ UNCHANGED <<shown, pending>>
  <2> DEFINE t == <<"bind">>
  <2>1. PICK c : c = Call("bind", pending, t)
    OBVIOUS
  <2>2. t \in Seq({"bind", "snapshot", "guidance"}) /\ t # <<>> /\ Head(t) = "bind"
    OBVIOUS
  <2>10. Tail(t) \in Seq(Reads)
    OBVIOUS
  <2>3. Handle(c)
    BY <1>4, <2>1
  <2> HIDE DEF t
  <2>4. HandlerTodo("bind", t, None, page)
    BY <1>1, <1>4, <2>2, <2>10 DEF HandlerTodo
  <2>5. pending \in Existing
    BY <1>4 DEF ClientInv
  <2>6. c = HandlerCall("bind", pending, t, None, None, page)
    BY <2>1, HandlerIs
  <2>7. CallRight(c, page, Existing) /\ c.do \in Handlers /\ c.live
    BY <1>1, <1>2, <2>4, <2>5, <2>6, HandlerIsRight
  <2>8. QED
    BY <1>4, <2>3, <2>7, HandleKeeps DEF ClientInv
<1>5. QED
  BY <1>3, <1>4 DEF BindVerifiedRepair

LEMMA TogglePlanKeeps ==
  ASSUME ClientInv, TogglePlan
  PROVE  [Next]_vars /\ ClientInv'
<1> DEFINE t == <<"plan">>
<1>1. PICK c : c = Call("plan", selected, t)
  OBVIOUS
<1>2. Handle(c) /\ UNCHANGED <<shown, pending>> /\ page = "guidance"
  BY <1>1 DEF TogglePlan
<1>3. HandlerTodo("plan", t, None, page)
  <2>1. "plan" \in RequestsOf("plan", page) /\ "plan" \in Writes \cup Reads
    BY DEF RequestsOf, Reads
  <2>2. QED
    BY <2>1 DEF HandlerTodo
<1> HIDE DEF t
<1>4. c = HandlerCall("plan", selected, t, None, None, page)
  BY <1>1, HandlerIs
<1>5. /\ "plan" \in Handlers \ {"create"} /\ None \in Subjects /\ None \in Keys \cup {None}
      /\ Existing \in SUBSET Sessions /\ page \in Pages
  BY <1>2 DEF Handlers, Subjects, Existing, Pages
<1>6. selected \in Existing \cup {None}
  BY <1>2 DEF ClientInv, PageRight
<1>7. CallRight(c, page, Existing) /\ c.do \in Handlers /\ c.live
  <2>1. PICK do, k, what : do = "plan" /\ k = None /\ what = None
    OBVIOUS
  <2>2. (do # "plan" => selected \in Existing) /\ (do \in {"domain", "status"} => k \in Keys)
    BY <2>1
  <2>3. HandlerTodo(do, t, what, page) /\ c = HandlerCall(do, selected, t, k, what, page)
    BY <1>3, <1>4, <2>1
  <2>4. do \in Handlers \ {"create"} /\ k \in Keys \cup {None} /\ what \in Subjects
    BY <1>5, <2>1
  <2>5. QED
    BY <1>5, <1>6, <2>2, <2>3, <2>4, HandlerIsRight
<1>8. QED
  BY <1>2, <1>7, HandleKeeps DEF ClientInv

LEMMA CreateRepairKeeps ==
  ASSUME ClientInv, NEW s \in Sessions, CreateRepair(s)
  PROVE  [Next]_vars /\ ClientInv'
<1> DEFINE t == <<"create", "options">>
<1>1. PICK c : c = [Call("create", s, t) EXCEPT !.key = s, !.what = selected]
  OBVIOUS
<1>2. Handle(c) /\ UNCHANGED shown /\ pending' = None /\ page = "start" /\ selected \in listed
  BY <1>1 DEF CreateRepair
<1>3. /\ t \in Seq({"create", "options"}) /\ t # <<>> /\ Head(t) = "create"
      /\ t \in {<<"create", "options">>, <<"options">>}
  OBVIOUS
<1>4. /\ RequestsOf("create", page) = {"create", "options"}
      /\ {"create", "options"} \subseteq Writes \cup Reads /\ "create" \in Handlers
  BY DEF RequestsOf, Writes, Reads, Handlers
<1> HIDE DEF t
<1>5. c = HandlerCall("create", s, t, s, selected, page)
  BY <1>1, KeyedHandlerIs
<1>6. selected \in Vehicles /\ page \in Pages
  BY <1>2 DEF ClientInv, PageRight
<1>7. /\ c.do = "create" /\ c.session = s /\ c.todo = t /\ c.key = s /\ c.what = selected
      /\ c.page = page /\ c.live /\ c.answer = None
  BY <1>5, HandlerHas
<1>8. c \in CallRow("create")
  <2>1. t \in Seq(Writes \cup Reads) /\ selected \in Subjects /\ s \in Keys \cup {None}
    BY <1>3, <1>4, <1>6, SessionsAssumption DEF Subjects
  <2>2. c \in CallRow(Head(t))
    BY <1>4, <1>5, <1>6, <2>1, HandlerTyped
  <2>3. QED
    BY <1>3, <2>2
<1>9. SubjectExists(c, Existing)
  BY <1>3, <1>6, <1>7 DEF SubjectExists
<1>10. WriteIsOne(c)
  BY <1>2, <1>7 DEF WriteIsOne
<1>11. CallRight(c, page, Existing) /\ c.do \in Handlers
  BY <1>3, <1>4, <1>7, <1>8, <1>9, <1>10 DEF CallRight
<1>12. QED
  BY <1>2, <1>7, <1>11, HandleKeeps DEF ClientInv

LEMMA CallOfThisPage ==
  ASSUME NEW do, NEW s, NEW todo
  PROVE  [Call(do, s, todo) EXCEPT !.page = page] = Call(do, s, todo)
<1>1. PICK b : b = Call(do, s, todo)
  OBVIOUS
<1>2. b = [page |-> page, do |-> do, session |-> s, todo |-> todo, key |-> None, what |-> None,
           live |-> TRUE, active |-> TRUE, answer |-> None]
  BY <1>1, Zenon DEF Call
<1>3. PICK c : c = [b EXCEPT !.page = page]
  OBVIOUS
<1>4. c = [page |-> page, do |-> do, session |-> s, todo |-> todo, key |-> None, what |-> None,
           live |-> TRUE, active |-> TRUE, answer |-> None]
  BY <1>2, <1>3
<1>5. QED
  BY <1>1, <1>2, <1>3, <1>4

LEMMA ChooseSessionKeeps ==
  ASSUME ClientInv, NEW s \in Sessions, ChooseSession(s)
  PROVE  [Next]_vars /\ ClientInv'
<1>1. s \in Existing /\ Existing \in SUBSET Sessions /\ page \in Pages /\ page # "start"
  BY DEF ChooseSession, ClientInv, PageRight, Existing
<1>2. ClientCalls(calls, page, busy, Existing)
  BY DEF ClientInv, ClientCalls
<1>3. ClientCalls(calls', page, busy, Existing)
  <2>1. CASE page # "readiness"
    <3>1. Free(calls) # {} /\ calls' = Opened(calls, page, s)
      BY <2>1, RoomIsFree DEF ChooseSession
    <3>2. QED
      BY <1>1, <1>2, <3>1, OpenedKeeps
  <2>2. CASE page = "readiness"
    <3>1. PICK f, g, c : /\ f = CleanedUp(calls) /\ g = Opened(f, page, s)
                         /\ c = Call("initialize", s, <<"list">> \o Load(page))
      OBVIOUS
    <3>2. Room(calls, 2) /\ calls' = Put(g, c)
      BY <2>2, <3>1 DEF ChooseSession
    <3>3. ClientCalls(f, page, busy, Existing) /\ Free(f) = Free(calls)
      BY <1>2, <3>1, CleanedKeeps
    <3>4. Room(f, 2) /\ Free(f) # {} /\ DOMAIN f = Slots
      BY <3>2, <3>3, RoomIsFree DEF Room, ClientCalls, CallsRight
    <3>5. ClientCalls(g, page, busy, Existing)
      BY <1>1, <3>1, <3>3, <3>4, OpenedKeeps
    <3>6. Free(g) # {}
      BY <3>1, <3>4, OneLeft DEF Opened
    <3>7. CallRight(c, page, Existing) /\ ~IsBusy(c)
      <4>1. PICK t, d : /\ t = <<"list">> \o Load(page)
                        /\ d = [Call("initialize", s, t) EXCEPT !.page = page]
        OBVIOUS
      <4>2. c = d
        BY <3>1, <4>1, CallOfThisPage
      <4>3. s \in Existing \cup {None}
        BY <1>1
      <4>4. CallRight(d, page, Existing) /\ ~IsBusy(d)
        BY <1>1, <2>2, <4>1, <4>3, InitializeIsRight
      <4>5. QED
        BY <4>2, <4>4
    <3>8. QED
      BY <3>2, <3>5, <3>6, <3>7, PutKeeps
  <2>3. QED
    BY <2>1, <2>2
<1>4. ShownRight(shown')
  <2>1. shown' \in {[shown EXCEPT !.guidance = None], NothingShown, shown}
    BY DEF ChooseSession
  <2>2. QED
    BY <2>1, ShownForgets, NothingIsShown DEF ClientInv
<1>5. /\ UNCHANGED vars /\ page' = page /\ selected' = s /\ listed' = listed
      /\ busy' = busy /\ pending' = pending /\ late' = late
      /\ stored' = (IF page = "resume" THEN stored ELSE s)
  BY DEF ChooseSession
<1>6. PageRight(page', selected', listed', Existing)
  BY <1>1, <1>5 DEF ClientInv, PageRight
<1>7. QED
  BY <1>1, <1>3, <1>4, <1>5, <1>6, BrowserKeeps DEF ClientInv

(* finish, and "continue without binding": the resume page is opened. *)
LEMMA ResumeKeeps ==
  ASSUME ClientInv, NEW f, ClientCalls(f, "resume", FALSE, Existing), Room(f, 2),
         NEW s \in Existing, stored' = s, UNCHANGED <<vars, late>>, Render("resume", f),
         calls' = Opened(Put(f, [Call("initialize", s, <<"list">>) EXCEPT !.page = "resume"]),
                         "resume", s)
  PROVE  [Next]_vars /\ ClientInv'
<1>1. PICK c : c = [Call("initialize", s, <<"list">>) EXCEPT !.page = "resume"]
  OBVIOUS
<1>2. Existing \in SUBSET Sessions /\ s \in Existing \cup {None} /\ "resume" \in Pages
  BY DEF Existing, Pages
<1>3. CallRight(c, "resume", Existing) /\ ~IsBusy(c)
  BY <1>1, <1>2, InitializeIsRight
<1>4. Free(f) # {} /\ Free(Put(f, c)) # {}
  BY RoomIsFree, OneLeft DEF ClientCalls, CallsRight
<1>5. ClientCalls(Put(f, c), "resume", FALSE, Existing)
  BY <1>3, <1>4, PutKeeps
<1>6. ClientCalls(Opened(Put(f, c), "resume", s), "resume", FALSE, Existing)
  BY <1>2, <1>4, <1>5, OpenedKeeps
<1>7. calls' = Opened(Put(f, c), "resume", s)
  BY <1>1
<1>8. /\ page' = "resume" /\ selected' = s /\ listed' = {} /\ shown' = NothingShown
      /\ busy' = FALSE /\ pending' = None
  BY DEF Render
<1>9. PageRight(page', selected', listed', Existing)
  BY <1>2, <1>8 DEF PageRight
<1>10. QED
  BY <1>6, <1>7, <1>8, <1>9, NothingIsShown, BrowserKeeps DEF ClientInv

LEMMA ContinueKeeps ==
  ASSUME ClientInv, ContinueToRepair
  PROVE  [Next]_vars /\ ClientInv'
<1>1. PICK f : f = [i \in Slots |-> Unmounted(calls[i])]
  OBVIOUS
<1>2. PICK s : s = pending
  OBVIOUS
<1>3. s \in Existing
  BY <1>2 DEF ContinueToRepair, ClientInv
<1>4. ClientCalls(f, "resume", FALSE, Existing)
  BY <1>1, UnmountedKeeps DEF ClientInv
<1>5. Room(f, 2) /\ stored' = s /\ UNCHANGED <<vars, late>> /\ Render("resume", f)
  BY <1>1, <1>2 DEF ContinueToRepair
<1>6. calls' = Opened(Put(f, [Call("initialize", s, <<"list">>) EXCEPT !.page = "resume"]),
                      "resume", s)
  BY <1>1, <1>2, Zenon DEF ContinueToRepair
<1>7. QED
  BY <1>3, <1>4, <1>5, <1>6, ResumeKeeps

-----------------------------------------------------------------------------
(* Answers *)

(* What is left of a function whose request was answered, or, on the       *)
(* resume page, failed; guidance and readiness may go on with another      *)
(* repair.                                                                 *)
LEMMA RestIsRight ==
  ASSUME NEW ex \in SUBSET Sessions, NEW c, NEW p, CallRight(c, p, ex), Tail(c.todo) # <<>>,
         Head(c.todo) = "create" => c.answer # None, Head(c.todo) # "vehicles",
         NEW s, NEW d, d = [Rest(c) EXCEPT !.session = s],
         \/ s = c.session /\ (Head(c.todo) = "list" => c.page \in {"resume", "log"})
         \/ s \in ex /\ c.do = "initialize"
  PROVE  CallRight(d, p, ex) /\ d.do = c.do /\ d.live = c.live
<1>1. c \in CallRow(Head(c.todo)) /\ c.todo \in Seq(RequestsOf(c.do, c.page)) /\ c.todo # <<>>
  BY DEF CallRight
<1>2. PICK t, r : t = Tail(c.todo) /\ r = Head(c.todo)
  OBVIOUS
<1>3. /\ r \in RequestsOf(c.do, c.page) /\ Head(t) \in RequestsOf(c.do, c.page)
      /\ t \in Seq(RequestsOf(c.do, c.page)) /\ t # <<>>
  BY <1>1, <1>2, TailIs
<1>4. t \in Seq(Writes \cup Reads)
  BY <1>1, <1>2, TailIs DEF CallRow
<1>5. PICK e : e = [c EXCEPT !.todo = t, !.answer = None]
  OBVIOUS
<1>6. d = [e EXCEPT !.session = s]
  BY <1>2, <1>5 DEF Rest
<1>7. /\ e \in CallRow(Head(t)) /\ e.todo = t /\ e.answer = None /\ e.do = c.do
      /\ e.page = c.page /\ e.live = c.live /\ e.what = c.what /\ e.key = c.key
      /\ e.session = c.session
  BY <1>1, <1>4, <1>5 DEF CallRow
<1>8. s \in Sessions \cup {None}
  BY <1>1 DEF CallRow
<1>9. /\ d \in CallRow(Head(t)) /\ d.todo = t /\ d.answer = None /\ d.do = c.do
      /\ d.page = c.page /\ d.live = c.live /\ d.what = c.what /\ d.key = c.key
      /\ d.session = s
  BY <1>6, <1>7, <1>8 DEF CallRow
<1>10. /\ c.do \in Handlers \cup {"initialize", "open"} /\ c.page \in Pages
       /\ SubjectExists(c, ex) /\ WriteIsOne(c)
  BY <1>1 DEF CallRow, CallRight
<1>11. c.do # "plan"
  <2>1. ASSUME c.todo = <<"plan">> PROVE FALSE
    BY <2>1
  <2>2. QED
    BY <1>10, <2>1 DEF WriteIsOne
<1>12. c.do = "create" => /\ t = <<"options">> /\ Head(t) = "options"
                          /\ s \in ex /\ c.what \in Vehicles
  <2> SUFFICES ASSUME c.do = "create"
               PROVE  t = <<"options">> /\ Head(t) = "options" /\ s \in ex /\ c.what \in Vehicles
    OBVIOUS
  <2>1. c.todo \in {<<"create", "options">>, <<"options">>} /\ c.what \in Vehicles
    BY <1>10 DEF SubjectExists
  <2>2. ASSUME c.todo = <<"options">> PROVE FALSE
    BY <2>2
  <2>3. c.todo = <<"create", "options">>
    BY <2>1, <2>2
  <2>4. t = <<"options">> /\ r = "create" /\ Head(t) = "options"
    BY <1>2, <2>3
  <2>5. c.answer # None
    BY <1>2, <2>4
  <2>6. QED
    BY <1>10, <2>1, <2>4, <2>5 DEF SubjectExists
<1>13. r \in {"snapshot", "guidance"} => c.session \in ex
  BY <1>2, <1>10, <1>11 DEF SubjectExists
<1>14. c.do \notin {"create", "initialize"} => s \in ex
  BY <1>10, <1>11 DEF SubjectExists
<1>15. c.do = "initialize" => Head(t) = "list" \/ s \in ex
  <2> SUFFICES ASSUME c.do = "initialize", s = c.session, r = "list" => c.page \in {"resume", "log"}
               PROVE  Head(t) = "list" \/ s \in ex
    BY <1>2
  <2>1. CASE c.page \in {"resume", "log"}
    <3>1. RequestsOf(c.do, c.page) = {"list"}
      BY <2>1 DEF RequestsOf
    <3>2. QED
      BY <1>3, <3>1
  <2>2. CASE c.page = "start"
    <3>1. RequestsOf(c.do, c.page) = {"vehicles"}
      BY <2>2 DEF RequestsOf
    <3>2. QED
      BY <1>2, <1>3, <3>1
  <2>3. CASE c.page \in {"guidance", "readiness"}
    <3>1. RequestsOf(c.do, c.page) = {"list", "snapshot", "guidance"}
      BY <2>3 DEF RequestsOf
    <3>2. QED
      BY <1>3, <1>13, <2>3, <3>1
  <2>4. QED
    BY <1>10, <2>1, <2>2, <2>3 DEF Pages
<1>16. Head(t) # "vehicles"
  <2>1. PICK h : h = Head(t)
    OBVIOUS
  <2>2. r # "vehicles" /\ r \in RequestsOf(c.do, c.page) /\ h \in RequestsOf(c.do, c.page)
    BY <1>2, <1>3, <2>1
  <2>3. h # "vehicles"
    BY <1>10, <2>2 DEF RequestsOf, Handlers, Pages
  <2>4. QED
    BY <2>1, <2>3
<1>17. SubjectExists(d, ex)
  <2>1. c.do = "initialize" => s \in ex \cup {None}
    BY <1>10 DEF SubjectExists
  <2>2. QED
    BY <1>9, <1>12, <1>14, <1>15, <2>1 DEF SubjectExists
<1>18. c.do = "bind" => Head(t) \in Reads /\ Tail(t) \in Seq(Reads)
  <2>1. c.do = "bind" => t \in Seq(Reads)
    BY <1>2, <1>10 DEF WriteIsOne
  <2>2. QED
    BY <1>3, <2>1, TailIs
<1>19. WriteIsOne(d)
  <2>1. "bind" \notin Reads
    BY DEF Reads
  <2>2. QED
    BY <1>9, <1>10, <1>11, <1>18, <2>1 DEF WriteIsOne
<1>20. QED
  BY <1>3, <1>9, <1>16, <1>17, <1>19 DEF CallRight

LEMMA RestKeeps ==
  ASSUME NEW ex \in SUBSET Sessions, NEW c, NEW p, CallRight(c, p, ex),
         Head(c.todo) = "list" => c.page \in {"resume", "log"},
         Head(c.todo) = "create" => c.answer # None, Head(c.todo) # "vehicles"
  PROVE  /\ Rest(c).do = c.do /\ Rest(c).live = c.live
         /\ Rest(c).todo # <<>> => CallRight(Rest(c), p, ex)
<1>1. c \in CallRow(Head(c.todo)) /\ c.todo \in Seq(RequestsOf(c.do, c.page)) /\ c.todo # <<>>
  BY DEF CallRight
<1>2. Tail(c.todo) \in Seq(Writes \cup Reads)
  BY <1>1, TailIs DEF CallRow
<1>3. PICK t, e : t = Tail(c.todo) /\ e = [c EXCEPT !.todo = t, !.answer = None]
  OBVIOUS
<1>4. Rest(c) = e
  BY <1>3 DEF Rest
<1>5. /\ e \in CallRow(Head(t)) /\ e.do = c.do /\ e.live = c.live
      /\ e.session = c.session /\ e.todo = t
  BY <1>1, <1>2, <1>3 DEF CallRow
<1>6. e = [e EXCEPT !.session = c.session]
  BY <1>5 DEF CallRow
<1>7. Tail(c.todo) # <<>> => CallRight(e, p, ex)
  BY <1>4, <1>6, RestIsRight
<1>8. QED
  BY <1>3, <1>4, <1>5, <1>7

(* A function that is answered, and what it has in hand. *)
LEMMA AnsweredCall ==
  ASSUME ClientInv, NEW i \in Slots, Running(i)
  PROVE  /\ CallRight(calls[i], page, Existing) /\ Existing \in SUBSET Sessions
         /\ calls[i].live \in BOOLEAN /\ (calls[i].live => calls[i].page = page)
         /\ ClientCalls(calls, page, busy, Existing) /\ busy \in BOOLEAN
         /\ calls[i].session \in Sessions \cup {None} /\ calls[i].page \in Pages /\ page \in Pages
<1>1. CallRight(calls[i], page, Existing)
  BY DEF ClientInv, CallsRight, Running
<1>2. PICK c : c = calls[i]
  OBVIOUS
<1>3. c \in CallRow(Head(c.todo)) /\ (c.live => c.page = page)
  BY <1>1, <1>2 DEF CallRight
<1>4. c.live \in BOOLEAN /\ c.session \in Sessions \cup {None} /\ c.page \in Pages
  BY <1>3 DEF CallRow
<1>5. QED
  BY <1>1, <1>2, <1>3, <1>4 DEF Existing, ClientInv, ClientCalls, BusyRight, PageRight

LEMMA GoesOn ==
  ASSUME ClientInv, NEW i \in Slots, Running(i),
         Head(calls[i].todo) = "list" => calls[i].page \in {"resume", "log"},
         Head(calls[i].todo) = "create" => calls[i].answer # None, Head(calls[i].todo) # "vehicles"
  PROVE  ClientCalls(Advance(i, Rest(calls[i])), page, BusyAfter(i, Rest(calls[i])), Existing)
<1>1. PICK c, d : c = calls[i] /\ d = Rest(c)
  OBVIOUS
<1>2. CallRight(c, page, Existing) /\ Existing \in SUBSET Sessions
      /\ ClientCalls(calls, page, busy, Existing)
  BY <1>1, AnsweredCall
<1>3. /\ d.do = calls[i].do /\ d.live = calls[i].live
      /\ d.todo # <<>> => CallRight(d, page, Existing)
  BY <1>1, <1>2, RestKeeps
<1>4. ClientCalls(Advance(i, d), page, BusyAfter(i, d), Existing)
  BY <1>2, <1>3, AdvanceKeeps
<1>5. QED
  BY <1>1, <1>4

LEMMA ShownSnapshot ==
  ASSUME NEW v, ShownRight(v), NEW s \in Sessions \cup {None}, NEW a \in SnapshotRow
  PROVE  ShownRight([v EXCEPT !.session = s, !.lease = a.lease, !.held = a.held])
<1>1. PICK x, y, z, g : v = [session |-> x, lease |-> y, held |-> z, guidance |-> g]
  BY DEF ShownRight
<1>2. g \in Sessions \cup {None}
  BY <1>1 DEF ShownRight
<1>3. a.lease \in {"available", "owned", "held_by_other"} /\ a.held \in BOOLEAN
  BY DEF SnapshotRow
<1>4. PICK w : w = [v EXCEPT !.session = s, !.lease = a.lease, !.held = a.held]
  OBVIOUS
<1>5. w = [session |-> s, lease |-> a.lease, held |-> a.held, guidance |-> g]
  BY <1>1, <1>4
<1>6. w.session = s /\ w.lease = a.lease /\ w.held = a.held /\ w.guidance = g
  BY <1>5
<1>7. ShownRight(w)
  BY <1>2, <1>3, <1>5, <1>6 DEF ShownRight
<1>8. QED
  BY <1>4, <1>7

LEMMA ShownGuidance ==
  ASSUME NEW v, ShownRight(v), NEW s \in Sessions \cup {None}
  PROVE  ShownRight([v EXCEPT !.guidance = s])
<1>1. PICK x, y, z, g : v = [session |-> x, lease |-> y, held |-> z, guidance |-> g]
  BY DEF ShownRight
<1>2. PICK w : w = [v EXCEPT !.guidance = s]
  OBVIOUS
<1>3. w = [session |-> x, lease |-> y, held |-> z, guidance |-> s]
  BY <1>1, <1>2
<1>4. v.session = x /\ v.lease = y /\ v.held = z
  BY <1>1
<1>5. w.session = x /\ w.lease = y /\ w.held = z /\ w.guidance = s
  BY <1>3
<1>6. ShownRight(w)
  BY <1>3, <1>4, <1>5 DEF ShownRight
<1>7. QED
  BY <1>2, <1>6

LEMMA PreferredIsThere ==
  ASSUME NEW rows, NEW current, NEW s \in Preferred(rows, current)
  PROVE  s \in rows \cup {None}
BY DEF Preferred

LEMMA ReceiveListKeeps ==
  ASSUME ClientInv, NEW i \in Slots, ReceiveList(i)
  PROVE  [Next]_vars /\ ClientInv'
<1>1. PICK c : c = calls[i]
  OBVIOUS
<1>2. PICK next, b : next = Advance(i, Rest(c)) /\ b = BusyAfter(i, Rest(c))
  OBVIOUS
<1>3. /\ Running(i) /\ Head(c.todo) = "list" /\ c.answer # None /\ c.page \in {"resume", "log"}
      /\ busy' = b /\ UNCHANGED <<vars, page, pending, late>>
  BY <1>1, <1>2 DEF ReceiveList, Received, Awaiting
<1>4. ClientCalls(next, page, b, Existing)
  BY <1>1, <1>2, <1>3, GoesOn
<1>5. CASE ~c.live
  <2>1. calls' = next /\ UNCHANGED <<selected, listed, shown, stored>>
    BY <1>1, <1>2, <1>5 DEF ReceiveList
  <2>2. QED
    BY <1>3, <1>4, <2>1, BrowserKeeps DEF ClientInv
<1>6. CASE c.live
  <2>1. PICK s \in Preferred(c.answer, selected) :
          /\ listed' = c.answer /\ selected' = s
          /\ s # selected => Free(next) # {}
          /\ calls' = IF s = selected THEN next ELSE Opened(next, page, s)
          /\ shown' = IF s = None THEN NothingShown ELSE shown
          /\ stored' = IF s = None /\ selected # None THEN None ELSE stored
    BY <1>1, <1>2, <1>6 DEF ReceiveList
  <2>2. /\ CallRight(c, page, Existing) /\ Existing \in SUBSET Sessions
        /\ c.page = page /\ page \in Pages
    BY <1>1, <1>3, <1>6, AnsweredCall
  <2>3. c.answer \subseteq Existing
    BY <1>3, <2>2 DEF CallRight
  <2>4. s \in Existing \cup {None}
    BY <2>1, <2>3, PreferredIsThere
  <2>5. ClientCalls(calls', page, b, Existing)
    BY <1>4, <2>1, <2>2, <2>4, OpenedKeeps
  <2>6. PageRight(page', selected', listed', Existing)
    BY <1>3, <2>1, <2>2, <2>3, <2>4 DEF PageRight
  <2>7. ShownRight(shown')
    BY <2>1, NothingIsShown DEF ClientInv
  <2>8. stored' \in Existing \cup {None}
    BY <2>1 DEF ClientInv
  <2>9. QED
    BY <1>3, <2>5, <2>6, <2>7, <2>8, BrowserKeeps DEF ClientInv
<1>7. QED
  BY <1>5, <1>6

(* A function that initializes a page does not make it busy. *)
LEMMA NotBusy ==
  ASSUME ClientInv, NEW i \in Slots, Running(i), calls[i].do \notin Handlers, NEW c
  PROVE  BusyAfter(i, c) = busy /\ (busy /\ ~IsBusy(calls[i])) = busy
BY DEF BusyAfter, IsBusy, ClientInv, BusyRight

LEMMA ReceiveFirstListKeeps ==
  ASSUME ClientInv, NEW i \in Slots, ReceiveFirstList(i)
  PROVE  [Next]_vars /\ ClientInv'
<1>1. PICK c : c = calls[i]
  OBVIOUS
<1>2. /\ Running(i) /\ Head(c.todo) = "list" /\ c.answer # None
      /\ c.page \in {"guidance", "readiness"} /\ UNCHANGED <<vars, page, busy, pending, late>>
  BY <1>1 DEF ReceiveFirstList, Received, Awaiting
<1>3. /\ CallRight(c, page, Existing) /\ Existing \in SUBSET Sessions /\ (c.live => c.page = page)
      /\ ClientCalls(calls, page, busy, Existing) /\ page \in Pages
  BY <1>1, <1>2, AnsweredCall
<1>4. c.do = "initialize" /\ c.do \notin Handlers
  BY <1>2, <1>3, AwaitedRequest DEF CallRight, WriteIsOne, Handlers
<1>5. ClientCalls(Returned(i), page, busy, Existing)
  BY <1>1, <1>2, <1>3, <1>4, ReturnKeeps, NotBusy
<1>6. CASE c.page = "readiness" /\ ~(c.live /\ c.active)
  <2>1. calls' = Returned(i) /\ UNCHANGED <<selected, listed, shown, stored>>
    BY <1>1, <1>6 DEF ReceiveFirstList
  <2>2. QED
    BY <1>2, <1>5, <2>1, BrowserKeeps DEF ClientInv
<1>7. CASE ~(c.page = "readiness" /\ ~(c.live /\ c.active))
  <2>0. PICK s \in Preferred(c.answer, c.session) : \E goesOn, next :
          /\ goesOn = [Rest(c) EXCEPT !.session = s]
          /\ next = IF s = None THEN Returned(i) ELSE Advance(i, goesOn)
          /\ listed' = IF c.live THEN c.answer ELSE listed
          /\ selected' = IF c.live THEN s ELSE selected
          /\ shown' = IF c.live /\ s = None THEN NothingShown ELSE shown
          /\ stored' = IF s = None THEN None ELSE stored
          /\ IF c.live /\ s # selected /\ c.page = "readiness"
             THEN /\ Free(next) # {}
                  /\ calls' = Put(CleanedUp(next), Call("initialize", s, <<"list">> \o Load(page)))
             ELSE calls' = next
    BY <1>1, <1>7 DEF ReceiveFirstList
  <2>1. PICK goesOn, next :
          /\ goesOn = [Rest(c) EXCEPT !.session = s]
          /\ next = IF s = None THEN Returned(i) ELSE Advance(i, goesOn)
          /\ listed' = IF c.live THEN c.answer ELSE listed
          /\ selected' = IF c.live THEN s ELSE selected
          /\ shown' = IF c.live /\ s = None THEN NothingShown ELSE shown
          /\ stored' = IF s = None THEN None ELSE stored
          /\ IF c.live /\ s # selected /\ c.page = "readiness"
             THEN /\ Free(next) # {}
                  /\ calls' = Put(CleanedUp(next), Call("initialize", s, <<"list">> \o Load(page)))
             ELSE calls' = next
    BY <2>0
  <2>2. c.answer \subseteq Existing
    BY <1>2, <1>3 DEF CallRight
  <2>3. s \in Existing \cup {None}
    <3>1. s \in c.answer \cup {c.session, None}
      BY <2>1 DEF Preferred
    <3>2. c.session \in Existing \cup {None}
      BY <1>3, <1>4 DEF CallRight, SubjectExists
    <3>3. QED
      BY <2>2, <3>1, <3>2
  <2>4. ClientCalls(next, page, busy, Existing)
    <3>1. CASE s = None
      BY <1>5, <2>1, <3>1
    <3>2. CASE s # None
      <4>1. s \in Existing
        BY <2>3, <3>2
      <4>2. goesOn.todo = Tail(c.todo) /\ goesOn.do = c.do /\ goesOn.live = c.live
        <5>1. c \in CallRow(Head(c.todo)) /\ c.todo \in Seq(Writes \cup Reads) /\ c.todo # <<>>
          BY <1>3 DEF CallRight, CallRow
        <5>2. Tail(c.todo) \in Seq(Writes \cup Reads)
          BY <5>1, TailIs
        <5>3. PICK t, d : t = Tail(c.todo) /\ d = [c EXCEPT !.todo = t, !.answer = None]
          OBVIOUS
        <5>4. Rest(c) = d
          BY <5>3 DEF Rest
        <5>5. d \in CallRow(Head(t)) /\ d.todo = t /\ d.do = c.do /\ d.live = c.live
          BY <5>1, <5>2, <5>3 DEF CallRow
        <5>6. goesOn = [d EXCEPT !.session = s]
          BY <2>1, <5>4
        <5>7. goesOn.todo = t /\ goesOn.do = c.do /\ goesOn.live = c.live
          BY <5>5, <5>6 DEF CallRow
        <5>8. QED
          BY <5>3, <5>7
      <4>3. goesOn.todo # <<>> => CallRight(goesOn, page, Existing)
        BY <1>2, <1>3, <1>4, <2>1, <4>1, <4>2, RestIsRight
      <4>4. ClientCalls(Advance(i, goesOn), page, BusyAfter(i, goesOn), Existing)
        BY <1>1, <1>2, <1>3, <4>2, <4>3, AdvanceKeeps
      <4>5. BusyAfter(i, goesOn) = busy
        BY <1>1, <1>2, <1>4, NotBusy
      <4>6. QED
        BY <2>1, <3>2, <4>4, <4>5
    <3>3. QED
      BY <3>1, <3>2
  <2>5. ClientCalls(calls', page, busy, Existing)
    <3>1. CASE ~(c.live /\ s # selected /\ c.page = "readiness")
      BY <2>1, <2>4, <3>1
    <3>2. CASE c.live /\ s # selected /\ c.page = "readiness"
      <4>1. PICK f, d : f = CleanedUp(next) /\ d = Call("initialize", s, <<"list">> \o Load(page))
        OBVIOUS
      <4>2. calls' = Put(f, d) /\ Free(f) # {} /\ ClientCalls(f, page, busy, Existing)
        BY <2>1, <2>4, <3>2, <4>1, CleanedKeeps
      <4>3. CallRight(d, page, Existing) /\ ~IsBusy(d)
        <5>1. PICK t, e : /\ t = <<"list">> \o Load(page)
                          /\ e = [Call("initialize", s, t) EXCEPT !.page = page]
          OBVIOUS
        <5>2. d = e
          BY <4>1, <5>1, CallOfThisPage
        <5>3. page = "readiness"
          BY <1>3, <3>2
        <5>4. CallRight(e, page, Existing) /\ ~IsBusy(e)
          BY <1>3, <2>3, <5>1, <5>3, InitializeIsRight
        <5>5. QED
          BY <5>2, <5>4
      <4>4. QED
        BY <4>2, <4>3, PutKeeps
    <3>3. QED
      BY <3>1, <3>2
  <2>6. PageRight(page', selected', listed', Existing)
    <3>1. PageRight(page, selected, listed, Existing)
      BY DEF ClientInv
    <3>2. c.live => page # "start"
      BY <1>2, <1>3
    <3>3. QED
      BY <1>2, <2>1, <2>2, <2>3, <3>1, <3>2 DEF PageRight
  <2>7. ShownRight(shown') /\ stored' \in Existing \cup {None}
    BY <2>1, NothingIsShown DEF ClientInv
  <2>8. QED
    BY <1>2, <2>5, <2>6, <2>7, BrowserKeeps DEF ClientInv
<1>8. QED
  BY <1>6, <1>7

LEMMA ReceiveVehiclesKeeps ==
  ASSUME ClientInv, NEW i \in Slots, ReceiveVehicles(i)
  PROVE  [Next]_vars /\ ClientInv'
<1>1. PICK c : c = calls[i]
  OBVIOUS
<1>2. /\ Running(i) /\ Head(c.todo) = "vehicles" /\ c.answer # None /\ listed' = c.answer
      /\ selected' \in c.answer \cup {None} /\ calls' = Returned(i)
      /\ UNCHANGED <<vars, page, shown, busy, pending, stored, late>>
  BY <1>1 DEF ReceiveVehicles, Received, Awaiting
<1>3. /\ CallRight(c, page, Existing) /\ Existing \in SUBSET Sessions /\ (c.live => c.page = page)
      /\ ClientCalls(calls, page, busy, Existing)
  BY <1>1, <1>2, AnsweredCall
<1>4. c.live /\ c.do = "initialize" /\ c.page = "start"
  BY <1>2, <1>3, AwaitedRequest DEF CallRight
<1>5. c.do \notin Handlers
  BY <1>4 DEF Handlers
<1>6. c.answer \subseteq Vehicles
  <2>1. c \in CallRow("vehicles")
    BY <1>2, <1>3 DEF CallRight
  <2>2. c.answer \in {None} \cup AnswersTo("vehicles")
    BY <2>1 DEF CallRow
  <2>3. AnswersTo("vehicles") = SUBSET Vehicles
    BY DEF AnswersTo
  <2>4. QED
    BY <1>2, <2>2, <2>3
<1>7. ClientCalls(calls', page, busy, Existing)
  BY <1>1, <1>2, <1>3, <1>5, ReturnKeeps, NotBusy
<1>8. PageRight(page', selected', listed', Existing)
  BY <1>2, <1>3, <1>4, <1>6 DEF ClientInv, PageRight
<1>9. QED
  BY <1>2, <1>7, <1>8, BrowserKeeps DEF ClientInv

LEMMA ReceiveSnapshotKeeps ==
  ASSUME ClientInv, NEW i \in Slots, ReceiveSnapshot(i)
  PROVE  [Next]_vars /\ ClientInv'
<1>1. PICK c, a : c = calls[i] /\ a = c.answer
  OBVIOUS
<1>2. /\ Running(i) /\ Head(c.todo) = "snapshot" /\ a # None
      /\ shown' = (IF c.live
                   THEN [shown EXCEPT !.session = c.session, !.lease = a.lease, !.held = a.held]
                   ELSE shown)
      /\ stored' = c.session /\ calls' = Advance(i, Rest(calls[i]))
      /\ busy' = BusyAfter(i, Rest(calls[i]))
      /\ UNCHANGED <<vars, page, selected, listed, pending, late>>
  BY <1>1 DEF ReceiveSnapshot, Received, Awaiting
<1>3. CallRight(c, page, Existing) /\ c.session \in Sessions \cup {None}
  BY <1>1, <1>2, AnsweredCall
<1>4. a \in SnapshotRow
  <2>1. c \in CallRow("snapshot")
    BY <1>2, <1>3 DEF CallRight
  <2>2. c.answer \in {None} \cup AnswersTo("snapshot")
    BY <2>1 DEF CallRow
  <2>3. AnswersTo("snapshot") = SnapshotRow
    BY DEF AnswersTo
  <2>4. QED
    BY <1>1, <1>2, <2>2, <2>3
<1>5. c.session \in Existing
  <2>1. c.do # "plan"
    <3>1. ASSUME c.todo = <<"plan">> PROVE FALSE
      BY <1>2, <3>1
    <3>2. QED
      BY <1>3, <3>1 DEF CallRight, WriteIsOne
  <2>2. QED
    BY <1>2, <1>3, <2>1 DEF CallRight, SubjectExists
<1>6. ClientCalls(calls', page, busy', Existing)
  BY <1>1, <1>2, GoesOn
<1>7. ShownRight(shown')
  BY <1>2, <1>3, <1>4, ShownSnapshot DEF ClientInv
<1>8. QED
  BY <1>2, <1>5, <1>6, <1>7, BrowserKeeps DEF ClientInv

LEMMA ReceiveDetailKeeps ==
  ASSUME ClientInv, NEW i \in Slots, ReceiveDetail(i)
  PROVE  [Next]_vars /\ ClientInv'
<1>1. PICK c, a : c = calls[i] /\ a = c.answer
  OBVIOUS
<1>2. /\ Running(i) /\ Head(c.todo) \in {"refresh", "guidance", "plan"} /\ a # None
      /\ calls' = Advance(i, Rest(calls[i])) /\ busy' = BusyAfter(i, Rest(calls[i]))
      /\ UNCHANGED <<vars, page, selected, listed, pending, stored, late>>
  BY <1>1 DEF ReceiveDetail, Received, Awaiting
<1>3. \/ shown' = shown \/ shown' = [shown EXCEPT !.guidance = c.session]
      \/ /\ Head(c.todo) = "refresh"
         /\ shown' = [shown EXCEPT !.session = c.session, !.lease = a.lease, !.held = a.held]
  BY <1>1 DEF ReceiveDetail
<1>4. CallRight(c, page, Existing) /\ c.session \in Sessions \cup {None}
  BY <1>1, <1>2, AnsweredCall
<1>5. Head(c.todo) = "refresh" => a \in SnapshotRow
  <2> SUFFICES ASSUME Head(c.todo) = "refresh" PROVE a \in SnapshotRow
    OBVIOUS
  <2>1. c \in CallRow("refresh")
    BY <1>4 DEF CallRight
  <2>2. c.answer \in {None} \cup AnswersTo("refresh")
    BY <2>1 DEF CallRow
  <2>3. AnswersTo("refresh") = SnapshotRow
    BY DEF AnswersTo
  <2>4. QED
    BY <1>1, <1>2, <2>2, <2>3
<1>6. ClientCalls(calls', page, busy', Existing)
  BY <1>1, <1>2, GoesOn
<1>7. ShownRight(shown')
  <2>1. PICK v, s : v = shown /\ s = c.session
    OBVIOUS
  <2>2. ShownRight(v) /\ s \in Sessions \cup {None}
    BY <1>4, <2>1 DEF ClientInv
  <2>3. ShownRight([v EXCEPT !.guidance = s])
    BY <2>2, ShownGuidance
  <2>4. CASE Head(c.todo) = "refresh"
                /\ shown' = [shown EXCEPT !.session = c.session, !.lease = a.lease, !.held = a.held]
    <3>1. ShownRight([v EXCEPT !.session = s, !.lease = a.lease, !.held = a.held])
      BY <1>5, <2>2, <2>4, ShownSnapshot
    <3>2. QED
      BY <2>1, <2>4, <3>1
  <2>5. QED
    BY <1>3, <2>1, <2>2, <2>3, <2>4
<1>8. QED
  BY <1>2, <1>6, <1>7, BrowserKeeps DEF ClientInv

(* The resume page that hears of a change lists the repairs again. *)
LEMMA SessionsChangedKeeps ==
  ASSUME ClientInv, NEW f, NEW b, ClientCalls(f, page, b, Existing), SessionsChanged(f)
  PROVE  ClientCalls(calls', page, b, Existing)
<1>1. PICK d : d = Call("initialize", selected, <<"list">>)
  OBVIOUS
<1>2. \/ calls' = f
      \/ page = "resume" /\ Free(f) # {} /\ calls' = Put(f, d)
  BY <1>1 DEF SessionsChanged
<1>3. ASSUME page = "resume" PROVE CallRight(d, page, Existing) /\ ~IsBusy(d)
  <2>1. PICK t, e : t = <<"list">> /\ e = [Call("initialize", selected, t) EXCEPT !.page = page]
    OBVIOUS
  <2>2. d = e
    BY <1>1, <2>1, CallOfThisPage
  <2>3. selected \in Existing \cup {None} /\ Existing \in SUBSET Sessions /\ page \in Pages
    BY <1>3 DEF ClientInv, PageRight, Existing
  <2>4. CallRight(e, page, Existing) /\ ~IsBusy(e)
    BY <1>3, <2>1, <2>3, InitializeIsRight
  <2>5. QED
    BY <2>2, <2>4
<1>4. QED
  BY <1>2, <1>3, PutKeeps

LEMMA ReceiveWriteKeeps ==
  ASSUME ClientInv, NEW i \in Slots, ReceiveWrite(i)
  PROVE  [Next]_vars /\ ClientInv'
<1>1. PICK c, next, b : c = calls[i] /\ next = Advance(i, Rest(c)) /\ b = BusyAfter(i, Rest(c))
  OBVIOUS
<1>2. /\ Running(i) /\ Head(c.todo) \in {"lease", "domain", "status"} /\ c.answer # None
      /\ busy' = b /\ UNCHANGED <<vars, page, selected, listed, pending, stored, late>>
  BY <1>1 DEF ReceiveWrite, Received, Awaiting
<1>3. calls' = next \/ SessionsChanged(next)
  BY <1>1 DEF ReceiveWrite
<1>4. shown' \in {[shown EXCEPT !.guidance = None], shown}
  BY <1>1 DEF ReceiveWrite
<1>5. ClientCalls(next, page, b, Existing)
  BY <1>1, <1>2, GoesOn
<1>6. ClientCalls(calls', page, b, Existing)
  BY <1>3, <1>5, SessionsChangedKeeps
<1>7. ShownRight(shown')
  BY <1>4, ShownForgets DEF ClientInv
<1>8. QED
  BY <1>2, <1>6, <1>7, BrowserKeeps DEF ClientInv

(* createRepair, which goes on to the options, and then asks or finishes.  *)
LEMMA CreateCall ==
  ASSUME NEW c, NEW p, NEW ex, CallRight(c, p, ex), Head(c.todo) \in {"create", "options"},
         Head(c.todo) = "create" => c.answer # None, c.do = "create"
  PROVE  /\ c.session \in ex /\ c.page = "start"
         /\ Head(c.todo) = "create" => Tail(c.todo) = <<"options">>
<1>1. c.todo \in {<<"create", "options">>, <<"options">>}
  BY DEF CallRight, SubjectExists
<1>2. Head(<<"options">>) = "options" /\ Tail(<<"create", "options">>) = <<"options">>
  OBVIOUS
<1>3. c.session \in ex
  BY DEF CallRight, SubjectExists
<1>4. Head(c.todo) = "create" => Tail(c.todo) = <<"options">>
  BY <1>1, <1>2
<1>5. QED
  BY <1>3, <1>4 DEF CallRight, WriteIsOne

LEMMA ReceiveCreatedKeeps ==
  ASSUME ClientInv, NEW i \in Slots, ReceiveCreated(i)
  PROVE  [Next]_vars /\ ClientInv'
<1>1. PICK c, d : c = calls[i] /\ d = Rest(c)
  OBVIOUS
<1>2. /\ Running(i) /\ Head(c.todo) = "create" /\ c.answer # None /\ stored' = c.session
      /\ SessionsChanged(Advance(i, Rest(calls[i]))) /\ UNCHANGED <<vars, pageVars, late>>
  BY <1>1 DEF ReceiveCreated, Received, Awaiting
<1>3. CallRight(c, page, Existing) /\ Existing \in SUBSET Sessions /\ busy \in BOOLEAN
  BY <1>1, <1>2, AnsweredCall
<1>4. c.do = "create"
  BY <1>2, <1>3, AwaitedRequest DEF Writes
<1>5. c.session \in Existing /\ Tail(c.todo) = <<"options">>
  BY <1>2, <1>3, <1>4, CreateCall
<1>6. d.todo = <<"options">>
  <2>1. PICK t, e : t = Tail(c.todo) /\ e = [c EXCEPT !.todo = t, !.answer = None]
    OBVIOUS
  <2>2. t \in Seq(Writes \cup Reads) /\ c \in CallRow(Head(c.todo))
    BY <1>3, <2>1, TailIs DEF CallRight, CallRow
  <2>3. e.todo = t
    BY <2>1, <2>2 DEF CallRow
  <2>4. QED
    BY <1>1, <1>5, <2>1, <2>3 DEF Rest
<1>7. BusyAfter(i, d) = busy
  <2>1. d.todo # <<>>
    BY <1>6
  <2>2. QED
    BY <1>3, <2>1 DEF BusyAfter
<1>8. ClientCalls(calls', page, busy, Existing)
  <2>1. PICK next : next = Advance(i, Rest(calls[i]))
    OBVIOUS
  <2>2. ClientCalls(next, page, busy, Existing)
    BY <1>1, <1>2, <1>7, <2>1, GoesOn
  <2>3. QED
    BY <1>2, <2>1, <2>2, SessionsChangedKeeps
<1>9. /\ page' = page /\ selected' = selected /\ listed' = listed /\ shown' = shown
      /\ busy' = busy /\ pending' = pending
  BY <1>2 DEF pageVars
<1>10. QED
  BY <1>2, <1>5, <1>8, <1>9, BrowserKeeps DEF ClientInv

LEMMA AskKeeps ==
  ASSUME ClientInv, NEW i \in Slots, Running(i), Head(calls[i].todo) = "options", AskForRepair(i)
  PROVE  [Next]_vars /\ ClientInv'
<1>1. PICK c : c = calls[i]
  OBVIOUS
<1>2. /\ pending' = (IF c.live THEN c.session ELSE pending) /\ calls' = Returned(i)
      /\ busy' = (busy /\ ~c.live)
      /\ UNCHANGED <<vars, page, selected, listed, shown, stored, late>>
  BY <1>1 DEF AskForRepair
<1>3. /\ CallRight(c, page, Existing) /\ Existing \in SUBSET Sessions /\ busy \in BOOLEAN
      /\ ClientCalls(calls, page, busy, Existing)
  BY <1>1, AnsweredCall
<1>4. c.do = "create"
  BY <1>1, <1>3, AwaitedRequest
<1>5. c.session \in Existing
  BY <1>1, <1>3, <1>4, CreateCall
<1>6. IsBusy(c) <=> c.live
  BY <1>1, <1>4 DEF IsBusy, Handlers, Running
<1>7. (busy /\ ~c.live) = (busy /\ ~IsBusy(calls[i]))
  BY <1>1, <1>3, <1>6
<1>8. ClientCalls(calls', page, busy', Existing)
  BY <1>2, <1>3, <1>7, ReturnKeeps
<1>9. QED
  BY <1>2, <1>5, <1>8, BrowserKeeps DEF ClientInv

LEMMA TailOfLonger ==
  ASSUME NEW S, NEW t \in Seq(S), Len(t) > 1
  PROVE  Tail(t) \in Seq(S) /\ Tail(t) # <<>>
<1>1. PICK u : u = Tail(t)
  OBVIOUS
<1>2. u \in Seq(S) /\ Len(u) > 0
  BY <1>1
<1>3. ASSUME u = <<>> PROVE FALSE
  <2>1. Len(u) = 0
    BY <1>3
  <2>2. QED
    BY <1>2, <2>1
<1>4. QED
  BY <1>1, <1>2, <1>3

LEMMA DroppedKeeps ==
  ASSUME NEW f, NEW p, NEW ex, ClientCalls(f, p, FALSE, ex), NEW g,
         DOMAIN g = Slots, \A j \in Slots : g[j] = None \/ g[j] = f[j]
  PROVE  ClientCalls(g, p, FALSE, ex)
<1>1. \A j \in Slots : ~IsBusy(f[j])
  BY DEF ClientCalls, BusyRight
<1>2. ~IsBusy(None)
  BY DEF IsBusy
<1>3. CallsRight(g, p, ex)
  BY DEF ClientCalls, CallsRight
<1>4. BusyRight(g, FALSE)
  BY <1>1, <1>2 DEF BusyRight
<1>5. QED
  BY <1>3, <1>4 DEF ClientCalls

(* finish comes from the start page: when the page is another by now, the  *)
(* function is no handler of it; a resume page hears of the repair.        *)
LEMMA FinishKeeps ==
  ASSUME ClientInv, NEW i \in Slots, Running(i), Finish(i),
         calls[i].session \in Existing, calls[i].page = "start"
  PROVE  [Next]_vars /\ ClientInv'
<1>1. PICK s, c : s = calls[i].session /\ c = calls[i]
  OBVIOUS
<1>2. PICK g : g = [j \in Slots |-> IF j = i THEN None ELSE Unmounted(calls[j])]
  OBVIOUS
<1>3. stored' = s /\ UNCHANGED <<vars, late>> /\ s \in Existing
  BY <1>1 DEF Finish
<1>4. CASE page = "resume"
  <2>1. SessionsChanged(Returned(i)) /\ UNCHANGED pageVars
    BY <1>4 DEF Finish
  <2>2. ClientCalls(calls, page, busy, Existing) /\ busy \in BOOLEAN /\ ~c.live
    BY <1>1, <1>4, AnsweredCall
  <2>3. (busy /\ ~IsBusy(calls[i])) = busy
    BY <1>1, <2>2 DEF IsBusy
  <2>4. ClientCalls(calls', page, busy, Existing)
    <3>1. PICK next : next = Returned(i)
      OBVIOUS
    <3>2. ClientCalls(next, page, busy, Existing)
      BY <2>2, <2>3, <3>1, ReturnKeeps
    <3>3. QED
      BY <2>1, <3>1, <3>2, SessionsChangedKeeps
  <2>5. /\ page' = page /\ selected' = selected /\ listed' = listed /\ shown' = shown
        /\ busy' = busy /\ pending' = pending
    BY <2>1 DEF pageVars
  <2>6. QED
    BY <1>3, <2>4, <2>5, BrowserKeeps DEF ClientInv
<1>5. CASE page # "resume"
  <2>1. Room(g, 2) /\ Render("resume", g)
    BY <1>2, <1>5 DEF Finish
  <2>2. calls' = Opened(Put(g, [Call("initialize", s, <<"list">>) EXCEPT !.page = "resume"]),
                        "resume", s)
    BY <1>1, <1>2, <1>5, Zenon DEF Finish
  <2>3. PICK f : f = [j \in Slots |-> Unmounted(calls[j])]
    OBVIOUS
  <2>4. ClientCalls(f, "resume", FALSE, Existing)
    BY <2>3, UnmountedKeeps DEF ClientInv
  <2>5. DOMAIN g = Slots /\ \A j \in Slots : g[j] = None \/ g[j] = f[j]
    BY <1>2, <2>3
  <2>6. ClientCalls(g, "resume", FALSE, Existing)
    BY <2>4, <2>5, DroppedKeeps
  <2>7. QED
    BY <1>3, <2>1, <2>2, <2>6, ResumeKeeps
<1>6. QED
  BY <1>4, <1>5

LEMMA ReceiveOptionsKeeps ==
  ASSUME ClientInv, NEW i \in Slots, ReceiveOptions(i)
  PROVE  [Next]_vars /\ ClientInv'
<1>1. PICK c : c = calls[i]
  OBVIOUS
<1>2. Running(i) /\ Head(c.todo) = "options" /\ (AskForRepair(i) \/ Finish(i))
  BY <1>1 DEF ReceiveOptions, Received, Awaiting
<1>3. CallRight(c, page, Existing) /\ Existing \in SUBSET Sessions
  BY <1>1, <1>2, AnsweredCall
<1>4. c.do = "create"
  BY <1>2, <1>3, AwaitedRequest
<1>5. c.session \in Existing /\ c.page = "start"
  BY <1>2, <1>3, <1>4, CreateCall
<1>6. QED
  BY <1>1, <1>2, <1>5, AskKeeps, FinishKeeps

LEMMA ReceiveBoundKeeps ==
  ASSUME ClientInv, NEW i \in Slots, ReceiveBound(i)
  PROVE  [Next]_vars /\ ClientInv'
<1>1. PICK c, d : c = calls[i] /\ d = Rest(c)
  OBVIOUS
<1>2. Running(i) /\ Head(c.todo) = "bind"
  BY <1>1 DEF ReceiveBound, Received, Awaiting
<1>3. CallRight(c, page, Existing) /\ Existing \in SUBSET Sessions /\ busy \in BOOLEAN
  BY <1>1, <1>2, AnsweredCall
<1>4. c.do = "bind"
  BY <1>2, <1>3, AwaitedRequest DEF Writes
<1>5. c.session \in Existing
  BY <1>3, <1>4 DEF CallRight, SubjectExists
<1>6. CASE c.page = "start"
  <2>1. Finish(i)
    BY <1>1, <1>6 DEF ReceiveBound
  <2>2. QED
    BY <1>1, <1>2, <1>5, <1>6, <2>1, FinishKeeps
<1>7. CASE c.page # "start"
  <2>1. calls' = Advance(i, Rest(calls[i])) /\ UNCHANGED <<vars, pageVars, stored, late>>
    BY <1>1, <1>7 DEF ReceiveBound
  <2>2. d.todo # <<>>
    <3>1. Len(c.todo) > 1 /\ c.todo \in Seq(Writes \cup Reads) /\ c \in CallRow(Head(c.todo))
      BY <1>2, <1>3, <1>4, <1>7 DEF CallRight, WriteIsOne, CallRow
    <3>2. Tail(c.todo) \in Seq(Writes \cup Reads) /\ Tail(c.todo) # <<>>
      BY <3>1, TailOfLonger
    <3>3. PICK t, e : t = Tail(c.todo) /\ e = [c EXCEPT !.todo = t, !.answer = None]
      OBVIOUS
    <3>4. e.todo = t
      BY <3>1, <3>2, <3>3 DEF CallRow
    <3>5. QED
      BY <1>1, <3>2, <3>3, <3>4 DEF Rest
  <2>3. BusyAfter(i, d) = busy
    BY <1>3, <2>2 DEF BusyAfter
  <2>4. ClientCalls(calls', page, busy, Existing)
    BY <1>1, <1>2, <2>1, <2>3, GoesOn
  <2>5. /\ page' = page /\ selected' = selected /\ listed' = listed /\ shown' = shown
        /\ busy' = busy /\ pending' = pending
    BY <2>1 DEF pageVars
  <2>6. QED
    BY <2>1, <2>4, <2>5, BrowserKeeps DEF ClientInv
<1>8. QED
  BY <1>6, <1>7

-----------------------------------------------------------------------------
(* Failures *)

LEMMA RetryKeeps ==
  ASSUME ClientInv, NEW i \in Slots, Retry(i)
  PROVE  [Next]_vars /\ ClientInv'
<1>1. PICK c, d : c = calls[i] /\ d = [c EXCEPT !.answer = None]
  OBVIOUS
<1>2. /\ Running(i) /\ Head(c.todo) \notin Writes /\ calls' = [calls EXCEPT ![i] = d]
      /\ UNCHANGED <<vars, pageVars, stored, late>>
  BY <1>1 DEF Retry
<1>3. /\ CallRight(c, page, Existing) /\ Existing \in SUBSET Sessions /\ busy \in BOOLEAN
      /\ ClientCalls(calls, page, busy, Existing)
  BY <1>1, <1>2, AnsweredCall
<1>4. c \in CallRow(Head(c.todo))
  BY <1>3 DEF CallRight
<1>5. /\ d \in CallRow(Head(c.todo)) /\ d.answer = None /\ d.do = c.do /\ d.todo = c.todo
      /\ d.page = c.page /\ d.live = c.live /\ d.what = c.what /\ d.key = c.key
      /\ d.session = c.session
  BY <1>1, <1>4 DEF CallRow
<1>6. c.do = "create" => Head(c.todo) = "options"
  <2> SUFFICES ASSUME c.do = "create" PROVE Head(c.todo) = "options"
    OBVIOUS
  <2>1. Head(c.todo) \in RequestsOf(c.do, c.page)
    BY <1>3, AwaitedRequest
  <2>2. RequestsOf(c.do, c.page) = {"create", "options"}
    BY DEF RequestsOf
  <2>3. QED
    BY <1>2, <2>1, <2>2 DEF Writes
<1>7. SubjectExists(d, Existing)
  BY <1>3, <1>5, <1>6 DEF CallRight, SubjectExists
<1>8. CallRight(d, page, Existing)
  BY <1>3, <1>5, <1>7 DEF CallRight, WriteIsOne
<1>9. d # None /\ (IsBusy(d) <=> IsBusy(c))
  <2>1. d # None
    BY <1>8, CallIsSomething
  <2>2. QED
    BY <1>1, <1>2, <1>5, <2>1 DEF IsBusy, Running
<1>10. (busy /\ (IsBusy(calls[i]) => d # None)) = busy
  BY <1>3, <1>9
<1>11. ClientCalls(calls', page, busy, Existing)
  <2>1. calls[i] # None /\ (IsBusy(d) <=> IsBusy(calls[i]))
    BY <1>1, <1>2, <1>9 DEF Running
  <2>2. ClientCalls([calls EXCEPT ![i] = d], page, busy /\ (IsBusy(calls[i]) => d # None), Existing)
    BY <1>3, <1>8, <2>1, SlotKeeps
  <2>3. QED
    BY <1>2, <1>10, <2>2
<1>12. /\ page' = page /\ selected' = selected /\ listed' = listed /\ shown' = shown
       /\ busy' = busy /\ pending' = pending
  BY <1>2 DEF pageVars
<1>13. QED
  BY <1>2, <1>11, <1>12, BrowserKeeps DEF ClientInv

(* A write that was given up is a request of the service. *)
LEMMA GivenUpIsRight ==
  ASSUME NEW c, NEW p, NEW ex \in SUBSET Sessions, CallRight(c, p, ex), Head(c.todo) \in LateWrites,
         c.answer = None, NEW r,
         r = [request |-> Head(c.todo), session |-> c.session, key |-> c.key, what |-> c.what]
  PROVE  LateRight(r, ex)
<1>1. Head(c.todo) \in Writes /\ c.do = Head(c.todo) /\ c.session \in Sessions
  BY NobodyCallsAssumption, AwaitedRequest
<1>2. c \in CallRow(Head(c.todo)) /\ SubjectExists(c, ex) /\ WriteIsOne(c)
  BY DEF CallRight
<1>3. c.key \in Keys \cup {None} /\ c.what \in Subjects
  BY <1>2 DEF CallRow
<1>4. r.request = c.do /\ r.session = c.session /\ r.key = c.key /\ r.what = c.what
  BY <1>1
<1>5. r \in LateRow
  BY <1>1, <1>3 DEF LateRow
<1>6. QED
  BY <1>1, <1>2, <1>4, <1>5 DEF LateRight, SubjectExists, WriteIsOne

LEMMA GiveUpKeeps ==
  ASSUME ClientInv, NEW i \in Slots, GiveUp(i)
  PROVE  [Next]_vars /\ ClientInv'
<1>1. PICK c : c = calls[i]
  OBVIOUS
<1>2. Running(i)
  BY DEF GiveUp
<1>3. /\ CallRight(c, page, Existing) /\ Existing \in SUBSET Sessions /\ busy \in BOOLEAN
      /\ ClientCalls(calls, page, busy, Existing) /\ (c.live => c.page = page)
  BY <1>1, <1>2, AnsweredCall
<1>4. CASE Head(c.todo) = "options"
  <2>1. AskForRepair(i)
    BY <1>1, <1>4 DEF GiveUp
  <2>2. QED
    BY <1>1, <1>2, <1>4, <2>1, AskKeeps
<1>5. CASE Head(c.todo) # "options"
  <2>1. PICK goesOn, left, r :
          /\ goesOn = (c.page = "resume" /\ Head(c.todo) \in {"list", "snapshot"})
          /\ left = IF goesOn THEN Rest(c) ELSE [c EXCEPT !.todo = <<>>]
          /\ r = [request |-> Head(c.todo), session |-> c.session, key |-> c.key, what |-> c.what]
    OBVIOUS
  <2>2. /\ calls' = Advance(i, left) /\ busy' = BusyAfter(i, left)
        /\ shown' \in {NothingShown, shown} /\ listed' \in {{}, listed}
        /\ UNCHANGED <<vars, page, selected, pending, stored>>
    BY <1>1, <1>5, <2>1 DEF GiveUp
  <2>3. \/ late' = late
        \/ Head(c.todo) \in LateWrites /\ c.answer = None /\ late' = late \cup {r}
    BY <1>1, <1>5, <2>1 DEF GiveUp
  <2>4. \A x \in late' : LateRight(x, Existing)
    BY <1>3, <2>1, <2>3, GivenUpIsRight DEF ClientInv
  <2>5. ClientCalls(calls', page, busy', Existing)
    <3>1. CASE goesOn
      <4>1. left = Rest(calls[i])
        BY <1>1, <2>1, <3>1
      <4>2. ClientCalls(Advance(i, left), page, BusyAfter(i, left), Existing)
        BY <1>1, <1>2, <2>1, <3>1, <4>1, GoesOn
      <4>3. QED
        BY <2>2, <4>2
    <3>2. CASE ~goesOn
      <4>1. c \in CallRow(Head(c.todo)) /\ <<>> \in Seq(Writes \cup Reads)
        BY <1>3 DEF CallRight
      <4>2. left = [c EXCEPT !.todo = <<>>]
        BY <2>1, <3>2
      <4>3. left.todo = <<>>
        BY <4>1, <4>2 DEF CallRow
      <4>4. Advance(i, left) = Returned(i)
        BY <4>3 DEF Advance, Returned
      <4>5. BusyAfter(i, left) = (busy /\ ~IsBusy(calls[i]))
        BY <1>2, <1>3, <4>3 DEF BusyAfter, IsBusy, Running
      <4>6. ClientCalls(Returned(i), page, busy /\ ~IsBusy(calls[i]), Existing)
        BY <1>2, <1>3, ReturnKeeps
      <4>7. QED
        BY <2>2, <4>4, <4>5, <4>6
    <3>3. QED
      BY <2>1, <3>1, <3>2
  <2>6. PageRight(page', selected', listed', Existing)
    BY <2>2 DEF ClientInv, PageRight
  <2>7. ShownRight(shown')
    BY <2>2, NothingIsShown DEF ClientInv
  <2>8. QED
    BY <2>2, <2>4, <2>5, <2>6, <2>7, BrowserKeeps DEF ClientInv
<1>6. QED
  BY <1>4, <1>5

-----------------------------------------------------------------------------
(* The whole *)

LEMMA WebInitInv == WebInit => IInv /\ ClientInv
<1> SUFFICES ASSUME WebInit PROVE IInv /\ ClientInv
  OBVIOUS
<1>1. IInv /\ Existing = {}
  BY InitIInv DEF WebInit, Init, Existing
<1>2. PICK f, c : /\ f = [i \in Slots |-> None]
                  /\ c = [Call("initialize", stored, <<"list">>) EXCEPT !.page = "resume"]
  OBVIOUS
<1>3. /\ page = "resume" /\ selected = None /\ listed = {} /\ shown = NothingShown
      /\ busy = FALSE /\ pending = None /\ stored = None /\ late = {}
      /\ calls = Mounted(f, "resume")
  BY <1>2 DEF WebInit
<1>4. ClientCalls(f, "resume", FALSE, {}) /\ Free(f) # {}
  <2>1. DOMAIN f = Slots /\ \A i \in Slots : f[i] = None /\ ~IsBusy(f[i])
    BY <1>2 DEF IsBusy
  <2>2. CallsRight(f, "resume", {}) /\ BusyRight(f, FALSE)
    BY <2>1 DEF CallsRight, BusyRight
  <2>3. Free(f) # {}
    BY <2>1, BrowserAssumption DEF Free
  <2>4. QED
    BY <2>2, <2>3 DEF ClientCalls
<1>5. ClientCalls(calls, "resume", FALSE, {})
  <2>1. {} \in SUBSET Sessions /\ stored \in {} \cup {None} /\ "resume" \in Pages
    BY <1>3 DEF Pages
  <2>2. ClientCalls(Mounted(f, "resume"), "resume", FALSE, {})
    BY <1>3, <1>4, <2>1, MountedKeeps
  <2>3. QED
    BY <1>3, <2>2
<1>6. PageRight(page, selected, listed, Existing)
  BY <1>1, <1>3 DEF PageRight, Pages
<1>7. QED
  BY <1>1, <1>3, <1>5, <1>6, NothingIsShown DEF ClientInv, ClientCalls

LEMMA WebStep ==
  ASSUME IInv, ClientInv, [WebNext]_webVars
  PROVE  [Next]_vars /\ IInv' /\ ClientInv'
<1>1. CASE UNCHANGED webVars
  <2>1. UNCHANGED vars /\ UNCHANGED clientVars
    BY <1>1 DEF webVars
  <2>2. UNCHANGED pageVars /\ stored' = stored /\ calls' = calls /\ late' = late
    BY <2>1 DEF clientVars
  <2>3. /\ page' = page /\ selected' = selected /\ listed' = listed /\ shown' = shown
        /\ busy' = busy /\ pending' = pending
    BY <2>2 DEF pageVars
  <2>4. [Next]_vars /\ ClientInv'
    BY <2>1, <2>2, <2>3, BrowserKeeps DEF ClientInv, ClientCalls
  <2>5. QED
    BY <2>4, NextIInv
<1>2. CASE \E p \in Pages : Navigate(p)
  BY <1>2, NavigateKeeps, NextIInv
<1>3. CASE \E s \in Sessions : ChooseSession(s) \/ CreateRepair(s)
  BY <1>3, ChooseSessionKeeps, CreateRepairKeeps, NextIInv
<1>4. CASE LeaseAction \/ BindVerifiedRepair \/ TogglePlan \/ ContinueToRepair
  BY <1>4, LeaseActionKeeps, BindKeeps, TogglePlanKeeps, ContinueKeeps, NextIInv
<1>5. CASE \E k \in Keys \ Sessions, what \in Transitions \cup {"recorded", "verified"} :
             Mutate(k, what)
  BY <1>5, MutateKeeps, NextIInv
<1>6. CASE Elsewhere \/ \E r \in late : ServeLate(r) \/ LoseLate(r)
  BY <1>6, ElsewhereKeeps, ServeLateKeeps, NextIInv
<1>7. ASSUME NEW i \in Slots, ServeRequest(i)
      PROVE  [Next]_vars /\ IInv' /\ ClientInv'
  BY <1>7, ServeRequestKeeps, NextIInv
<1>8. ASSUME NEW i \in Slots, Receive(i)
      PROVE  [Next]_vars /\ IInv' /\ ClientInv'
  <2>1. [Next]_vars /\ ClientInv'
    BY <1>8, ReceiveListKeeps, ReceiveFirstListKeeps, ReceiveVehiclesKeeps, ReceiveSnapshotKeeps,
       ReceiveDetailKeeps, ReceiveWriteKeeps, ReceiveCreatedKeeps, ReceiveOptionsKeeps,
       ReceiveBoundKeeps DEF Receive
  <2>2. QED
    BY <2>1, NextIInv
<1>9. ASSUME NEW i \in Slots, Retry(i) \/ GiveUp(i)
      PROVE  [Next]_vars /\ IInv' /\ ClientInv'
  BY <1>9, RetryKeeps, GiveUpKeeps, NextIInv
<1>10. QED
  BY <1>1, <1>2, <1>3, <1>4, <1>5, <1>6, <1>7, <1>8, <1>9 DEF WebNext, Settle

LEMMA WebInvariant == WebSpec => [](IInv /\ ClientInv)
<1>1. WebInit => IInv /\ ClientInv
  BY WebInitInv
<1>2. (IInv /\ ClientInv) /\ [WebNext]_webVars => (IInv /\ ClientInv)'
  BY WebStep
<1>3. QED
  BY <1>1, <1>2, PTL DEF WebSpec

(* What a page and the functions that run for it hold: the answer a        *)
(* function has in hand is one to the request it awaits.                   *)
THEOREM WebTyped == WebSpec => []WebTypeOK
<1>1. ClientInv => WebTypeOK
  <2> SUFFICES ASSUME ClientInv PROVE WebTypeOK
    OBVIOUS
  <2>1. Existing \subseteq Sessions
    BY DEF Existing
  <2>2. \A i \in Slots : Running(i) => calls[i] \in CallRow(Head(calls[i].todo))
    BY DEF ClientInv, CallsRight, CallRight, Running
  <2>3. DOMAIN calls = Slots /\ late \subseteq LateRow /\ busy \in BOOLEAN
    BY DEF ClientInv, CallsRight, BusyRight, LateRight
  <2>4. /\ page \in Pages /\ selected \in Sessions \cup Vehicles \cup {None}
        /\ listed \subseteq Sessions \cup Vehicles
        /\ pending \in Sessions \cup {None} /\ stored \in Sessions \cup {None}
    BY <2>1 DEF ClientInv, PageRight
  <2>5. /\ shown.session \in Sessions \cup {None} /\ shown.guidance \in Sessions \cup {None}
        /\ shown.lease \in {"available", "owned", "held_by_other", None} /\ shown.held \in BOOLEAN
    BY DEF ClientInv, ShownRight
  <2>6. QED
    BY <2>2, <2>3, <2>4, <2>5 DEF WebTypeOK
<1>2. QED
  BY <1>1, WebInvariant, PTL

(* A page is busy exactly while one of its handlers runs, and no second    *)
(* one starts before the first has returned.                               *)
THEOREM OneHandler == WebSpec => []OneHandlerAtATime
<1>1. ClientInv => OneHandlerAtATime
  <2> SUFFICES ASSUME ClientInv PROVE OneHandlerAtATime
    OBVIOUS
  <2>1. BusyRight(calls, busy)
    BY DEF ClientInv
  <2>2. \A i \in Slots : Busy(i) <=> IsBusy(calls[i])
    BY DEF Busy, IsBusy, Running
  <2>3. busy <=> \E i \in Slots : Busy(i)
    BY <2>1, <2>2 DEF BusyRight
  <2>4. PICK B : B = {i \in Slots : Busy(i)}
    OBVIOUS
  <2>5. \A i, j \in B : i = j
    BY <2>1, <2>2, <2>4 DEF BusyRight
  <2>6. Cardinality(B) <= 1
    <3>1. CASE B = {}
      BY <3>1, FS_EmptySet
    <3>2. CASE B # {}
      <4>1. PICK i \in B : B = {i}
        BY <2>5, <3>2
      <4>2. Cardinality(B) = 1
        BY <4>1, FS_Singleton
      <4>3. QED
        BY <4>2
    <3>3. QED
      BY <3>1, <3>2
  <2>7. QED
    BY <2>3, <2>4, <2>6 DEF OneHandlerAtATime
<1>2. QED
  BY <1>1, WebInvariant, PTL

(* The active repair, the pending one and the selected one exist.          *)
THEOREM ActiveRepair == WebSpec => []ActiveRepairExists
<1>1. ClientInv => ActiveRepairExists
  BY DEF ClientInv, PageRight, Existing, ActiveRepairExists
<1>2. QED
  BY <1>1, WebInvariant, PTL

(* Whatever the browser does, each of its steps is one of the service, or  *)
(* leaves the service alone: what is proved of RepairSession holds of it.  *)
THEOREM ClientUsesTheService == WebSpec => Spec
<1>1. WebInit => Init
  BY DEF WebInit
<1>2. (IInv /\ ClientInv) /\ [WebNext]_webVars => [Next]_vars
  BY WebStep
<1>3. QED
  BY <1>1, <1>2, WebInvariant, PTL DEF WebSpec, Spec
===============================================================================
