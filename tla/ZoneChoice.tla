----------------------------- MODULE ZoneChoice -----------------------------
(***************************************************************************)
(* The shipping zone of an order: the mapping from a province and a city to  *)
(* a zone (apps/shipping/zones.py), the endpoints that suggest one, the      *)
(* dropdown of the web checkout, which a suggestion and the shopper both set, *)
(* the app's list with the totals its pay button is told, and the zone and   *)
(* fee place_order reads in the end, while staff edit the zones.            *)
(***************************************************************************)
EXTENDS Integers, Sequences

CONSTANTS
  Localities,    \* bound: the addresses the search returns, normalised
  ZoneFees, OpeningZones,
  MaxPicks,      \* bound: addresses picked on the page, totals asked for by the app
  MaxZoneEdits   \* bound

NoZone == "none"
Zones == {"NCR", "VisMin", "Luzon"}

ASSUME ZoneAssumption ==
  /\ Localities \subseteq [province : STRING, city : STRING]
  /\ ZoneFees \subseteq Nat /\ MaxPicks \in Nat /\ MaxZoneEdits \in Nat
  /\ OpeningZones \in [Zones -> [active : BOOLEAN, fee : ZoneFees]]

VARIABLES
  zoneRow,     \* the ShippingZone rows
  chooser,     \* who is choosing: the web checkout, the app, or nobody yet
  offered,     \* the active rows as the client listed them
  select,      \* co-zone's value, the app's zone
  formZone,    \* form.zone_id, the zone the app would send
  shownFee,    \* the page's shippingFee
  ask,         \* ask[n]: the question the n-th picked address sent
  quote,       \* quote[n]: the app's n-th question for a total
  payLabel,    \* totalDisplay, as the zone and the fee that are in it
  shipTo,      \* the checkout that was submitted
  zoneEdits,
  lastWord,    \* history: the question that set the zone last, or 0
  chosen       \* history: the zone picked by hand since the last address

dropdown == <<select, formZone, shownFee, lastWord, chosen>>
phoneVars == <<quote, payLabel>>
zoneVars == <<zoneRow, chooser, offered, dropdown, ask, phoneVars, shipTo, zoneEdits>>

Unpicked == [at |-> "none", of |-> [province |-> "", city |-> ""], zone |-> NoZone]
Unsent == [at |-> "none", zone |-> NoZone, fee |-> 0]
Unquoted == [at |-> "none", zone |-> NoZone, fee |-> 0]
NoTotal == [zone |-> NoZone, fee |-> 0]

ZoneTypeOK ==
  /\ zoneRow \in [Zones -> [active : BOOLEAN, fee : ZoneFees]]
  /\ chooser \in {"nobody", "web", "phone"}
  /\ \E S \in SUBSET Zones : offered \in [S -> ZoneFees]
  /\ select \in Zones \cup {NoZone} /\ formZone \in Zones \cup {NoZone}
  /\ shownFee \in ZoneFees \cup {0} /\ lastWord \in 0..MaxPicks
  /\ chosen \in Zones \cup {NoZone}
  /\ ask \in [1..MaxPicks -> [at : {"none", "asked", "answered", "over"},
       of : Localities \cup {Unpicked.of}, zone : Zones \cup {NoZone}]]
  /\ quote \in [1..MaxPicks -> [at : {"none", "asked", "answered", "over"},
       zone : Zones \cup {NoZone}, fee : ZoneFees \cup {0}]]
  /\ payLabel \in [zone : Zones \cup {NoZone}, fee : ZoneFees \cup {0}]
  /\ shipTo \in [at : {"none", "sent", "ordered", "refused"}, zone : Zones \cup {NoZone},
       fee : ZoneFees \cup {0}]
  /\ zoneEdits \in 0..MaxZoneEdits

ZoneInit ==
  /\ zoneRow = OpeningZones /\ chooser = "nobody" /\ offered = <<>>
  /\ select = NoZone /\ formZone = NoZone /\ shownFee = 0 /\ lastWord = 0 /\ chosen = NoZone
  /\ ask = [n \in 1..MaxPicks |-> Unpicked] /\ shipTo = Unsent /\ zoneEdits = 0
  /\ quote = [n \in 1..MaxPicks |-> Unquoted] /\ payLabel = NoTotal

-----------------------------------------------------------------------------
(* resolve_zone *)

\* The tables, without the names that only differ from another in an accent.
NcrTokens == {
  "ncr", "national capital region", "metro manila", "metropolitan manila", "manila",
  "quezon city", "caloocan", "las pinas", "makati", "malabon", "mandaluyong",
  "marikina", "muntinlupa", "navotas", "paranaque", "pasay", "pasig", "pateros",
  "san juan", "taguig", "valenzuela"}
VisMinTokens == {
  "region vi", "region vii", "region viii", "western visayas", "central visayas",
  "eastern visayas", "visayas", "iloilo", "iloilo city", "capiz", "aklan", "antique",
  "guimaras", "negros occidental", "negros oriental", "cebu", "cebu city", "bohol",
  "siquijor", "leyte", "southern leyte", "biliran", "samar", "eastern samar",
  "northern samar", "western samar", "bacolod", "tacloban", "dumaguete",
  "tagbilaran", "kalibo", "roxas city", "region ix", "region x", "region xi",
  "region xii", "region xiii", "caraga", "barmm", "bangsamoro", "mindanao",
  "zamboanga peninsula", "zamboanga del norte", "zamboanga del sur",
  "zamboanga sibugay", "zamboanga city", "zamboanga", "northern mindanao",
  "bukidnon", "camiguin", "lanao del norte", "misamis occidental",
  "misamis oriental", "cagayan de oro", "davao region", "davao", "davao city",
  "davao del norte", "davao del sur", "davao occidental", "davao oriental",
  "davao de oro", "compostela valley", "soccsksargen", "south cotabato",
  "north cotabato", "cotabato", "cotabato city", "sultan kudarat", "sarangani",
  "general santos", "agusan del norte", "agusan del sur", "surigao del norte",
  "surigao del sur", "dinagat islands", "basilan", "lanao del sur", "maguindanao",
  "maguindanao del norte", "maguindanao del sur", "sulu", "tawi-tawi", "tawi tawi",
  "butuan", "iligan", "pagadian", "dipolog", "surigao city"}
LuzonTokens == {
  "luzon", "region i", "region ii", "region iii", "region iv-a", "region iv-b",
  "region v", "ilocos region", "ilocos", "ilocos norte", "ilocos sur", "la union",
  "pangasinan", "cagayan valley", "batanes", "cagayan", "isabela", "nueva vizcaya",
  "quirino", "central luzon", "aurora", "bataan", "bulacan", "nueva ecija",
  "pampanga", "tarlac", "zambales", "calabarzon", "cavite", "laguna", "batangas",
  "rizal", "quezon", "mimaropa", "marinduque", "occidental mindoro",
  "oriental mindoro", "palawan", "romblon", "bicol region", "bicol", "albay",
  "camarines norte", "camarines sur", "catanduanes", "masbate", "sorsogon",
  "cordillera administrative region", "cordillera", "car", "abra", "apayao",
  "benguet", "ifugao", "kalinga", "mountain province", "baguio", "olongapo",
  "angeles", "dagupan", "naga", "legazpi", "lucena", "puerto princesa",
  "santiago city", "tuguegarao"}

Tokens == [NCR |-> NcrTokens, VisMin |-> VisMinTokens, Luzon |-> LuzonTokens]

\* `a in b`
Inside(a, b) == \E i \in 0..(Len(b) - Len(a)) : SubSeq(b, i + 1, i + Len(a)) = a

Naming(name) == {z \in Zones : name \in Tokens[z]}
Resembling(name) ==
  {z \in Zones : \E t \in Tokens[z] : Inside(t, name) \/ Inside(name, t)}

\* The tables are tried in this order.
FirstOf(zones) ==
  CASE "NCR" \in zones -> "NCR"
    [] "VisMin" \in zones -> "VisMin"
    [] "Luzon" \in zones -> "Luzon"
    [] OTHER -> NoZone

\* An exact name before a resemblance
MatchZone(name) ==
  IF name = "" THEN NoZone
  ELSE FirstOf(IF Naming(name) # {} THEN Naming(name) ELSE Resembling(name))

\* Mutant of ResolveZoneName: an unknown city is Luzon before the province is asked.
ResolveByCity(province, city) ==
  CASE province = "" /\ city = "" -> NoZone
    [] MatchZone(city) # NoZone -> MatchZone(city)
    [] city = "" /\ MatchZone(province) # NoZone -> MatchZone(province)
    [] OTHER -> "Luzon"

\* The city first; what no table knows is Luzon.
ResolveZoneName(province, city) ==
  CASE province = "" /\ city = "" -> NoZone
    [] MatchZone(city) # NoZone -> MatchZone(city)
    [] MatchZone(city) = NoZone /\ MatchZone(province) # NoZone -> MatchZone(province)
    [] OTHER -> "Luzon"

Active == {z \in Zones : zoneRow[z].active}
ResolveZone(province, city) ==
  LET name == ResolveZoneName(province, city) IN IF name \in Active THEN name ELSE NoZone

-----------------------------------------------------------------------------
(* The checkout page *)

Listed == [z \in Active |-> zoneRow[z].fee]

\* checkout_page
OpenCheckoutPage ==
  /\ chooser = "nobody" /\ chooser' = "web" /\ offered' = Listed
  /\ UNCHANGED <<zoneRow, dropdown, ask, phoneVars, shipTo, zoneEdits>>

\* Mutant of AfterChange: the select is set without its change event.
AfterChangeSilent(z, now) == now
\* updateShipping and the form's model follow the change event.
AfterChange(z, now) == [zone |-> z, fee |-> IF z = NoZone THEN 0 ELSE offered[z]]

\* An option that was not listed empties the select.
SetZone(zone, n) ==
  LET z == IF zone \in DOMAIN offered THEN zone ELSE NoZone
      form == AfterChange(z, [zone |-> formZone, fee |-> shownFee])
  IN select' = z /\ formZone' = form.zone /\ shownFee' = form.fee /\ lastWord' = n

\* The shopper picks an option of the select, the empty one too.
ChooseZone(z) ==
  /\ chooser = "web" /\ z \in DOMAIN offered \cup {NoZone} /\ z # select
  /\ SetZone(z, 0) /\ chosen' = z
  /\ UNCHANGED <<zoneRow, chooser, offered, ask, phoneVars, shipTo, zoneEdits>>

\* place_changed: the address search found a province or a city.
PickAddress(n, place) ==
  /\ chooser = "web" /\ ask[n].at = "none" /\ \A m \in 1..(n - 1) : ask[m].at # "none"
  /\ place.province # "" \/ place.city # ""
  /\ ask' = [ask EXCEPT ![n] = [at |-> "asked", of |-> place, zone |-> NoZone]]
  /\ chosen' = NoZone /\ UNCHANGED <<select, formZone, shownFee, lastWord>>
  /\ UNCHANGED <<zoneRow, chooser, offered, phoneVars, shipTo, zoneEdits>>

\* resolve_shipping_zone; ZoneResolveView answers alike.
ResolveShippingZone(n) ==
  /\ ask[n].at = "asked"
  /\ ask' = [ask EXCEPT ![n].at = "answered",
                        ![n].zone = ResolveZone(ask[n].of.province, ask[n].of.city)]
  /\ UNCHANGED <<zoneRow, chooser, offered, dropdown, phoneVars, shipTo, zoneEdits>>

\* Answers arrive in any order; null leaves the dropdown alone.
Suggest(n) ==
  /\ ask[n].at = "answered" /\ ask' = [ask EXCEPT ![n].at = "over"]
  /\ IF ask[n].zone = NoZone THEN UNCHANGED dropdown
     ELSE SetZone(ask[n].zone, n) /\ UNCHANGED chosen
  /\ UNCHANGED <<zoneRow, chooser, offered, phoneVars, shipTo, zoneEdits>>

\* The request fails: the dropdown remains the fallback.
SuggestionLost(n) ==
  /\ ask[n].at \in {"asked", "answered"} /\ ask' = [ask EXCEPT ![n].at = "over"]
  /\ UNCHANGED <<zoneRow, chooser, offered, dropdown, phoneVars, shipTo, zoneEdits>>

-----------------------------------------------------------------------------
(* The app's checkout screen *)

\* The effect on a zone that was set: /cart/validate/ is asked for its total.
AskTotal(z) ==
  \E n \in 1..MaxPicks :
    /\ quote[n].at = "none" /\ \A m \in 1..(n - 1) : quote[m].at # "none"
    /\ quote' = [quote EXCEPT ![n] = [at |-> "asked", zone |-> z, fee |-> 0]]

SetZoneOnPhone(z) ==
  /\ select' = z /\ formZone' = z /\ UNCHANGED <<shownFee, lastWord, chosen>>
  /\ IF z = NoZone THEN UNCHANGED quote ELSE AskTotal(z)

\* Ordered by name
FirstListed == CASE "Luzon" \in Active -> "Luzon" [] "NCR" \in Active -> "NCR"
                 [] "VisMin" \in Active -> "VisMin" [] OTHER -> NoZone

\* ZoneListView has answered: the screen takes the first.
ListZones ==
  /\ chooser = "nobody" /\ chooser' = "phone" /\ offered' = Listed
  /\ SetZoneOnPhone(FirstListed)
  /\ UNCHANGED <<zoneRow, ask, payLabel, shipTo, zoneEdits>>

\* chooseZone; the zone that is already set runs no effect.
ChooseZoneOnPhone(z) ==
  /\ chooser = "phone" /\ z \in DOMAIN offered /\ z # select /\ SetZoneOnPhone(z)
  /\ UNCHANGED <<zoneRow, chooser, offered, ask, payLabel, shipTo, zoneEdits>>

\* CartValidateView has a total only with a zone that is active by now.
ReadTotal(n) ==
  /\ quote[n].at = "asked"
  /\ quote' = [quote EXCEPT ![n] =
       IF quote[n].zone \in Active
       THEN [at |-> "answered", zone |-> quote[n].zone, fee |-> zoneRow[quote[n].zone].fee]
       ELSE [at |-> "answered", zone |-> NoZone, fee |-> 0]]
  /\ UNCHANGED <<zoneRow, chooser, offered, dropdown, ask, payLabel, shipTo, zoneEdits>>

\* setTotalDisplay, with the answer or with nothing after a failure, whatever
\* zone was chosen since
TellTotal(n, label) ==
  /\ quote' = [quote EXCEPT ![n].at = "over"] /\ payLabel' = label
  /\ UNCHANGED <<zoneRow, chooser, offered, dropdown, ask, shipTo, zoneEdits>>

TotalArrives(n) ==
  quote[n].at = "answered" /\ TellTotal(n, [zone |-> quote[n].zone, fee |-> quote[n].fee])
TotalLost(n) == quote[n].at \in {"asked", "answered"} /\ TellTotal(n, NoTotal)

-----------------------------------------------------------------------------
(* The order, and staff *)

\* The payload is taken when the form is sent; the page lives on meanwhile.
SubmitZone ==
  /\ shipTo.at \in {"none", "refused"} /\ select # NoZone
  /\ shipTo' = [at |-> "sent", zone |-> formZone, fee |-> 0]
  /\ UNCHANGED <<zoneRow, chooser, offered, dropdown, ask, phoneVars, zoneEdits>>

\* place_order takes an active zone, and its fee of now.
OrderToZone ==
  /\ shipTo.at = "sent"
  /\ shipTo' = IF shipTo.zone \in Active
               THEN [shipTo EXCEPT !.at = "ordered", !.fee = zoneRow[shipTo.zone].fee]
               ELSE [shipTo EXCEPT !.at = "refused"]
  /\ UNCHANGED <<zoneRow, chooser, offered, dropdown, ask, phoneVars, zoneEdits>>

EditZoneRow(z, row) ==
  /\ zoneEdits < MaxZoneEdits /\ zoneEdits' = zoneEdits + 1
  /\ zoneRow' = [zoneRow EXCEPT ![z] = row]
  /\ UNCHANGED <<chooser, offered, dropdown, ask, phoneVars, shipTo>>

ZoneNext ==
  \/ OpenCheckoutPage \/ ListZones \/ SubmitZone \/ OrderToZone
  \/ \E z \in Zones \cup {NoZone} : ChooseZone(z)
  \/ \E z \in Zones : ChooseZoneOnPhone(z)
  \/ \E n \in 1..MaxPicks :
       \/ \E place \in Localities : PickAddress(n, place)
       \/ ResolveShippingZone(n) \/ Suggest(n) \/ SuggestionLost(n)
       \/ ReadTotal(n) \/ TotalArrives(n) \/ TotalLost(n)
  \/ \E z \in Zones, row \in [active : BOOLEAN, fee : ZoneFees] : EditZoneRow(z, row)

ZoneSpec == ZoneInit /\ [][ZoneNext]_zoneVars

-----------------------------------------------------------------------------
(* Properties *)

\* However suggestions, the shopper's own choice and edits of the zones overlap:
\* the zone and the fee the web page shows are those it will send, an order is
\* charged the fee its client was offered unless a zone was edited meanwhile, and
\* a zone that was suggested for a city the tables do not know is the province's.
ZoneAsShown ==
  /\ chooser = "web" => formZone = select
  /\ chooser = "web" => shownFee = (IF select = NoZone THEN 0 ELSE offered[select])
  /\ shipTo.at = "ordered" /\ zoneEdits = 0 => shipTo.fee = offered[shipTo.zone]
  /\ lastWord # 0 /\ select # NoZone /\ MatchZone(ask[lastWord].of.city) = NoZone =>
       \A z \in Naming(ask[lastWord].of.province) : select = z

Suggested(n) == ask[n].at \in {"answered", "over"} /\ ask[n].zone # NoZone

\* A place of which the tables know neither city nor province gets no zone.
UnknownIsNotGuessed ==
  \A n \in 1..MaxPicks : Suggested(n) =>
    MatchZone(ask[n].of.city) # NoZone \/ MatchZone(ask[n].of.province) # NoZone

\* A place in Cebu gets VisMin.
CebuIsVisMin ==
  \A n \in 1..MaxPicks : Suggested(n) /\ ask[n].of.province = "cebu" => ask[n].zone = "VisMin"

\* A zone picked by hand after an address stays until another address is picked.
ManualChoiceStands == chosen # NoZone => select = chosen

\* What the mapping and the page say of themselves: unknown input is never a
\* guessed fee, a Cebu address always lands on VisMin, the manual dropdown stays
\* authoritative. Stated as weakly as can be, that at every moment one of the
\* three has held: one behaviour that breaks this breaks each of them.
OneZonePromiseStands == UnknownIsNotGuessed \/ CebuIsVisMin \/ ManualChoiceStands
=============================================================================
