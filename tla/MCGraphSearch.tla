--------------------------- MODULE MCGraphSearch ---------------------------
(* Three labels: a dish under two names, of which one label names itself by *)
(* slug, and a dish that is a variant of it.                                *)
EXTENDS GraphSearch, TLC

CONSTANTS d1, d2, d3, asked

MCSlug == "Gongbao" :> "gongbao" @@ "Kung Pao" :> "kung-pao" @@ "kung-pao" :> "kung-pao"
          @@ "Veggie" :> "veggie" @@ "veggie" :> "veggie" @@ "Chili" :> "chili" @@ "Chilli" :> "chilli"
MCLower == "Gongbao" :> "gongbao" @@ "Kung Pao" :> "kung pao" @@ "kung-pao" :> "kung-pao"
          @@ "Veggie" :> "veggie" @@ "veggie" :> "veggie" @@ "Chili" :> "chili" @@ "Chilli" :> "chilli"

Item(name, aliases) == [name |-> name, aliases |-> aliases]
VariantOf(from, to) == [from |-> from, relation |-> "VARIANT_OF", to |-> to]

MCPayload ==
    d1 :> [dish |-> Item("Gongbao", <<>>), ingredients |-> <<Item("Chili", <<>>)>>, relations |-> <<>>]
    @@ d2 :> [dish |-> Item("Kung Pao", <<"Gongbao">>), ingredients |-> <<Item("Chilli", <<>>)>>,
              relations |-> <<VariantOf("kung-pao", "veggie")>>]
    @@ d3 :> [dish |-> Item("Veggie", <<>>), ingredients |-> <<Item("Chili", <<"Chilli">>)>>,
              relations |-> <<VariantOf("veggie", "kung-pao")>>]

MCSimilar == {<<"Chilli", "Chili">>, <<"Chili", "Chilli">>}
MCMentions == {asked} \X {"Kung Pao", "Veggie"}
MCNear == {<<asked, "Kung Pao">>}
MCSymmetric == {"VARIANT_OF"}
============================================================================
