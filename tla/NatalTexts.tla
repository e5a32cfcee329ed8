------------------------------ MODULE NatalTexts ------------------------------
(* What the model wrote of a birth chart, in its report and in the descriptions
   of its planets, houses and aspects. *)
EXTENDS NatalReport, NatalDescriptions

(* It reaches a reader only as the checks left it. *)
TextsAreSound == ReportIsSound /\ DescriptionsSound
=============================================================================
