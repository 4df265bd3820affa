------------------------------ MODULE MCKeyless ------------------------------
EXTENDS KeylessNode

Says(identity, wide, from, to) == [identity |-> identity, wide |-> wide, from |-> from, to |-> to]
MCAttested == [first |-> Says("w", FALSE, 1, 2), broad |-> Says("x", TRUE, 1, 2),
               narrow |-> Says("x", FALSE, 1, 2)]
MCServices == {<<{"w"}>>, <<{"w"}, {"w"}>>}
Is(form, origin, of) == [form |-> form, origin |-> origin, of |-> of]
MCBodies ==
  {Is("proper", "registry", "first"), Is("misbound", "registry", "first"),
   Is("forged", "registry", "first"), Is("proper", "mirror", "first"),
   Is("proper", "registry", "broad"), Is("proper", "registry", "")}
Event(type, actor, proven) == [type |-> type, actor |-> actor, proven |-> proven]
MCEvents ==
  {Event("retracted", "registry", TRUE), Event("republished", "registry", TRUE),
   Event("retracted", "other", TRUE), Event("retracted", "registry", FALSE)}
Voice(who, since, receipted) == [who |-> who, since |-> since, receipted |-> receipted]
MCVoices ==
  {Voice("narrow", 1, TRUE), Voice("document", 1, TRUE), Voice("document", 2, TRUE),
   Voice("document", 1, FALSE), Voice("broad", 1, TRUE), Voice("broad", 2, TRUE),
   Voice("registry", 1, TRUE), Voice("bystander", 1, FALSE), Voice("mirror", 1, FALSE),
   Voice("first", 1, FALSE)}
=============================================================================
