\* One archive, edited once, imported once, with one change by somebody else on the way.
SPECIFICATION Spec
CONSTANTS
    Scope = {"platform", "p"}
    Name = {"Build it", "build-it", "review", "strict"}
    SkillName = {"code", "test"}
    Version = {1}
    Slug = {"build-it", "review", "strict", "x"}
    slugify <- Slugs
    Text = {"v0", "v1", "new"}
    NewText = "new"
    Source <- Sources
    None = None
    Budget <- Bound

    
PROPERTIES
    NothingUnasked
CHECK_DEADLOCK FALSE
