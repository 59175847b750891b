SPECIFICATION Spec
CHECK_DEADLOCK FALSE
PROPERTY HuffmanDecodes
PROPERTY CompressedReadsBack
PROPERTY PicturesReadBack
PROPERTY DigestsStream
PROPERTY ArithmeticIsExact
PROPERTY SortsHeapsAndRings
PROPERTY StringsAndPathsAgree
PROPERTY RegexpFindsLeftmost
PROPERTY TextsReadBack
PROPERTY TemplatesNest
PROPERTY PrintedSourceParsesBack
PROPERTY TypesAreExact
